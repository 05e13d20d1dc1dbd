------------------------- MODULE FrameReaderProofs -------------------------
(***************************************************************************)
(* Proofs about module FrameReader, for frames of any length, any size of  *)
(* the header and every way to cut the stream into chunks and to end it.   *)
(* IInv says what the reader holds at each of its recv calls: the bytes    *)
(* from the start of the frame it is in up to the last byte it has taken.  *)
(***************************************************************************)
EXTENDS FrameReader, TLAPS

\* The number of the frame the reader is in.
This == Len(got) + 1

AtHeader ==
    /\ header = <<>> /\ payload = <<>>
    /\ read = Start[This]
AtRest ==
    /\ This \in FrameNo
    /\ Start[This] < read /\ read < Start[This] + HeaderSize
    /\ header = Bytes(Start[This], read) /\ payload = <<>>
AtPayload ==
    /\ This \in FrameNo
    /\ Start[This] + HeaderSize <= read /\ read < Start[This + 1]
    /\ header = Header(This)
    /\ payload = Bytes(Start[This] + HeaderSize, read)

IInv ==
    /\ TypeOK
    /\ read <= written
    /\ WholeFrames /\ EndsExactly
    /\ pc \in {"eof", "broken"} => closed
    /\ pc = "header" => AtHeader
    /\ pc = "rest" => AtRest
    /\ pc = "payload" => AtPayload

\* The frames are apart from each other.
LEMMA StartType ==
    /\ HeaderSize \in Nat \ {0} /\ Start \in Seq(Nat) /\ Len(Start) \in Nat \ {0}
    /\ Total \in Nat /\ Start[1] = 0
    /\ \A k \in FrameNo :
           /\ k \in DOMAIN Start /\ k + 1 \in DOMAIN Start
           /\ Start[k] \in Nat /\ Start[k + 1] \in Nat
           /\ Start[k] + HeaderSize <= Start[k + 1] /\ Start[k + 1] <= Total
  <1>1. /\ HeaderSize \in Nat \ {0} /\ Start \in Seq(Nat) /\ Len(Start) \in Nat \ {0}
        /\ Start[1] = 0 /\ DOMAIN Start = 1..Len(Start)
        /\ \A j \in 1..Len(Start) : Start[j] \in Nat
    BY FrameReaderAssumption
  <1>2. ASSUME NEW k \in FrameNo
        PROVE  k \in 1..Len(Start) /\ k + 1 \in 1..Len(Start) /\ k < k + 1
    BY <1>1 DEF FrameNo
  <1>3. ASSUME NEW k \in 1..Len(Start)
        PROVE  Start[k] <= Total
    <2> DEFINE n == Len(Start)
    <2>1. n \in Nat \ {0} /\ k \in 1..n
      BY <1>1, <1>3
    <2>2. k < n => Start[k] + HeaderSize <= Start[n]
      BY <1>1, <2>1, FrameReaderAssumption
    <2>3. Start[k] \in Nat /\ Start[n] \in Nat
      BY <1>1, <2>1
    <2> HIDE DEF n
    <2>4. k < n \/ k = n
      BY <2>1
    <2>5. Start[k] <= Start[n]
      BY <1>1, <2>2, <2>3, <2>4
    <2> QED
      BY <2>5 DEF Total, n
  <1> QED
    BY <1>1, <1>2, <1>3, FrameReaderAssumption DEF Total

\* A run of bytes as a sequence.
LEMMA BytesType ==
    ASSUME NEW a \in Nat, NEW b \in Nat, a <= b, b <= Total
    PROVE  /\ Bytes(a, b) \in Seq(1..Total)
           /\ Len(Bytes(a, b)) = b - a
           /\ \A i \in 1..(b - a) : Bytes(a, b)[i] = a + i
  <1>1. b - a \in Nat /\ Total \in Nat
    BY StartType
  <1>2. \A i \in 1..(b - a) : a + i \in 1..Total
    BY <1>1
  <1> QED
    BY <1>1, <1>2 DEF Bytes

\* Two runs of bytes, one behind the other.
LEMMA BytesJoin ==
    ASSUME NEW a \in Nat, NEW b \in Nat, NEW c \in Nat, a <= b, b <= c, c <= Total
    PROVE  Bytes(a, b) \o Bytes(b, c) = Bytes(a, c)
  <1>0. Total \in Nat /\ a <= c /\ b <= Total
    BY StartType
  <1>1. /\ Bytes(a, b) \in Seq(1..Total) /\ Len(Bytes(a, b)) = b - a
        /\ Bytes(b, c) \in Seq(1..Total) /\ Len(Bytes(b, c)) = c - b
        /\ Bytes(a, c) \in Seq(1..Total) /\ Len(Bytes(a, c)) = c - a
    BY <1>0, BytesType
  <1> DEFINE s == Bytes(a, b) \o Bytes(b, c)
  <1>2. s \in Seq(1..Total) /\ Len(s) = c - a
    BY <1>1
  <1>3. ASSUME NEW i \in 1..(c - a)
        PROVE  s[i] = Bytes(a, c)[i]
    <2>1. CASE i <= b - a
      <3>1. i \in 1..(b - a)
        BY <2>1
      <3>2. s[i] = Bytes(a, b)[i]
        BY <1>1, <3>1
      <3>3. Bytes(a, b)[i] = a + i /\ Bytes(a, c)[i] = a + i
        BY <1>0, <3>1, BytesType
      <3> QED
        BY <3>2, <3>3
    <2>2. CASE i > b - a
      <3>1. i - (b - a) \in 1..(c - b)
        BY <2>2
      <3>2. s[i] = Bytes(b, c)[i - (b - a)]
        BY <1>1, <2>2
      <3>3. Bytes(b, c)[i - (b - a)] = b + (i - (b - a))
        BY <1>0, <3>1, BytesType
      <3>4. Bytes(a, c)[i] = a + i
        BY <1>0, BytesType
      <3> QED
        BY <3>2, <3>3, <3>4
    <2>3. i <= b - a \/ i > b - a
      OBVIOUS
    <2> QED
      BY <2>1, <2>2, <2>3
  <1> HIDE DEF s
  <1>4. s = Bytes(a, c)
    BY <1>1, <1>2, <1>3
  <1> QED
    BY <1>4 DEF s

\* What recv returns.
LEMMA ChunkType ==
    ASSUME TypeOK, NEW n \in Nat, NEW c \in Chunks(n)
    PROVE  \E e \in Nat : /\ c = Bytes(read, e) /\ Len(c) = e - read
                          /\ read < e /\ e <= written /\ e <= read + n /\ e <= Total
  <1>1. read \in Nat /\ written \in Nat /\ written <= Total
    BY StartType DEF TypeOK
  <1>2. PICK e \in (read + 1)..written : e <= read + n /\ c = Bytes(read, e)
    BY DEF Chunks
  <1>3. e \in Nat /\ read < e /\ e <= written /\ e <= Total
    BY <1>1, StartType
  <1>4. Len(c) = e - read
    <2>1. read <= e
      BY <1>1, <1>3
    <2> QED
      BY <1>1, <1>2, <1>3, <2>1, BytesType
  <1> QED
    BY <1>2, <1>3, <1>4

\* A header that was sent says how long the payload is that was sent with it.
LEMMA HeaderLength ==
    ASSUME NEW k \in FrameNo
    PROVE  PayloadLen(Header(k)) = Start[k + 1] - (Start[k] + HeaderSize)
  <1> DEFINE j == CHOOSE j \in FrameNo : Header(k) = Header(j)
  <1>1. j \in FrameNo /\ Header(k) = Header(j)
    OBVIOUS
  <1>2. PayloadLen(Header(k)) = Len(Payload(j))
    BY DEF PayloadLen
  <1> HIDE DEF j
  <1>3. Start[j] = Start[k]
    <2>1. ASSUME NEW i \in FrameNo PROVE Header(i)[1] = Start[i] + 1
      <3>1. (Start[i] + HeaderSize) - Start[i] = HeaderSize /\ 1 \in 1..HeaderSize
        BY StartType
      <3> QED
        BY <3>1 DEF Header, Bytes
    <2>2. Start[k] + 1 = Start[j] + 1
      BY <1>1, <2>1
    <2>3. Start[k] \in Nat /\ Start[j] \in Nat
      BY <1>1, StartType
    <2> QED
      BY <2>2, <2>3
  <1>4. j = k
    <2>1. /\ j \in DOMAIN Start /\ k \in DOMAIN Start /\ j \in Nat /\ k \in Nat
          /\ Start[k] \in Nat /\ HeaderSize \in Nat \ {0}
      BY <1>1, StartType DEF FrameNo
    <2>2. ~(j < k) /\ ~(k < j)
      BY <1>3, <2>1, FrameReaderAssumption
    <2> QED
      BY <2>1, <2>2
  <1>5. Len(Payload(k)) = Start[k + 1] - (Start[k] + HeaderSize)
    <2>1. Start[k] + HeaderSize \in Nat
      BY StartType
    <2> QED
      BY <2>1, StartType, BytesType DEF Payload
  <1> QED
    BY <1>2, <1>4, <1>5

\* The reader starts at the first frame.
LEMMA Initially == Init => IInv
  <1> SUFFICES ASSUME Init PROVE IInv
    OBVIOUS
  <1>1. Len(got) = 0 /\ got \in Seq(Seq(1..Total)) /\ This = 1
    BY DEF Init, This
  <1>2. header \in Seq(1..Total) /\ payload \in Seq(1..Total) /\ Len(header) = 0
    BY DEF Init
  <1>3. TypeOK
    <2>1. 0 \in 0..Total /\ 0 < HeaderSize
      BY StartType
    <2> QED
      BY <1>1, <1>2, <2>1 DEF Init, TypeOK, ReaderPC
  <1>4. WholeFrames /\ EndsExactly
    BY <1>1, StartType DEF Init, WholeFrames, EndsExactly
  <1> QED
    BY <1>1, <1>3, <1>4, StartType DEF Init, IInv, AtHeader

\* When recv returns something the reader is in a frame.
LEMMA InFrame ==
    ASSUME IInv, Reading, NEW e \in Nat, read < e, e <= Total
    PROVE  /\ This \in FrameNo /\ This \in Nat
           /\ Start[This] \in Nat /\ Start[This + 1] \in Nat
           /\ Start[This] + HeaderSize <= Start[This + 1] /\ Start[This + 1] <= Total
  <1>1. Len(got) \in Nat /\ This \in 1..Len(Start)
    BY StartType DEF IInv, TypeOK, WholeFrames, This
  <1>2. This = Len(Start) => read = Total \/ This \in FrameNo
    BY DEF IInv, Reading, AtHeader, AtRest, AtPayload, Total
  <1>3. read \in Nat
    BY StartType DEF IInv, TypeOK
  <1>4. This \in FrameNo
    BY <1>1, <1>2, <1>3, StartType DEF FrameNo
  <1> QED
    BY <1>1, <1>4, StartType

\* A frame that is complete is returned as it was sent.
LEMMA ReturnKept ==
    ASSUME IInv, This \in FrameNo, ReturnFrame(Payload(This)),
           read' = Start[This + 1], read' <= written, UNCHANGED <<written, closed>>
    PROVE  IInv'
  <1> DEFINE p == Payload(This)
  <1>1. /\ got \in Seq(Seq(1..Total)) /\ Len(got) \in Nat /\ Len(got) < Len(Start)
        /\ \A k \in 1..Len(got) : got[k] = Payload(k)
    BY DEF IInv, TypeOK, WholeFrames
  <1>2. p \in Seq(1..Total)
    <2>1. /\ Start[This] + HeaderSize \in Nat /\ Start[This + 1] \in Nat
          /\ Start[This] + HeaderSize <= Start[This + 1] /\ Start[This + 1] <= Total
      BY StartType
    <2> QED
      BY <2>1, BytesType DEF Payload
  <1>3. got' = Append(got, p) /\ pc' = "header" /\ header' = <<>> /\ payload' = <<>>
    BY DEF ReturnFrame
  <1>4. This = Len(got) + 1 /\ p = Payload(Len(got) + 1)
    BY DEF This
  <1> HIDE DEF p
  <1>5. /\ got' \in Seq(Seq(1..Total)) /\ Len(got') = Len(got) + 1
        /\ \A k \in 1..Len(got) : got'[k] = got[k]
        /\ got'[Len(got) + 1] = p
    BY <1>1, <1>2, <1>3
  <1>6. This' = This + 1 /\ Len(got') < Len(Start)
    BY <1>1, <1>4, <1>5, StartType DEF This, FrameNo
  <1>7. ASSUME NEW k \in 1..Len(got')
        PROVE  got'[k] = Payload(k)
    <2>1. k \in 1..Len(got) \/ k = Len(got) + 1
      BY <1>1, <1>5
    <2> QED
      BY <1>1, <1>4, <1>5, <2>1
  <1>8. WholeFrames'
    BY <1>5, <1>6, <1>7 DEF WholeFrames
  <1>9. TypeOK'
    <2>1. read' \in 0..Total /\ 0 < HeaderSize
      BY StartType
    <2>2. <<>> \in Seq(1..Total) /\ Len(<<>>) = 0
      OBVIOUS
    <2> QED
      BY <1>3, <1>5, <2>1, <2>2 DEF IInv, TypeOK, ReaderPC
  <1>10. EndsExactly' /\ AtHeader'
    BY <1>3, <1>6 DEF EndsExactly, AtHeader
  <1> QED
    BY <1>3, <1>8, <1>9, <1>10 DEF IInv

\* A header that is complete is understood.
LEMMA ParseKept ==
    ASSUME IInv, payload = <<>>, This \in FrameNo, NEW h, h = Header(This), ParseHeader(h),
           read' = Start[This] + HeaderSize, read' <= written, UNCHANGED <<written, closed>>
    PROVE  IInv'
  <1>1. /\ Start[This] \in Nat /\ Start[This + 1] \in Nat /\ HeaderSize \in Nat
        /\ Start[This] + HeaderSize <= Start[This + 1] /\ Start[This + 1] <= Total
    BY StartType
  <1>2. PayloadLen(h) = Start[This + 1] - (Start[This] + HeaderSize)
    BY HeaderLength
  <1>3. CASE PayloadLen(h) = 0
    <2>1. Start[This + 1] = Start[This] + HeaderSize
      BY <1>1, <1>2, <1>3
    <2>2. Payload(This) = <<>>
      BY <1>1, <2>1 DEF Payload, Bytes
    <2> QED
      BY <1>3, <2>1, <2>2, ReturnKept DEF ParseHeader
  <1>4. CASE PayloadLen(h) # 0
    <2>1. pc' = "payload" /\ header' = h /\ payload' = <<>> /\ got' = got /\ This' = This
      BY <1>4 DEF ParseHeader, This
    <2>2. h \in Seq(1..Total) /\ Len(h) = HeaderSize
      <3>1. /\ Start[This] + HeaderSize \in Nat /\ Start[This] <= Start[This] + HeaderSize
            /\ Start[This] + HeaderSize <= Total
            /\ (Start[This] + HeaderSize) - Start[This] = HeaderSize
        BY <1>1, StartType
      <3> QED
        BY <1>1, <3>1, BytesType DEF Header
    <2>3. payload' = Bytes(Start[This] + HeaderSize, read')
      BY <1>1, <2>1 DEF Bytes
    <2>4. AtPayload'
      BY <1>1, <1>2, <1>4, <2>1, <2>3 DEF AtPayload
    <2>5. TypeOK'
      <3>1. read' \in 0..Total /\ <<>> \in Seq(1..Total)
        BY <1>1, StartType
      <3> QED
        BY <2>1, <2>2, <3>1 DEF IInv, TypeOK, ReaderPC
    <2>6. WholeFrames' /\ EndsExactly'
      BY <2>1 DEF IInv, WholeFrames, EndsExactly
    <2> QED
      BY <2>1, <2>4, <2>5, <2>6 DEF IInv
  <1> QED
    BY <1>3, <1>4

\* Every step keeps what the reader holds.
LEMMA Kept == IInv /\ [Next]_vars => IInv'
  <1> SUFFICES ASSUME IInv, [Next]_vars
               PROVE  IInv'
    OBVIOUS
  <1>types. TypeOK /\ read \in Nat /\ written \in Nat /\ HeaderSize \in Nat
    BY StartType DEF IInv, TypeOK
  <1>1. CASE DaemonWrites
    <2>1. /\ written' \in 0..Total /\ written < written' /\ ~closed
          /\ UNCHANGED <<closed, read, pc, header, payload, got>> /\ This' = This
      BY <1>1, <1>types, StartType DEF DaemonWrites, This
    <2> QED
      BY <1>types, <2>1
      DEF IInv, TypeOK, WholeFrames, EndsExactly, AtHeader, AtRest, AtPayload
  <1>2. CASE StreamCloses
    BY <1>2
    DEF StreamCloses, IInv, TypeOK, WholeFrames, EndsExactly, AtHeader, AtRest, AtPayload, This
  <1>3. CASE RecvHeader
    <2>1. PICK c \in Chunks(HeaderSize) :
             /\ read' = read + Len(c)
             /\ IF Len(c) < HeaderSize
                THEN pc' = "rest" /\ header' = c /\ UNCHANGED <<payload, got>>
                ELSE ParseHeader(c)
      BY <1>3 DEF RecvHeader
    <2>2. PICK e \in Nat : /\ c = Bytes(read, e) /\ Len(c) = e - read
                           /\ read < e /\ e <= written /\ e <= read + HeaderSize /\ e <= Total
      BY <1>types, ChunkType
    <2>3. read' = e /\ UNCHANGED <<written, closed>>
      BY <1>3, <1>types, <2>1, <2>2 DEF RecvHeader
    <2>4. AtHeader /\ This \in FrameNo /\ Start[This] \in Nat
      BY <1>3, <2>2, InFrame DEF RecvHeader, IInv, Reading
    <2>5. CASE Len(c) < HeaderSize
      <3>1. /\ pc' = "rest" /\ header' = Bytes(Start[This], e) /\ payload' = <<>>
            /\ got' = got /\ This' = This
        BY <2>1, <2>2, <2>4, <2>5 DEF AtHeader, This
      <3>2. AtRest'
        BY <1>types, <2>2, <2>3, <2>4, <2>5, <3>1 DEF AtRest, AtHeader
      <3>3. header' \in Seq(1..Total) /\ Len(header') < HeaderSize
        BY <1>types, <2>1, <2>2, <2>5, BytesType
      <3>4. TypeOK'
        BY <1>types, <2>2, <2>3, <3>1, <3>3, StartType DEF TypeOK, ReaderPC
      <3> QED
        BY <2>2, <2>3, <3>1, <3>2, <3>4 DEF IInv, WholeFrames, EndsExactly
    <2>6. CASE ~(Len(c) < HeaderSize)
      <3>1. e = Start[This] + HeaderSize
        BY <1>types, <2>2, <2>4, <2>6 DEF AtHeader
      <3>2. c = Header(This)
        BY <2>2, <2>4, <3>1 DEF AtHeader, Header
      <3> QED
        BY <2>1, <2>2, <2>3, <2>4, <2>6, <3>1, <3>2, ParseKept DEF AtHeader
    <2> QED
      BY <2>5, <2>6
  <1>4. CASE RecvRest
    <2>0. AtRest /\ pc = "rest" /\ This \in FrameNo /\ Start[This] \in Nat
      BY <1>4, StartType DEF RecvRest, IInv, AtRest
    <2>1. /\ read <= Total /\ Start[This] <= read
          /\ Len(header) = read - Start[This] /\ HeaderSize - Len(header) \in Nat
      <3>1. read <= Total /\ Start[This] <= read /\ read < Start[This] + HeaderSize
        BY <1>types, <2>0, StartType DEF AtRest, TypeOK
      <3>2. Len(header) = read - Start[This]
        BY <1>types, <2>0, <3>1, BytesType DEF AtRest
      <3> QED
        BY <1>types, <2>0, <3>1, <3>2
    <2>2. PICK c \in Chunks(HeaderSize - Len(header)) :
             /\ read' = read + Len(c)
             /\ IF Len(header \o c) < HeaderSize
                THEN header' = header \o c /\ UNCHANGED <<pc, payload, got>>
                ELSE ParseHeader(header \o c)
      BY <1>4 DEF RecvRest
    <2>3. PICK e \in Nat : /\ c = Bytes(read, e) /\ Len(c) = e - read
                           /\ read < e /\ e <= written
                           /\ e <= read + (HeaderSize - Len(header)) /\ e <= Total
      BY <1>types, <2>1, ChunkType
    <2>4. read' = e /\ UNCHANGED <<written, closed>>
      BY <1>4, <1>types, <2>2, <2>3 DEF RecvRest
    <2>5. header \o c = Bytes(Start[This], e)
      <3>1. read <= e
        BY <1>types, <2>3
      <3> QED
        BY <1>types, <2>0, <2>1, <2>3, <3>1, BytesJoin DEF AtRest
    <2>6. /\ Bytes(Start[This], e) \in Seq(1..Total)
          /\ Len(Bytes(Start[This], e)) = e - Start[This]
      <3>1. Start[This] <= e
        BY <1>types, <2>0, <2>1, <2>3
      <3> QED
        BY <2>0, <2>3, <3>1, BytesType
    <2>7. e <= Start[This] + HeaderSize
      BY <1>types, <2>0, <2>1, <2>3
    <2>8. CASE Len(header \o c) < HeaderSize
      <3>1. /\ pc' = "rest" /\ header' = Bytes(Start[This], e) /\ payload' = <<>>
            /\ got' = got /\ This' = This
        BY <2>0, <2>2, <2>5, <2>8 DEF AtRest, This
      <3>2. AtRest'
        BY <1>types, <2>0, <2>1, <2>3, <2>4, <2>5, <2>6, <2>8, <3>1 DEF AtRest
      <3>3. TypeOK'
        <4>1. read' \in 0..Total /\ <<>> \in Seq(1..Total)
          BY <2>3, <2>4, StartType
        <4>2. header' \in Seq(1..Total) /\ Len(header') < HeaderSize
          BY <2>5, <2>6, <2>8, <3>1
        <4> QED
          BY <1>types, <2>4, <3>1, <4>1, <4>2 DEF TypeOK, ReaderPC
      <3> QED
        BY <2>3, <2>4, <3>1, <3>2, <3>3 DEF IInv, WholeFrames, EndsExactly
    <2>9. CASE ~(Len(header \o c) < HeaderSize)
      <3>1. e = Start[This] + HeaderSize
        BY <1>types, <2>0, <2>5, <2>6, <2>7, <2>9
      <3>2. header \o c = Header(This)
        BY <2>5, <3>1 DEF Header
      <3> QED
        BY <2>0, <2>2, <2>3, <2>4, <2>9, <3>1, <3>2, ParseKept DEF AtRest
    <2> QED
      BY <2>8, <2>9
  <1>5. CASE RecvPayload
    <2>0. /\ AtPayload /\ pc = "payload" /\ This \in FrameNo
          /\ Start[This] + HeaderSize \in Nat /\ Start[This + 1] \in Nat
          /\ Start[This + 1] <= Total
      BY <1>5, StartType DEF RecvPayload, IInv, AtPayload
    <2> DEFINE a == Start[This] + HeaderSize
               b == Start[This + 1]
    <2>1. /\ a <= read /\ read < b /\ PayloadLen(header) = b - a
          /\ payload = Bytes(a, read) /\ header = Header(This)
      BY <2>0, HeaderLength DEF AtPayload
    <2>2. Len(payload) = read - a /\ PayloadLen(header) - Len(payload) = b - read
          /\ b - read \in Nat
      <3>1. Len(payload) = read - a
        <4>1. a \in Nat /\ read <= Total /\ a <= read
          BY <1>types, <2>0, <2>1, StartType DEF TypeOK
        <4> QED
          BY <1>types, <2>1, <4>1, BytesType
      <3> QED
        BY <1>types, <2>0, <2>1, <3>1
    <2> HIDE DEF a, b
    <2>3. PICK c \in Chunks(b - read) :
             /\ read' = read + Len(c)
             /\ IF Len(payload \o c) < PayloadLen(header)
                THEN payload' = payload \o c /\ UNCHANGED <<pc, header, got>>
                ELSE ReturnFrame(payload \o c)
      BY <1>5, <2>2 DEF RecvPayload
    <2>4. PICK e \in Nat : /\ c = Bytes(read, e) /\ Len(c) = e - read
                           /\ read < e /\ e <= written /\ e <= read + (b - read) /\ e <= Total
      BY <1>types, <2>2, ChunkType
    <2>5. read' = e /\ UNCHANGED <<written, closed>>
      BY <1>5, <1>types, <2>3, <2>4 DEF RecvPayload
    <2>6. a \in Nat /\ b \in Nat /\ b <= Total /\ a <= e /\ e <= b
      BY <1>types, <2>0, <2>1, <2>4 DEF a, b
    <2>7. /\ payload \o c = Bytes(a, e)
          /\ Bytes(a, e) \in Seq(1..Total) /\ Len(Bytes(a, e)) = e - a
      <3>1. read <= e /\ a <= read
        BY <1>types, <2>1, <2>4
      <3>2. payload \o c = Bytes(a, e)
        BY <1>types, <2>1, <2>4, <2>6, <3>1, BytesJoin
      <3> QED
        BY <2>4, <2>6, <3>2, BytesType
    <2>8. CASE Len(payload \o c) < PayloadLen(header)
      <3>1. /\ pc' = "payload" /\ header' = header /\ payload' = Bytes(a, e)
            /\ got' = got /\ This' = This
        BY <2>0, <2>3, <2>7, <2>8 DEF This
      <3>2. e < b
        BY <2>1, <2>6, <2>7, <2>8
      <3>3. AtPayload'
        BY <2>0, <2>1, <2>5, <2>6, <3>1, <3>2 DEF AtPayload, a, b
      <3>4. TypeOK'
        <4>1. read' \in 0..Total /\ payload' \in Seq(1..Total)
          BY <2>4, <2>5, <2>7, <3>1, StartType
        <4> QED
          BY <1>types, <2>0, <2>5, <3>1, <4>1 DEF TypeOK, ReaderPC
      <3> QED
        BY <2>4, <2>5, <3>1, <3>3, <3>4 DEF IInv, WholeFrames, EndsExactly
    <2>9. CASE ~(Len(payload \o c) < PayloadLen(header))
      <3>1. e = b
        BY <2>1, <2>6, <2>7, <2>9
      <3>2. payload \o c = Payload(This)
        BY <2>7, <3>1 DEF Payload, a, b
      <3> QED
        BY <2>0, <2>3, <2>4, <2>5, <2>9, <3>1, <3>2, ReturnKept DEF b
    <2> QED
      BY <2>8, <2>9
  <1>6. CASE RecvEnds
    <2>1. UNCHANGED <<written, closed, read, header, payload, got>> /\ This' = This
      BY <1>6 DEF RecvEnds, This
    <2>2. CASE pc = "header"
      <3>1. pc' = "eof" /\ closed /\ written = Start[Len(got) + 1]
        BY <1>6, <2>2 DEF RecvEnds, IInv, AtHeader, This
      <3> QED
        BY <2>1, <3>1 DEF IInv, TypeOK, ReaderPC, WholeFrames, EndsExactly
    <2>3. CASE pc \in {"rest", "payload"}
      <3>1. /\ pc' = "broken" /\ closed /\ read = written
            /\ This \in FrameNo /\ Start[This] < read /\ read < Start[This + 1]
        BY <1>6, <1>types, <2>3, StartType DEF RecvEnds, IInv, AtRest, AtPayload
      <3>2. /\ Len(got) + 1 \in FrameNo
            /\ Start[Len(got) + 1] < written /\ written < Start[Len(got) + 2]
        <4>1. Len(got) + 2 = This + 1 /\ Len(got) + 1 = This
          BY <1>types DEF This, TypeOK
        <4> QED
          BY <3>1, <4>1
      <3> QED
        BY <2>1, <3>1, <3>2 DEF IInv, TypeOK, ReaderPC, WholeFrames, EndsExactly
    <2> QED
      BY <1>6, <2>2, <2>3 DEF RecvEnds, Reading
  <1>7. CASE RecvTimesOut
    BY <1>7 DEF RecvTimesOut, IInv, TypeOK, ReaderPC, WholeFrames, EndsExactly
  <1>8. CASE UNCHANGED vars
    BY <1>8
    DEF vars, IInv, TypeOK, WholeFrames, EndsExactly, AtHeader, AtRest, AtPayload, This
  <1> QED
    BY <1>1, <1>2, <1>3, <1>4, <1>5, <1>6, <1>7, <1>8 DEF Next, Receive

\* The variables have their types in every reachable state.
THEOREM TypeCorrect == Spec => []TypeOK
  <1>1. IInv => TypeOK
    BY DEF IInv
  <1> QED
    BY <1>1, Initially, Kept, PTL DEF Spec

\* Whatever the chunks, recv_exact and read_frame put the frames together as
\* they were sent.
THEOREM FramesAreWhole == Spec => []WholeFrames
  <1>1. IInv => WholeFrames
    BY DEF IInv
  <1> QED
    BY <1>1, Initially, Kept, PTL DEF Spec

\* An end between two frames is never taken for a broken frame, nor a broken
\* frame for the end.
THEOREM EndsAreExact == Spec => []EndsExactly
  <1>1. IInv => EndsExactly
    BY DEF IInv
  <1> QED
    BY <1>1, Initially, Kept, PTL DEF Spec
=============================================================================
