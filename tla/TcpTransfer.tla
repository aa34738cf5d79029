---------------------------- MODULE TcpTransfer ----------------------------
(***************************************************************************)
(* An established TCP connection of src/model/tcp-socket-base.cc, from the *)
(* application that sends through both buffers (tcp-tx-buffer.cc,          *)
(* tcp-rx-buffer.cc) to the application that reads, which sends nothing    *)
(* but acknowledgments.                                                    *)
(*                                                                         *)
(* A byte of the stream is its position, and position 1 has the sequence   *)
(* number 1: sequence numbers do not wrap around.  The congestion window   *)
(* is any size from one segment up, as every algorithm of the code keeps   *)
(* it, and a timer that runs may expire at any time.  The advertised       *)
(* window is the size of the receive buffer, whatever that holds.          *)
(***************************************************************************)
EXTENDS Integers, FiniteSets, SequencesExt

CONSTANTS
    Writes,             \* how many bytes the application hands to each call of Send
    ReadSizes,          \* how many it asks for in a call of Recv
    SegmentSize,        \* m_segmentSize
    SndBufSize,         \* m_maxBuffer of the TcpTxBuffer
    RcvBufSize,         \* m_maxBuffer of the TcpRxBuffer, and so m_rWnd
    Windows,            \* values of Window(): the congestion window, up to m_rWnd
    ReTxThreshold, DataRetries, DelAckMaxCount,
    Options,            \* settings of LimitedTransmit and TcpNoDelay
    MaxInFlight         \* bound on the segments under way

(* A window below one segment would never be used (silly window avoidance  *)
(* in SendPendingData).  With a single retry a partial acknowledgment      *)
(* drops the connection and goes on to use it.                             *)
ASSUME TcpAssumption ==
    /\ Writes \in Seq(Nat \ {0}) /\ ReadSizes \subseteq Nat \ {0}
    /\ Options \subseteq [limitedTx : BOOLEAN, noDelay : BOOLEAN]
    /\ SegmentSize \in Nat \ {0} /\ SndBufSize \in Nat \ {0}
    /\ RcvBufSize \in Nat /\ Windows \subseteq SegmentSize .. RcvBufSize /\ Windows # {}
    /\ ReTxThreshold \in Nat /\ ReTxThreshold >= 2
    /\ DataRetries \in Nat /\ DataRetries >= 2
    /\ DelAckMaxCount \in Nat \ {0} /\ MaxInFlight \in Nat \ {0}

VARIABLES
    snd,        \* the sending socket with its TcpTxBuffer
    rcv,        \* the receiving socket with its TcpRxBuffer
    segments,   \* data segments under way
    acks        \* acknowledgments under way

vars == <<snd, rcv, segments, acks>>

(* How many bytes the first n writes have.                                 *)
Written(n) == FoldLeft(LAMBDA sum, size : sum + size, 0, SubSeq(Writes, 1, n))

Length == Written(Len(Writes))

Bytes == Seq(1 .. Length)

SequenceNumber == 1 .. Length + 1

Segment == [seq : SequenceNumber, data : Bytes]

(* writes      how many writes the application has made                    *)
(* head, data  the TcpTxBuffer: m_firstByteSeq and the bytes from there    *)
(* next, high  m_nextTxSequence, m_highTxMark                              *)
(* cong        m_congState                                                 *)
(* dup         m_dupAckCount, as far as it decides on fast retransmit: in  *)
(*             OPEN and DISORDER, up to one beyond the threshold           *)
(* recover     m_recover                                                   *)
(* first       m_isFirstPartialAck                                         *)
(* retries     m_dataRetrCount                                             *)
(* retx        m_retxEvent is running                                      *)
(* pending     m_sendPendingDataEvent is running                           *)
(* dropped     the retries were used up and the end point was deallocated  *)
Sender ==
    [writes : 0 .. Len(Writes), head : SequenceNumber, data : Bytes,
     next : SequenceNumber, high : SequenceNumber,
     cong : {"OPEN", "DISORDER", "RECOVERY", "LOSS"}, dup : 0 .. ReTxThreshold + 1,
     recover : 0 .. Length + 1, first : BOOLEAN, retries : 0 .. DataRetries,
     retx : BOOLEAN, pending : BOOLEAN, dropped : BOOLEAN,
     options : Options]

(* next, size, avail   m_nextRxSeq, m_size, m_availBytes                   *)
(* data        m_data: the bytes of the block at each sequence number, if  *)
(*             there is one                                                *)
(* read        history: the bytes the application has read                 *)
(* count       m_delAckCount                                               *)
(* timer       m_delAckEvent is running                                    *)
Receiver ==
    [next : SequenceNumber, size : 0 .. Length, avail : 0 .. Length,
     data : [1 .. Length -> Bytes],
     read : Bytes, count : 0 .. DelAckMaxCount, timer : BOOLEAN]

(* Besides the types: ReceivedAck asserts that a socket in OPEN has        *)
(* counted no duplicates, and that partial acknowledgments belong to a     *)
(* recovery, unless a timeout has ended it.                                *)
TypeOK ==
    /\ snd \in Sender
    /\ snd.cong = "OPEN" => snd.dup = 0
    /\ ~ snd.first => snd.cong \in {"RECOVERY", "LOSS"}
    /\ rcv \in Receiver
    /\ segments \subseteq Segment
    /\ acks \subseteq SequenceNumber

Init ==
    /\ snd \in [writes : {0}, head : {1}, data : {<< >>}, next : {1}, high : {1},
                cong : {"OPEN"}, dup : {0}, recover : {0}, first : {TRUE},
                retries : {DataRetries}, retx : {FALSE}, pending : {FALSE},
                dropped : {FALSE}, options : Options]
    /\ rcv = [next |-> 1, size |-> 0, avail |-> 0,
            data |-> [b \in 1 .. Length |-> << >>], read |-> << >>,
            count |-> DelAckMaxCount, timer |-> FALSE]
    /\ segments = {}
    /\ acks = {}

End(seg) == seg.seq + Len(seg.data)

-----------------------------------------------------------------------------
(* The network.  What is sent may be lost, as is a second copy of what is  *)
(* under way and what exceeds MaxInFlight; the rest arrives in any order.  *)

Transmit(sent) ==
    \E kept \in SUBSET sent :
        /\ Cardinality(segments \cup kept) <= MaxInFlight
        /\ segments' = segments \cup kept

Acknowledge(n) == acks' = acks \cup {n} \/ UNCHANGED acks

-----------------------------------------------------------------------------
(* The sending socket s.                                                   *)

(* CopyFromSequence: up to max bytes of the buffer from seq.               *)
CopyFromSequence(s, seq, max) ==
    [seq |-> seq, data |-> SubSeq(s.data, seq - s.head + 1,
                                  Min({seq - s.head + max, Len(s.data)}))]

(* SendDataPacket: the socket after it has sent these segments, with the   *)
(* next sequence number after them.                                        *)
SendDataPackets(s, sent) ==
    LET ends == {End(seg) : seg \in sent} IN
    [s EXCEPT !.next = Max({@} \cup ends), !.high = Max({@} \cup ends),
              !.retx = @ \/ sent # {}]

(* The socket, become s, sends some segments.                              *)
SendSegments(s, sent) ==
    /\ snd' = SendDataPackets(s, sent)
    /\ Transmit(sent)

(* The segments that SendPendingData sends within a window.                *)
PendingData(s, window) ==
    LET tail == s.head + Len(s.data)
        w(n) == Max({0, window - (n - s.head)})
        Holds(n) == \/ n = tail
                    \/ w(n) < SegmentSize /\ tail - n > w(n)
                    \/ ~ s.options.noDelay /\ n > s.head /\ tail - n < SegmentSize
        sent[n \in s.next .. tail] ==
            IF Holds(n) THEN {}
            ELSE LET seg == CopyFromSequence(s, n, Min({w(n), SegmentSize}))
                 IN  {seg} \cup sent[End(seg)]
    IN  sent[s.next]

(* One more retransmission, or the end of the connection.                  *)
DoRetransmit(s) ==
    IF s.retries = 0 THEN [s EXCEPT !.dropped = TRUE, !.retx = FALSE, !.pending = FALSE]
    ELSE SendDataPackets([s EXCEPT !.retries = @ - 1],
                         {CopyFromSequence(s, s.head, SegmentSize)})

Retransmitted(s) ==
    IF s.retries = 0 THEN {} ELSE {CopyFromSequence(s, s.head, SegmentSize)}

DiscardUpTo(s, n) ==
    [s EXCEPT !.head = n, !.data = SubSeq(@, n - s.head + 1, Len(@))]

(* The application's next write, if it fits.  A socket that has given up   *)
(* still takes it.                                                         *)
Send ==
    /\ snd.writes < Len(Writes)
    /\ LET size == Writes[snd.writes + 1] IN
       /\ Len(snd.data) + size <= SndBufSize
       /\ snd' = [snd EXCEPT !.writes = @ + 1, !.pending = TRUE,
                     !.data = @ \o [i \in 1 .. size |-> Written(snd.writes) + i]]
    /\ UNCHANGED <<rcv, segments, acks>>

(* Without an end point nothing is sent.                                   *)
SendPendingData ==
    /\ snd.pending
    /\ LET served == [snd EXCEPT !.pending = FALSE] IN
       \/ /\ snd.dropped
          /\ snd' = served
          /\ UNCHANGED segments
       \/ /\ ~ snd.dropped
          /\ \E window \in Windows : SendSegments(served, PendingData(snd, window))
    /\ UNCHANGED <<rcv, acks>>

(* Mutation of Retransmit: the timer is not started again.                 *)
RetransmitUntimed(s) ==
    [DoRetransmit([s EXCEPT !.recover = s.high, !.cong = "LOSS", !.next = s.head, !.dup = 0])
       EXCEPT !.retx = FALSE]

Retransmit(s) ==
    DoRetransmit([s EXCEPT !.recover = s.high, !.cong = "LOSS", !.next = s.head, !.dup = 0])

ReTxTimeout ==
    /\ snd.retx
    /\ LET expired == [snd EXCEPT !.retx = FALSE] IN
       \/ /\ snd.head >= snd.high
          /\ snd' = expired
          /\ UNCHANGED segments
       \/ /\ snd.head < snd.high
          /\ snd' = Retransmit(expired)
          /\ Transmit(Retransmitted(snd))
    /\ UNCHANGED <<rcv, acks>>

CountDupAck(s) == [s EXCEPT !.dup = Min({@ + 1, ReTxThreshold + 1})]

(* Limited transmit: one segment of new data, whatever the window.         *)
LimitedTransmit(s) ==
    IF s.options.limitedTx /\ s.next < s.head + Len(s.data)
    THEN {CopyFromSequence(s, s.next, SegmentSize)} ELSE {}

FastRetransmits(s) == s.dup + 1 = ReTxThreshold /\ s.head >= s.recover

(* ReceivedAck for an acknowledgment that repeats the last one.            *)
HandleDupAck ==
    \/ /\ snd.cong = "OPEN" \/ (snd.cong = "DISORDER" /\ ~ FastRetransmits(snd))
       /\ SendSegments([CountDupAck(snd) EXCEPT !.cong = "DISORDER"], LimitedTransmit(snd))
    \/ /\ snd.cong = "DISORDER" /\ FastRetransmits(snd)
       /\ snd' = DoRetransmit([CountDupAck(snd) EXCEPT !.recover = snd.high,
                                                       !.cong = "RECOVERY"])
       /\ Transmit(Retransmitted(snd))
    \/ /\ snd.cong = "RECOVERY"
       /\ \E window \in Windows : SendSegments(snd, PendingData(snd, window))
    \/ /\ snd.cong = "LOSS"
       /\ UNCHANGED <<snd, segments>>

(* NewAck, with what ReceivedAck does before and after it.                 *)
NewAck(s, n, resetRTO) ==
    LET d == DiscardUpTo(s, n) IN
    [d EXCEPT !.next = Max({@, n}), !.retx = d.data # << >> /\ (@ \/ resetRTO),
              !.retries = DataRetries, !.pending = TRUE]

(* Mutation of Reopened: the duplicates stay counted.                      *)
ReopenedCounting(s) ==
    [s EXCEPT !.cong = "OPEN", !.first = @ \/ s.cong \in {"RECOVERY", "LOSS"}]

(* Back to OPEN.                                                           *)
Reopened(s) ==
    [s EXCEPT !.cong = "OPEN", !.first = @ \/ s.cong \in {"RECOVERY", "LOSS"},
              !.dup = IF s.cong = "OPEN" THEN @ ELSE 0]

(* ReceivedAck for an acknowledgment of new data up to n.                  *)
HandleNewAck(n) ==
    \/ /\ snd.cong # "RECOVERY" \/ n >= snd.recover
       /\ snd' = NewAck(Reopened(snd), n, TRUE)
       /\ UNCHANGED segments
    \/ /\ snd.cong = "RECOVERY" /\ n < snd.recover
       /\ LET rest == DiscardUpTo(snd, n) IN
          /\ snd' = [NewAck(DoRetransmit(rest), n, snd.first) EXCEPT !.first = FALSE]
          /\ Transmit(Retransmitted(rest))

(* Mutation of ReceivedAck: the socket has been given up but not closed.   *)
ReceivedAckOnceDropped(n) ==
    /\ acks' = acks \ {n}
    /\ \/ n = snd.head /\ n < snd.next /\ HandleDupAck
       \/ n > snd.head /\ HandleNewAck(n)
       \/ /\ n < snd.head \/ (n = snd.head /\ n = snd.next)
          /\ UNCHANGED <<snd, segments>>
    /\ UNCHANGED rcv

ReceivedAck(n) ==
    /\ acks' = acks \ {n}
    /\ \/ /\ ~ snd.dropped /\ n = snd.head /\ n < snd.next
          /\ HandleDupAck
       \/ /\ ~ snd.dropped /\ n > snd.head
          /\ HandleNewAck(n)
       \/ /\ snd.dropped \/ n < snd.head \/ (n = snd.head /\ n = snd.next)
          /\ UNCHANGED <<snd, segments>>
    /\ UNCHANGED rcv

-----------------------------------------------------------------------------
(* The receiving socket r.                                                 *)

Blocks(r) == {b \in 1 .. Length : r.data[b] # << >>}

FirstBlock(r) == Min(Blocks(r))

(* The lowest sequence number that the buffer cannot accept.               *)
MaxRxSequence(r) ==
    (IF Blocks(r) = {} THEN r.next ELSE FirstBlock(r)) + RcvBufSize

OutOfRange(r, seg) == End(seg) < r.next \/ MaxRxSequence(r) <= seg.seq

(* What of a segment, from head to before tail, remains when the window    *)
(* and the blocks of the buffer are taken off, and which blocks it covers. *)
(* Mutations of InWindow: no window; of Overlapped: the tail stays.        *)
InWindowUnchecked(r, seg) ==
    [head |-> Max({seg.seq, r.next}), tail |-> End(seg), covered |-> {}]

InWindow(r, seg) ==
    LET head == Max({seg.seq, r.next})
        tail == IF Blocks(r) = {} THEN End(seg) ELSE Min({End(seg), MaxRxSequence(r)})
    IN  [head |-> Min({head, tail}), tail |-> tail, covered |-> {}]

OverlappedHeadOnly(part, first, last) ==
    IF first > part.tail \/ last <= part.head THEN part
    ELSE IF first > part.head /\ last < part.tail
         THEN [part EXCEPT !.covered = @ \cup {first}]
         ELSE [part EXCEPT !.head = IF first <= @ THEN last ELSE @]

Overlapped(part, first, last) ==
    IF first > part.tail \/ last <= part.head THEN part
    ELSE IF first > part.head /\ last < part.tail
         THEN [part EXCEPT !.covered = @ \cup {first}]
         ELSE LET head == IF first <= part.head THEN last ELSE part.head
              IN  [part EXCEPT !.head = head,
                               !.tail = IF last >= @ THEN first ELSE @]

TrimmedBy(r, part, first) ==
    IF first \in Blocks(r) THEN Overlapped(part, first, first + Len(r.data[first])) ELSE part

Trimmed(r, seg) ==
    FoldLeftDomain(LAMBDA part, first : TrimmedBy(r, part, first), InWindow(r, seg), r.data)

(* The end of the blocks that follow n without a gap.                      *)
Contiguous(r, n) ==
    FoldLeftDomain(LAMBDA end, first : IF first = end THEN end + Len(r.data[first]) ELSE end,
                   n, r.data)

(* How many bytes there are in the blocks that are covered.                *)
Erased(r, covered) ==
    FoldLeftDomain(LAMBDA sum, first : IF first \in covered THEN sum + Len(r.data[first]) ELSE sum,
                   0, r.data)

(* The bytes of the buffer one after the other.                            *)
Content(r) == FoldLeft(LAMBDA bytes, block : bytes \o block, << >>, r.data)

(* The buffer r with the part of seg as a block in place of those that it  *)
(* covers.                                                                 *)
Stored(r, seg, part) ==
    LET block == SubSeq(seg.data, part.head - seg.seq + 1, part.tail - seg.seq)
    IN  [r EXCEPT !.data = [b \in 1 .. Length |-> IF b = part.head THEN block
                                                  ELSE IF b \in part.covered THEN << >> ELSE @[b]],
                  !.size = @ - Erased(r, part.covered) + (part.tail - part.head)]

(* The bytes before next have become available.                            *)
Advanced(r, next) == [r EXCEPT !.next = next, !.avail = @ + (next - r.next)]

AdvancedToGap(r) == Advanced(r, Contiguous(r, r.next))

AddPart(r, seg, part) ==
    IF part.head >= part.tail THEN r ELSE AdvancedToGap(Stored(r, seg, part))

(* Add: the buffer with what is new of the segment.                        *)
Add(r, seg) == AddPart(r, seg, Trimmed(r, seg))

(* SendEmptyPacket (ACK).                                                  *)
Acked(r) == [r EXCEPT !.count = 0, !.timer = FALSE]

(* After the segment the buffer is `added`: an acknowledgment is due if the *)
(* buffer has a gap or this segment has closed one.                        *)
Gap(seg, added) ==
    \/ added.size > added.avail
    \/ added.next > rcv.next + Len(seg.data)

ReceivedDataInto(seg, added) ==
    \/ /\ OutOfRange(rcv, seg) \/ added.data = rcv.data
       /\ rcv' = Acked(rcv)
       /\ Acknowledge(rcv.next)
    \/ /\ ~ OutOfRange(rcv, seg) /\ added.data # rcv.data
       /\ Gap(seg, added) \/ rcv.count + 1 >= DelAckMaxCount
       /\ rcv' = Acked(added)
       /\ Acknowledge(added.next)
    \/ /\ ~ OutOfRange(rcv, seg) /\ added.data # rcv.data
       /\ ~ Gap(seg, added) /\ rcv.count + 1 < DelAckMaxCount
       /\ rcv' = [added EXCEPT !.count = @ + 1, !.timer = TRUE]
       /\ UNCHANGED acks

ReceivedData(seg) ==
    /\ segments' = segments \ {seg}
    /\ ReceivedDataInto(seg, Add(rcv, seg))
    /\ UNCHANGED snd

DelAckTimeout ==
    /\ rcv.timer
    /\ rcv' = Acked(rcv)
    /\ Acknowledge(rcv.next)
    /\ UNCHANGED <<snd, segments>>

(* Extract: the application reads up to maxSize bytes; a block of which it *)
(* reads a part is cut.                                                    *)
Extract(r, maxSize) ==
    LET size == Min({maxSize, r.avail})
        start == FirstBlock(r) + size
        cut == {b \in Blocks(r) : b < start /\ start < b + Len(r.data[b])}
    IN  [r EXCEPT !.data = [b \in 1 .. Length |->
                              IF b < start THEN << >>
                              ELSE IF b = start /\ cut # {}
                              THEN LET c == Min(cut)
                                   IN  SubSeq(r.data[c], start - c + 1, Len(r.data[c]))
                              ELSE @[b]],
                  !.size = @ - size, !.avail = @ - size,
                  !.read = @ \o SubSeq(Content(r), 1, size)]

Recv(maxSize) ==
    /\ rcv.avail > 0
    /\ rcv' = Extract(rcv, maxSize)
    /\ UNCHANGED <<snd, segments, acks>>

Next ==
    \/ Send
    \/ SendPendingData \/ ReTxTimeout \/ DelAckTimeout
    \/ \E n \in acks : ReceivedAck(n)
    \/ \E seg \in segments : ReceivedData(seg)
    \/ \E maxSize \in ReadSizes : Recv(maxSize)

Spec == Init /\ [][Next]_vars

(* The simulator runs every event of the sending socket.                   *)
FairSpec == Spec /\ WF_vars(SendPendingData) /\ WF_vars(ReTxTimeout)

-----------------------------------------------------------------------------
(* Properties.                                                             *)

(* The bytes in the receive buffer, block by block.                        *)
Held(r) == UNION {{b + i - 1 : i \in DOMAIN r.data[b]} : b \in Blocks(r)}

(* The application reads the bytes that were sent, in order, none twice    *)
(* and none left out; whatever is acknowledged has been read or is in the  *)
(* buffer, whose counters agree with its blocks.                           *)
StreamInOrder ==
    /\ rcv.read = [i \in 1 .. rcv.next - 1 - rcv.avail |-> i]
    /\ \A b \in Blocks(rcv) : \A i \in DOMAIN rcv.data[b] : rcv.data[b][i] = b + i - 1
    /\ Len(rcv.read) + 1 .. rcv.next - 1 \subseteq Held(rcv)
    /\ rcv.size = Cardinality(Held(rcv))
    /\ snd.head <= rcv.next

(* The receive buffer never holds more than its size.  The code looks at   *)
(* the window from the first byte held only, and an out-of-order segment   *)
(* may be the first: it is the sender who must keep to the window, which   *)
(* limited transmit does not.  With that the buffer holds less than twice  *)
(* its size.                                                               *)
HeldWithinBuffer ==
    /\ ~ snd.options.limitedTx => rcv.size <= RcvBufSize
    /\ rcv.size < 2 * RcvBufSize

(* The transfer never stalls: all that has been sent will be acknowledged, *)
(* or the connection given up.                                             *)
TransferEnds == []<>(snd.dropped \/ snd.data = << >>)

-----------------------------------------------------------------------------
(* The sockets, with their buffers, timers and all that is under way       *)
(* forgotten, are a stream of bytes.                                       *)
Stream == INSTANCE ByteStream WITH
    Capacity <- SndBufSize,
    written  <- snd.head + Len(snd.data) - 1,
    sent     <- snd.high - 1,
    released <- snd.head - 1,
    accepted <- rcv.next - 1,
    read     <- rcv.read,
    open     <- ~ snd.dropped

CarriesStream == Stream!Spec

=============================================================================
