----------------------------- MODULE TCPWindow ------------------------------
(***************************************************************************)
(* The send and the receive window of a TCP session of s3fnet              *)
(* (os/tcp/tcp_seqwnd.h, tcp_sndwnd.cc, tcp_rcvwnd.cc) as operators on     *)
(* records.  The bytes of a stream are numbered in the order in which the  *)
(* application wrote them, so that a payload says which bytes it carries.  *)
(* Every payload holds real data; sequence numbers do not wrap.            *)
(***************************************************************************)
EXTENDS Integers, Sequences, FiniteSets, SequencesExt

CONSTANTS
  MSS,      \* bytes in a full segment
  RcvWnd,   \* getRcvWndSize(), in bytes, of both hosts
  SndWnd,   \* getSndWndSize()
  SndBuf,   \* getSndBufSize()
  ISS       \* getISS()

ASSUME WindowAssumption ==
  /\ MSS \in Nat \ {0} /\ ISS \in Nat
  /\ RcvWnd \in Nat \ {0} /\ SndWnd \in Nat \ {0}
  /\ SndBuf \in Nat /\ SndWnd <= SndBuf

mymin(a, b) == IF a < b THEN a ELSE b
mymax(a, b) == IF a > b THEN a ELSE b
-----------------------------------------------------------------------------
(* TCPSeqWindow.  syn and fin are 0 or 1.                                  *)

firstUnused(w) == w.start + w.used
next(w) == w.start + w.used + w.syn + w.fin
expect(w) == w.start + w.syn + w.fin

setSYN(w, on) == IF on THEN [w EXCEPT !.syn = 1] ELSE [w EXCEPT !.syn = 0, !.start = @ + 1]
setFIN(w, on) == IF on THEN [w EXCEPT !.fin = 1] ELSE [w EXCEPT !.fin = 0, !.start = @ + 1]
shift(w, n) == [w EXCEPT !.start = @ + n, !.used = @ - mymin(n, @)]
-----------------------------------------------------------------------------
(* TCPSendWindow.  buf holds the bytes of the chunk list; the first        *)
(* length_in_buffer of them are in the buffer, the others are requested.   *)

NewSendWindow == [start |-> 0, used |-> 0, syn |-> 0, fin |-> 0,
                  buf |-> <<>>, length_in_buffer |-> 0]

canSend(w) == w.length_in_buffer - w.used
emptied(w) == w.used = 0 /\ w.length_in_buffer = 0

\* TCPSendWindow::generate, the payload of a segment.
payload(w, seqno, n) == SubSeq(w.buf, seqno - w.start + 1, seqno - w.start + n)

add_to_buffer(w, n) == [w EXCEPT !.length_in_buffer = @ + n]

\* Faulty variant: the free space of the buffer is not looked at.
requestToSend_noLimit(w, bytes) == add_to_buffer([w EXCEPT !.buf = @ \o bytes], Len(bytes))

requestToSend(w, bytes) ==
  add_to_buffer([w EXCEPT !.buf = @ \o bytes],
                mymin(Len(bytes), SndBuf - w.length_in_buffer))

release(w, n) ==
  LET freed == [shift(w, n) EXCEPT !.buf = SubSeq(@, n + 1, Len(@)),
                                   !.length_in_buffer = @ - n]
  IN add_to_buffer(freed, mymin(Len(freed.buf) - freed.length_in_buffer,
                                SndBuf - freed.length_in_buffer))
-----------------------------------------------------------------------------
(* TCPRecvWindow.  seg_buffer is ordered by sequence number; want is       *)
(* appl_rcvbuf_size, the length of a recv that waits for data.             *)

NewRecvWindow == [start |-> 0, used |-> 0, syn |-> 0, fin |-> 0,
                  seg_buffer |-> <<>>, want |-> 0]

within(w, seqno) == expect(w) <= seqno /\ seqno < expect(w) + RcvWnd

\* add_to_buffer_helper: a segment that begins inside the first segment, taken to
\* have the length of the new one, or inside the one before it is dropped.
inserted(segs, seg) ==
  IF segs = <<>> THEN <<seg>>
  ELSE IF seg.seqno < segs[1].seqno THEN <<seg>> \o segs
  ELSE LET k == CHOOSE i \in DOMAIN segs :
                  /\ segs[i].seqno <= seg.seqno
                  /\ i = Len(segs) \/ seg.seqno < segs[i + 1].seqno
       IN IF \/ seg.seqno < segs[1].seqno + Len(seg.data)
             \/ seg.seqno < segs[k].seqno + Len(segs[k].data)
          THEN segs ELSE InsertAt(segs, k + 1, seg)

\* addToBuffer counts the bytes as used whether or not they were new.
addToBuffer(w, seg) ==
  [w EXCEPT !.seg_buffer = inserted(@, seg),
            !.used = IF @ + Len(seg.data) > RcvWnd THEN @ ELSE @ + Len(seg.data)]

\* Faulty variant: the sequence number is not compared.
follows_any(seg, expected) == TRUE

\* The condition of the loop of generate on the next segment.
follows(seg, expected) == seg.seqno = expected

\* One iteration of the loop of generate over the segments; g holds what was taken,
\* how much is still asked for and what stays.
taken(g, seg) ==
  LET n == mymin(g.asked, Len(seg.data))
  IN IF g.stop \/ g.asked = 0 \/ ~follows(seg, g.expected)
     THEN [g EXCEPT !.stop = TRUE, !.rest = Append(@, seg)]
     ELSE [g EXCEPT !.data = @ \o SubSeq(seg.data, 1, n),
                    !.asked = @ - n, !.expected = @ + n,
                    !.rest = IF n = Len(seg.data) THEN @
                             ELSE Append(@, [seqno |-> seg.seqno + n,
                                             data |-> SubSeq(seg.data, n + 1, Len(seg.data))])]

\* TCPRecvWindow::generate: the bytes passed up and the window left behind.
generate(w, length) ==
  LET g == FoldLeft(taken, [data |-> <<>>, asked |-> length, expected |-> expect(w),
                            rest |-> <<>>, stop |-> FALSE], w.seg_buffer)
  IN [data |-> g.data, wnd |-> [shift(w, Len(g.data)) EXCEPT !.seg_buffer = g.rest]]

\* Faulty variant: every segment in the buffer counts.
passed_overGaps(n, seg) == n + Len(seg.data)

\* getExpectedSeqno walks over the segments that follow on from each other.
passed(n, seg) == IF n >= seg.seqno THEN n + Len(seg.data) ELSE n
getExpectedSeqno(w) == FoldLeft(passed, expect(w), w.seg_buffer)

\* available fills a waiting recv as soon as the next byte is there.
available(w) == w.want > 0 /\ w.seg_buffer # <<>> /\ w.seg_buffer[1].seqno <= expect(w)
=============================================================================
