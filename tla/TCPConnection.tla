--------------------------- MODULE TCPConnection ----------------------------
(***************************************************************************)
(* Two hosts of s3fnet with one TCP connection between them: the session   *)
(* on either side (TCPSession), the blocking calls of the socket layer     *)
(* above (os/socket/socket_master.cc) and the network below, which is a    *)
(* bounded queue in each direction (net/droptail_queue.cc) that loses      *)
(* segments (net/network_interface.cc).                                    *)
(*                                                                         *)
(* The application has one call in progress at a time and opens the        *)
(* connection once.  It may make any legal call at any time; a recv that   *)
(* fails an assertion ends the program.  Byte k of a stream is the number  *)
(* k.                                                                      *)
(***************************************************************************)
EXTENDS TCPSession

CONSTANTS
  client, server,             \* the hosts
  ClientBytes, ServerBytes,   \* the most bytes a host writes
  SendSizes,                  \* lengths of a send
  RecvSizes,                  \* lengths of a recv
  NetCap                      \* segments the queue towards a host holds

ASSUME ConnectionAssumption ==
  /\ client # server
  /\ ClientBytes \in Nat /\ ServerBytes \in Nat
  /\ SendSizes \subseteq Nat \ {0} /\ RecvSizes \subseteq Nat \ {0}
  /\ NetCap \in Nat \ {0}

Hosts == {client, server}
Peer(p) == IF p = client THEN server ELSE client
Bytes(p) == IF p = client THEN ClientBytes ELSE ServerBytes

VARIABLES
  sess,   \* sess[p]: the TCPSession of host p
  sock,   \* sock[p]: the Socket, its signals (state) and the call in progress
  net,    \* net[p]: the segments on their way to p
  sent,   \* sent[p]: how many bytes p has handed to send
  rcvd    \* rcvd[p]: the bytes recv has passed to p

vars == <<sess, sock, net, sent, rcvd>>

Signals == {"CONN_RESET", "DATA_AVAILABLE", "OK_TO_SEND", "CONN_CLOSED", "SOCK_EOF",
            "OK_TO_CLOSE", "FIRST_CONNECTION", "SESSION_RELEASED"}
Blocking == {"connect", "accept1", "accept2", "send", "recv", "close"}

\* The signals a blocked call waits for.
Mask(call) ==
  CASE call \in {"connect", "accept2", "send"} -> {"OK_TO_SEND", "CONN_RESET"}
    [] call = "accept1" -> {"FIRST_CONNECTION", "CONN_RESET"}
    [] call = "recv" -> {"SOCK_EOF", "DATA_AVAILABLE", "CONN_RESET"}
    [] call = "close" -> {"CONN_RESET", "CONN_CLOSED", "SESSION_RELEASED"}
    [] OTHER -> {}

Init ==
  /\ sess = [p \in Hosts |-> ClosedSession]
  /\ sock = [p \in Hosts |-> [state |-> {}, call |-> "new"]]
  /\ net = [p \in Hosts |-> <<>>]
  /\ sent = [p \in Hosts |-> 0]
  /\ rcvd = [p \in Hosts |-> <<>>]
-----------------------------------------------------------------------------
(* The socket layer.                                                       *)

\* connect1, accept2b, send1, recv1 and close1: what follows a blocked call.
\* close1 releases the socket and its session.
Finish(k, call) ==
  IF call = "close" THEN [state |-> {}, call |-> "done"]
  ELSE IF "CONN_RESET" \in k.state THEN [state |-> {}, call |-> "none"]
  ELSE [k EXCEPT !.call = "none"]

block_till(k, call) ==
  IF k.state \cap Mask(call) = {} THEN [k EXCEPT !.call = call] ELSE Finish(k, call)

\* The next stage of the call in progress; accept has two (accept1b).
Resume(k) ==
  IF k.call = "accept1" /\ "CONN_RESET" \notin k.state THEN block_till(k, "accept2")
  ELSE Finish(k, k.call)

\* SocketMaster::control, SOCK_CTRL_SET_SIGNAL
SetSignal(k, sigs) ==
  LET x == [k EXCEPT !.state = @ \cup sigs]
  IN IF sigs \subseteq k.state THEN k
     ELSE IF sigs \cap Mask(k.call) = {} THEN x
     ELSE Resume([x EXCEPT !.state = @ \ {"DATA_AVAILABLE"}])

\* The queue of the interface drops what it has no room for.
enqueue(q, m) == IF Len(q) < NetCap THEN Append(q, m) ELSE q

Cleared(p, w) == [sock[p] EXCEPT !.state = @ \ w.cleared]

\* Host p has done w and its socket is now k; q are the queues w adds its segments to.
\* A session goes with the socket that is released.
Done(p, w, k, q) ==
  /\ sock' = [sock EXCEPT ![p] = k]
  /\ sess' = [sess EXCEPT ![p] = IF k.call = "done" THEN ClosedSession ELSE w.s]
  /\ net' = [q EXCEPT ![Peer(p)] = FoldLeft(enqueue, @, w.out)]
  /\ rcvd' = [rcvd EXCEPT ![p] = @ \o w.up]
-----------------------------------------------------------------------------
(* Calls of the application.                                               *)

connect ==
  /\ sock[client].call = "new"
  /\ Done(client, active_open(sess[client]), block_till(sock[client], "connect"), net)
  /\ UNCHANGED sent

accept ==
  /\ sock[server].call = "new"
  /\ Done(server, passive_open(sess[server]), block_till(sock[server], "accept1"), net)
  /\ UNCHANGED sent

\* The caller waits unless the call is complete.
Returns(p, w, call, complete) ==
  Done(p, w, IF complete THEN Cleared(p, w) ELSE block_till(Cleared(p, w), call), net)

Buffered(p, w) == w.s.snd.length_in_buffer - sess[p].snd.length_in_buffer
Sends(p, w, n) == Returns(p, w, "send", Buffered(p, w) = n)
send(p, n) ==
  /\ sock[p].call = "none" /\ sess[p].state \in Transfer
  /\ sent[p] + n <= Bytes(p)
  /\ Sends(p, appl_send(sess[p], [i \in 1 .. n |-> sent[p] + i]), n)
  /\ sent' = [sent EXCEPT ![p] = @ + n]

\* setRecvParameters, which follows if there is nothing to pass up, asserts that no
\* receive parameters are set.
RecvAsserted(p, n) == generate(sess[p].rcv, n).data = <<>> => sess[p].rcv.want = 0

\* A recv whose assertion fails ends the program and is therefore no step.
Receives(p, w, n) == Returns(p, w, "recv", Len(w.up) = n)
recv(p, n) ==
  /\ sock[p].call = "none" /\ sess[p].state \in Transfer
  /\ RecvAsserted(p, n)
  /\ Receives(p, appl_recv(sess[p], n), n)
  /\ UNCHANGED sent

close(p) ==
  /\ sock[p].call = "none"
  /\ IF sess[p].state \in Connected
     THEN Returns(p, appl_close(sess[p]), "close", FALSE)
     ELSE Done(p, Work(sess[p]), [state |-> {}, call |-> "done"], net)
  /\ UNCHANGED sent

Abort(p) ==
  /\ sock[p].call = "none" /\ sess[p].state \in Transfer
  /\ Done(p, abort(sess[p]), [state |-> {"CONN_RESET"}, call |-> "done"], net)
  /\ UNCHANGED sent
-----------------------------------------------------------------------------
(* Segments and timers.                                                    *)

Signalled(p, w, q) == Done(p, w, SetSignal(Cleared(p, w), w.woken), q)

\* TCPMaster::pop: a segment for which there is no session is ignored.
pop(p) ==
  /\ net[p] # <<>>
  /\ Signalled(p, IF sess[p].state = "CLOSED" THEN Work(sess[p])
                  ELSE receive(sess[p], Head(net[p])), [net EXCEPT ![p] = Tail(@)])
  /\ UNCHANGED sent

\* NetworkInterface::receivePacket drops a packet with the probability of the link.
Drop(p) ==
  /\ net[p] # <<>>
  /\ net' = [net EXCEPT ![p] = Tail(@)]
  /\ UNCHANGED <<sess, sock, sent, rcvd>>

\* slowTimeoutHandling, the retransmission timer
RetxTimeout(p) ==
  /\ sess[p].rxmit_timer /\ sess[p].state \in Resends
  /\ Signalled(p, retx_timeout(sess[p]), net)
  /\ UNCHANGED sent

\* slowTimeoutHandling, the timer of TIME_WAIT
TwoMslTimeout(p) ==
  /\ sess[p].state = "TIME_WAIT"
  /\ Signalled(p, wake_app(Work(sess[p]), {"CONN_CLOSED", "SESSION_RELEASED"}), net)
  /\ UNCHANGED sent

Next ==
  \/ connect \/ accept
  \/ \E p \in Hosts :
       \/ \E n \in SendSizes : send(p, n)
       \/ \E n \in RecvSizes : recv(p, n)
       \/ close(p) \/ Abort(p)
       \/ pop(p) \/ Drop(p) \/ RetxTimeout(p) \/ TwoMslTimeout(p)

Spec == Init /\ [][Next]_vars
-----------------------------------------------------------------------------
(* Properties.                                                             *)

\* The bytes of the peer's stream that p was passed or has in its receive buffer.
Held(p) ==
  Range(rcvd[p]) \cup UNION {Range(seg.data) : seg \in Range(sess[p].rcv.seg_buffer)}

\* The bytes of p's stream that were acknowledged.
Confirmed(p) == sent[p] - Len(sess[p].snd.buf)

\* Type invariant: every session, socket and queue has its type and stays within the
\* buffers and windows it was configured with.
TypeOK ==
  \A p \in Hosts :
    /\ sess[p].state \in States
    /\ sess[p].snd.used \in 0 .. SndWnd
    /\ sess[p].snd.length_in_buffer \in 0 .. SndBuf
    /\ sess[p].rcv.used \in 0 .. RcvWnd
    /\ sess[p].cwnd \in 1 .. MaxConWnd
    /\ sess[p].nrxmits \in 0 .. MaxRxmit
    /\ sock[p].state \subseteq Signals
    /\ sock[p].call \in Blocking \cup {"new", "none", "done"}
    /\ Len(net[p]) <= NetCap
    /\ sent[p] \in 0 .. Bytes(p)

\* Whatever the network drops and whenever the timers expire, recv passes the bytes
\* of the peer's stream up in order, each once, and none that was not written
\* (TCPRecvWindow::add_to_buffer_helper, generate).
StreamPrefix ==
  \A p \in Hosts :
    /\ Len(rcvd[p]) <= sent[Peer(p)]
    /\ \A i \in DOMAIN rcvd[p] : rcvd[p][i] = i

\* A byte that the sender has released from its buffer is held by the receiver or was
\* passed to its application: no acknowledgement covers a gap (getExpectedSeqno,
\* TCPSendWindow::release).
AckedIsHeld ==
  \A p \in Hosts :
    sess[p].state \in Connected /\ sess[Peer(p)].state \in Connected
      => 1 .. Confirmed(p) \subseteq Held(Peer(p))

\* A session that has taken the peer's FIN holds all the peer ever wrote, although a
\* FIN is accepted whatever its sequence number (process_FIN, appl_close).
EofIsEnd == \A p \in Hosts : sess[p].rcv.fin = 1 => Held(p) = 1 .. sent[Peer(p)]

\* A session that waits for its SYN or FIN to be acknowledged has the retransmission
\* timer running, so that the segment is sent again or the connection reset; and the
\* timer never runs in a state for which timeout_resend panics. FIN_WAIT_2 is left
\* open: the comment at its entry (tcp_state.cc:204) and its code disagree.
Handshake == {"SYN_SENT", "SYN_RECEIVED", "FIN_WAIT_1", "CLOSING", "LAST_ACK"}
TimerMatchesState ==
  \A p \in Hosts : /\ sess[p].state \in Handshake => sess[p].rxmit_timer
                   /\ sess[p].rxmit_timer => sess[p].state \in Resends \cup {"FIN_WAIT_2"}

\* While a timeout is recovered from, what is sent again lies between the first
\* unacknowledged and the last byte sent: resend_segments subtracts unsigned numbers
\* and TCPSendWindow::generate asserts that the bytes are in the buffer.
ResendBounds ==
  \A p \in Hosts : LET s == sess[p] IN
    s.timeout_loss /\ s.state \in Transfer /\ s.snd.start < s.recover_seq
      => s.rxmit_seq <= s.recover_seq /\ s.recover_seq <= firstUnused(s.snd)

\* An ESTABLISHED session with bytes on the fly has its timer running, except while it
\* recovers from a timeout and has sent again all up to recover_seq: there
\* resend_segments has cancelled the timer and found nothing to send. In CLOSE_WAIT
\* nothing of the kind holds: init_state_close_wait cancels the timer.
UntimedDataResent ==
  \A p \in Hosts : LET s == sess[p] IN
    s.state = "ESTABLISHED" /\ s.snd.used > 0 /\ ~s.rxmit_timer
      => s.timeout_loss /\ s.rxmit_seq = s.recover_seq

\* The application of an ESTABLISHED session that has no call in progress may call recv:
\* whichever way the recv before it ended, its receive parameters were reset, as
\* setRecvParameters asserts (tcp_rcvwnd.h:92). In CLOSE_WAIT this does not hold:
\* SOCK_EOF ends a recv without resetting them.
RecvMayWait ==
  \A p \in Hosts, n \in RecvSizes :
    sock[p].call = "none" /\ sess[p].state = "ESTABLISHED" => RecvAsserted(p, n)

\* "Here we assume that the packet either overlaps completely with a packet already
\* received, or is a totally new packet" (tcp_rcvwnd.cc:172): a segment that is
\* about to be put in the receive buffer lies inside a segment there or outside all.
Ends(seg) == seg.seqno + Len(seg.data)
NoPartialOverlap ==
  \A p \in Hosts :
    net[p] # <<>> /\ sess[p].state = "ESTABLISHED" =>
      LET m == Head(net[p]) IN
        m.data # <<>> /\ within(sess[p].rcv, m.seqno) =>
          \A seg \in Range(sess[p].rcv.seg_buffer) :
            \/ Ends(m) <= seg.seqno \/ Ends(seg) <= m.seqno
            \/ seg.seqno <= m.seqno /\ Ends(m) <= Ends(seg)
=============================================================================
