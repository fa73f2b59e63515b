----------------------------- MODULE TCPSession -----------------------------
(***************************************************************************)
(* A TCP session of s3fnet (os/tcp/tcp_session.cc, tcp_state.cc,           *)
(* tcp_sender.cc, tcp_receiver.cc, tcp_timer.cc) in its default version,   *)
(* Reno without delayed acknowledgements.                                  *)
(*                                                                         *)
(* Every method is an operator on a work record w: the session w.s, the    *)
(* segments pushed down so far (w.out), the local variable signal (w.sig), *)
(* the signals set (w.woken) and cleared (w.cleared) at the socket, and    *)
(* the bytes passed up to the application (w.up).                          *)
(*                                                                         *)
(* Times are abstracted: a timer runs or not, rtt_count is zero or not.    *)
(***************************************************************************)
EXTENDS TCPWindow

CONSTANTS
  MaxConWnd,   \* getMaxConWnd()
  InitThresh,  \* getInitThresh()
  MaxRxmit     \* getMaxRxmit()

ASSUME SessionAssumption ==
  /\ MaxConWnd \in Nat \ {0} /\ InitThresh \in Nat /\ MaxRxmit \in Nat

MAX_DUPACKS == 3

\* The states of tcp_session.h, those of a connection from ESTABLISHED on.
Connected == {"ESTABLISHED", "CLOSE_WAIT", "FIN_WAIT_1", "FIN_WAIT_2", "CLOSING",
              "LAST_ACK", "TIME_WAIT"}
States == {"CLOSED", "LISTEN", "SYN_SENT", "SYN_RECEIVED"} \cup Connected
Transfer == {"ESTABLISHED", "CLOSE_WAIT"}

\* init_state_closed; what it leaves alone is set again before it is used.
ClosedSession ==
  [state |-> "CLOSED", snd |-> NewSendWindow, rcv |-> NewRecvWindow,
   cwnd |-> MSS, ssthresh |-> InitThresh, rcvwnd_size |-> RcvWnd,
   ndupacks |-> 0, nrxmits |-> 0, rtt |-> FALSE, measured_seq |-> 0,
   rxmit_seq |-> 0, recover_seq |-> 0, timeout_loss |-> FALSE,
   rxmit_timer |-> FALSE, close_issued |-> FALSE, simultaneous_closing |-> FALSE]

Work(s) == [s |-> s, out |-> <<>>, sig |-> {}, woken |-> {}, cleared |-> {}, up |-> <<>>]

Enter(w, state) == [w EXCEPT !.s.state = state]
Signal(w, sigs) == [w EXCEPT !.sig = @ \cup sigs]
clear_app_state(w, sigs) == [w EXCEPT !.cleared = @ \cup sigs]
wake_app(w, sigs) == [w EXCEPT !.woken = @ \cup sigs]

\* TCPSession::reset
reset(w) == wake_app([w EXCEPT !.s = ClosedSession], {"CONN_RESET"})
-----------------------------------------------------------------------------
(* Sending.                                                                *)

\* The window advertised never shrinks below the whole receive window.
calc_advertised_wnd(s) ==
  IF s.state \in Connected THEN RcvWnd ELSE RcvWnd - s.rcv.used

\* send_data with need_calc_rtt = rtt and need_set_rextimeout = timer.
send_data(w, seqno, n, flags, ackno, rtt, timer) ==
  [w EXCEPT
     !.out = Append(@, [flags |-> IF "SYN" \in flags THEN flags ELSE flags \cup {"ACK"},
                        seqno |-> seqno, ackno |-> ackno,
                        wsize |-> calc_advertised_wnd(w.s),
                        data |-> payload(w.s.snd, seqno, n)]),
     !.s.measured_seq = IF rtt /\ ~w.s.rtt THEN seqno ELSE @,
     !.s.rtt = @ \/ rtt,
     !.s.rxmit_timer = @ \/ timer]

\* A control segment at the first unused sequence number.
SendControl(w, flags, rtt, timer) ==
  send_data(w, firstUnused(w.s.snd), 0, flags, expect(w.s.rcv), rtt, timer)

SendReset(w, seqno) == send_data(w, seqno, 0, {"RST"}, expect(w.s.rcv), FALSE, FALSE)

\* n bytes cut into full segments and a rest.
Cut(n) == [i \in 1 .. (n + MSS - 1) \div MSS |-> mymin(MSS, n - (i - 1) * MSS)]

SendNew(w, n) ==
  send_data([w EXCEPT !.s.snd.used = @ + n], firstUnused(w.s.snd), n, {},
            expect(w.s.rcv), TRUE, TRUE)

\* How much of a number of bytes that the windows allow is cut into segments: a
\* segment that is not full goes only with the last byte in the buffer.
Segmented(s, room) == IF room = canSend(s.snd) THEN room ELSE room - (room % MSS)

\* segment_and_send from firstUnused
segment_and_send(w, length) ==
  LET wnd  == mymin(w.s.rcvwnd_size, w.s.cwnd)
      room == mymin(mymin(wnd, SndWnd) - w.s.snd.used, length)
  IN IF length > 0 /\ w.s.snd.used < wnd
     THEN FoldLeft(SendNew, w, Cut(Segmented(w.s, room))) ELSE w

\* One iteration of resend_segments at rxmit_seq.
Resend(w, n) ==
  [send_data(w, w.s.rxmit_seq, n, {}, expect(w.s.rcv), FALSE, TRUE)
     EXCEPT !.s.rxmit_seq = @ + n]

\* The segments the congestion window has room for from the offset on; the room is
\* unsigned and wraps behind the window.
ResendRoom(s, offset, nsegments) ==
  IF offset > s.cwnd THEN nsegments ELSE mymin(nsegments, (s.cwnd - offset) \div MSS)

\* Faulty variant: recover_seq does not end what is sent again.
resend_segments_unbounded(w, seqno, nsegments) ==
  FoldLeft(Resend, [w EXCEPT !.s.rxmit_timer = FALSE, !.s.rxmit_seq = seqno],
           Cut(ResendRoom(w.s, seqno - w.s.snd.start, nsegments) * MSS))

\* resend_segments: at most nsegments from seqno on, up to recover_seq.
resend_segments(w, seqno, nsegments) ==
  FoldLeft(Resend, [w EXCEPT !.s.rxmit_timer = FALSE, !.s.rxmit_seq = seqno],
           Cut(mymin(ResendRoom(w.s, seqno - w.s.snd.start, nsegments) * MSS,
                     w.s.recover_seq - seqno)))

acknowledge(w) ==
  send_data(w, firstUnused(w.s.snd), 0, {"ACK"}, getExpectedSeqno(w.s.rcv), FALSE, FALSE)
-----------------------------------------------------------------------------
(* States (tcp_state.cc).                                                  *)

init_state_syn_sent(w) ==
  [SendControl([Enter(w, "SYN_SENT") EXCEPT !.s.nrxmits = 0], {"SYN"}, TRUE, TRUE)
     EXCEPT !.s.snd = setSYN(@, TRUE)]

init_state_syn_received(w) ==
  IF w.s.state = "LISTEN"
  THEN SendControl([Enter(w, "SYN_RECEIVED") EXCEPT !.s.nrxmits = 0,
                                                    !.s.snd = setSYN(@, TRUE)],
                   {"SYN", "ACK"}, TRUE, TRUE)
  ELSE send_data([Enter(w, "SYN_RECEIVED") EXCEPT !.s.nrxmits = 0], next(w.s.snd), 0,
                 {"ACK"}, expect(w.s.rcv), FALSE, FALSE)

init_state_established(w) ==
  Signal([Enter(w, "ESTABLISHED") EXCEPT
            !.s.close_issued = FALSE, !.s.simultaneous_closing = FALSE,
            !.s.ssthresh = InitThresh, !.s.recover_seq = w.s.snd.start], {"OK_TO_SEND"})

\* The signals of the end of the peer's stream.
SignalEOF(w) ==
  IF w.s.rcv.used = 0 THEN Signal(clear_app_state(w, {"DATA_AVAILABLE"}), {"SOCK_EOF"})
  ELSE Signal(w, {"DATA_AVAILABLE", "SOCK_EOF"})

init_state_close_wait(w) == SignalEOF([Enter(w, "CLOSE_WAIT") EXCEPT !.s.rxmit_timer = FALSE])

init_state_closing(w) ==
  IF w.s.rcv.used = 0
  THEN Signal(clear_app_state(Enter(w, "CLOSING"), {"DATA_AVAILABLE"}), {"SOCK_EOF"})
  ELSE Enter(w, "CLOSING")

\* Faulty variant: the FIN is sent without setting the timer.
SendFIN_untimed(w) == [SendControl(w, {"FIN"}, TRUE, FALSE) EXCEPT !.s.snd = setFIN(@, TRUE)]

\* A FIN at firstUnused.
SendFIN(w) == [SendControl(w, {"FIN"}, TRUE, TRUE) EXCEPT !.s.snd = setFIN(@, TRUE)]

init_state_fin_wait_1(w) ==
  IF w.s.simultaneous_closing
  THEN init_state_closing(SendFIN([Enter(w, "FIN_WAIT_1") EXCEPT !.s.nrxmits = 0]))
  ELSE SendFIN([Enter(w, "FIN_WAIT_1") EXCEPT !.s.nrxmits = 0])

init_state_fin_wait_2(w) == [Enter(w, "FIN_WAIT_2") EXCEPT !.s.rxmit_timer = FALSE]
init_state_time_wait(w) == Enter(w, "TIME_WAIT")
-----------------------------------------------------------------------------
(* Acknowledgements (tcp_receiver.cc).                                     *)

check_cwnd(w) ==
  [w EXCEPT !.s.cwnd = mymin(@ + (IF @ < w.s.ssthresh THEN MSS ELSE (MSS * MSS) \div @),
                             MaxConWnd)]

calc_threshold(w) ==
  [w EXCEPT !.s.ssthresh = mymax(mymin(w.s.cwnd, w.s.rcvwnd_size) \div 2, 2 * MSS)]

\* New data as far as the send window goes.
SendOnDupAck(w) ==
  IF SndWnd - w.s.snd.used >= MSS
  THEN segment_and_send(w, mymin(SndWnd - w.s.snd.used, canSend(w.s.snd))) ELSE w

\* The third duplicate acknowledgement.
FastRetransmit(w) ==
  resend_segments([w EXCEPT !.s.recover_seq = firstUnused(w.s.snd), !.s.rtt = FALSE,
                            !.s.cwnd = mymin(w.s.ssthresh + 3 * MSS, MaxConWnd)],
                  w.s.snd.start, 1)

DupAck(w) ==
  IF w.s.ndupacks < MAX_DUPACKS THEN w
  ELSE SendOnDupAck(IF w.s.ndupacks = MAX_DUPACKS THEN FastRetransmit(calc_threshold(w))
                    ELSE [w EXCEPT !.s.cwnd = mymin(@ + MSS, MaxConWnd)])

process_dup_acks(w) == DupAck([w EXCEPT !.s.ndupacks = @ + 1])

\* The part of process_new_acks that every state goes through.
Released(w, ackno) ==
  IF w.s.state \in Transfer THEN [w EXCEPT !.s.snd = release(@, ackno - @.start)] ELSE w
Measured(s, ackno) == s.rtt /\ ackno > s.measured_seq
\* Faulty variant: an acknowledgement cancels the timer.
Timed_cancelled(w, ackno) ==
  [w EXCEPT !.s.rxmit_timer = FALSE,
            !.s.nrxmits = IF Measured(w.s, ackno) THEN 0 ELSE @,
            !.s.rtt = @ /\ ~Measured(w.s, ackno)]
Timed(w, ackno) ==
  [w EXCEPT !.s.rxmit_timer = w.s.snd.used > 0,
            !.s.nrxmits = IF Measured(w.s, ackno) THEN 0 ELSE @,
            !.s.rtt = @ /\ ~Measured(w.s, ackno)]

\* The first new acknowledgement ends fast recovery.
Deflated(w) ==
  IF w.s.ndupacks >= MAX_DUPACKS THEN [w EXCEPT !.s.cwnd = mymin(w.s.ssthresh, MaxConWnd)]
  ELSE w

\* Below recover_seq the segments lost with a timeout are sent again.
Recovered(w, ackno) ==
  IF ackno >= w.s.recover_seq THEN [w EXCEPT !.s.timeout_loss = FALSE]
  ELSE IF w.s.timeout_loss THEN resend_segments(w, mymax(ackno, w.s.rxmit_seq), SndWnd)
  ELSE w

process_new_acks(w, ackno) ==
  IF w.s.state \in Transfer
  THEN Recovered(check_cwnd(Deflated(Timed(Released(w, ackno), ackno))), ackno)
  ELSE Timed(w, ackno)

\* process_acks returns true for an acknowledgement outside the send window.
Outside(s, ackno) == ackno < s.snd.start \/ ackno > next(s.snd)

process_acks(w, m) ==
  IF Outside(w.s, m.ackno) THEN w
  ELSE IF m.ackno = w.s.snd.start /\ m.wsize = w.s.rcvwnd_size /\ w.s.snd.used > 0
  THEN process_dup_acks(w)
  ELSE IF m.ackno > w.s.snd.start       \* update_remote_window_size sets its own size
  THEN [process_new_acks([w EXCEPT !.s.rcvwnd_size = RcvWnd], m.ackno)
          EXCEPT !.s.ndupacks = 0]
  ELSE [w EXCEPT !.s.rcvwnd_size = RcvWnd, !.s.ndupacks = 0]
-----------------------------------------------------------------------------
(* Receiving.                                                              *)

InitRecv(w, m) ==
  [w EXCEPT !.s.rcv = setSYN([@ EXCEPT !.start = m.seqno], TRUE), !.s.rcvwnd_size = m.wsize]

process_SYN(w, m) ==
  CASE w.s.state = "SYN_SENT" -> [InitRecv(w, m) EXCEPT !.s.nrxmits = 0]
    [] w.s.state = "LISTEN" ->
         Signal(init_state_syn_received([InitRecv(w, m) EXCEPT !.s.snd.start = ISS]),
                {"FIRST_CONNECTION"})
    [] OTHER -> w

FinSeen(w) == [w EXCEPT !.s.rcv = setFIN(@, TRUE)]

process_FIN(w) ==
  CASE w.s.state = "ESTABLISHED" ->
         init_state_close_wait([FinSeen(w) EXCEPT !.s.simultaneous_closing = @ \/ w.s.close_issued])
    [] w.s.state = "CLOSE_WAIT" -> SignalEOF(w)
    [] w.s.state = "FIN_WAIT_1" -> init_state_closing(FinSeen(w))
    [] w.s.state = "FIN_WAIT_2" -> init_state_time_wait(FinSeen(w))
    [] OTHER -> w

process_new_data(w, m) ==
  IF within(w.s.rcv, m.seqno)
  THEN [w EXCEPT !.s.rcv = addToBuffer(@, [seqno |-> m.seqno, data |-> m.data])] ELSE w

\* Faulty variant: resetRecvParameters is not called.
PassUp_kept(w, g) ==
  IF g.data = <<>> THEN w
  ELSE Signal([w EXCEPT !.s.rcv = g.wnd, !.up = @ \o g.data], {"DATA_AVAILABLE"})

\* A recv that waits is filled; g is what generate returns.
PassUp(w, g) ==
  IF g.data = <<>> THEN w
  ELSE Signal([w EXCEPT !.s.rcv = [g.wnd EXCEPT !.want = 0], !.up = @ \o g.data],
              {"DATA_AVAILABLE"})
FillRecv(w) == IF available(w.s.rcv) THEN PassUp(w, generate(w.s.rcv, w.s.rcv.want)) ELSE w

Illegal(w, m) == reset(SendReset(w, m.ackno))

\* What process_ACK makes of an acknowledgement in the states that process it.
Acknowledged(w, m) ==
  CASE w.s.state \in Transfer -> w
    [] w.s.state = "SYN_SENT" /\ "SYN" \notin m.flags -> init_state_syn_received(w)
    [] OTHER -> init_state_established([w EXCEPT !.s.snd = setSYN(@, FALSE)])

FinAcked(w) == [w EXCEPT !.s.snd = setFIN(@, FALSE)]

\* process_ACK without its return value; a segment that acknowledges the FIN of a
\* session in FIN_WAIT_1 carries none itself, process_FIN has seen to that.
process_ACK(w, m) ==
  LET mine == m.ackno = next(w.s.snd)
  IN IF w.s.state \in {"SYN_SENT", "SYN_RECEIVED"} /\ ~mine THEN Illegal(w, m)
     ELSE CASE w.s.state = "LISTEN" -> SendReset(w, m.ackno)
       [] w.s.state \in Transfer \cup {"SYN_SENT", "SYN_RECEIVED"} ->
            Acknowledged(process_acks(w, m), m)
       [] w.s.state = "LAST_ACK" /\ mine ->
            Signal([w EXCEPT !.s = ClosedSession], {"CONN_CLOSED", "SESSION_RELEASED"})
       [] w.s.state = "FIN_WAIT_1" /\ mine ->
            init_state_fin_wait_2([FinAcked(w) EXCEPT !.s.nrxmits = 0])
       [] w.s.state = "CLOSING" /\ mine ->
            init_state_time_wait([FinAcked(w) EXCEPT !.s.rxmit_timer = FALSE])
       [] OTHER -> w

\* The return value of process_ACK: answer at once.
AckAnswered(s, m) ==
  \/ s.state \in Transfer /\ Outside(s, m.ackno)
  \/ s.state = "LAST_ACK" /\ m.ackno # next(s.snd)

\* After an acknowledgement: new data, and the close that waited for the old.
OkToSend(w) ==
  IF w.s.snd.length_in_buffer = Len(w.s.snd.buf) THEN Signal(w, {"OK_TO_SEND"}) ELSE w
SendMore(w) ==
  IF w.s.state \in Transfer /\ canSend(w.s.snd) > 0
  THEN OkToSend(segment_and_send(w, canSend(w.s.snd))) ELSE w
\* Faulty variant: the FIN does not wait for the bytes on the fly.
CloseIfIssued_early(w) ==
  IF w.s.close_issued /\ w.s.state = "ESTABLISHED" /\ canSend(w.s.snd) = 0
  THEN init_state_fin_wait_1(w) ELSE w
CloseIfIssued(w) ==
  IF w.s.close_issued /\ w.s.state = "ESTABLISHED" /\ emptied(w.s.snd)
  THEN init_state_fin_wait_1(w) ELSE w

\* The parts of receive.
ReceiveSYN(w, m) == IF "SYN" \in m.flags THEN process_SYN(w, m) ELSE w
ReceiveFIN(w, m) == IF "FIN" \in m.flags THEN process_FIN(w) ELSE w
ReceiveData(w, m) ==
  IF m.data # <<>> /\ w.s.state \in {"ESTABLISHED", "FIN_WAIT_1", "FIN_WAIT_2"}
  THEN FillRecv(process_new_data(w, m)) ELSE w
WakeSignalled(w) == wake_app(w, w.sig)
\* A session that is closed by now returns before its signals are passed on.
Respond(w, answer) ==
  IF w.s.state = "CLOSED" THEN w
  ELSE WakeSignalled(CloseIfIssued(SendMore(IF answer THEN acknowledge(w) ELSE w)))
ReceiveAck(w, m, must_ack) ==
  IF "ACK" \in m.flags THEN Respond(process_ACK(w, m), must_ack \/ AckAnswered(w.s, m))
  ELSE Respond(w, must_ack)

\* TCPSession::receive
receive(s, m) ==
  IF "RST" \in m.flags
  THEN IF s.state = "LISTEN" THEN Work(s) ELSE reset(Work(s))
  ELSE ReceiveAck(ReceiveData(ReceiveFIN(ReceiveSYN(Work(s), m), m), m), m,
                  \/ "SYN" \in m.flags /\ s.state = "SYN_SENT"
                  \/ "FIN" \in m.flags \/ m.data # <<>>)
-----------------------------------------------------------------------------
(* Calls of the socket layer and timers.                                   *)

active_open(s) ==
  init_state_syn_sent(Work([s EXCEPT !.snd = [NewSendWindow EXCEPT !.start = ISS],
                                     !.rcv = NewRecvWindow]))

passive_open(s) ==
  Work([s EXCEPT !.snd = NewSendWindow, !.rcv = NewRecvWindow, !.state = "LISTEN"])

SendBuffered(w) == IF canSend(w.s.snd) > 0 THEN segment_and_send(w, canSend(w.s.snd)) ELSE w
appl_send(s, bytes) ==
  clear_app_state(SendBuffered(Work([s EXCEPT !.snd = requestToSend(@, bytes)])), {"OK_TO_SEND"})

\* g is what generate returns.
Received(s, g, length) ==
  IF g.data # <<>> THEN [Work([s EXCEPT !.rcv = g.wnd]) EXCEPT !.up = g.data]
  ELSE clear_app_state(Work([s EXCEPT !.rcv.want = length]), {"DATA_AVAILABLE"})
appl_recv(s, length) == Received(s, generate(s.rcv, length), length)

\* appl_close from ESTABLISHED or CLOSE_WAIT.
appl_close(s) ==
  IF ~emptied(s.snd)
  THEN clear_app_state(Work([s EXCEPT !.close_issued = TRUE]), {"OK_TO_CLOSE"})
  ELSE IF s.state = "ESTABLISHED" THEN init_state_fin_wait_1(Work(s))
  ELSE clear_app_state(Enter(SendFIN(Work(s)), "LAST_ACK"), {"OK_TO_SEND", "OK_TO_CLOSE"})

\* TCPSession::abort of a session with buffers.
abort(s) ==
  reset(send_data(Work(s), next(s.snd), 0, {"RST"}, expect(s.rcv), FALSE, FALSE))

\* timeout_resend; in any other state it is a panic.
Resends == {"SYN_SENT", "SYN_RECEIVED", "ESTABLISHED", "CLOSE_WAIT", "CLOSING",
            "FIN_WAIT_1", "LAST_ACK"}
timeout_resend(w) ==
  CASE w.s.state = "SYN_SENT" -> SendControl(w, {"SYN"}, FALSE, TRUE)
    [] w.s.state = "SYN_RECEIVED" -> SendControl(w, {"SYN", "ACK"}, FALSE, TRUE)
    [] w.s.state \in Transfer -> resend_segments(w, w.s.snd.start, 1)
    [] w.s.state \in {"CLOSING", "FIN_WAIT_1", "LAST_ACK"} ->
         SendControl(w, {"FIN"}, FALSE, TRUE)

\* slow_timeout_handling_helper for the retransmission timer.
SlowStart(w) ==
  [calc_threshold(w) EXCEPT !.s.cwnd = MSS, !.s.ndupacks = 0, !.s.rxmit_timer = FALSE]
TimedOut(w) ==
  IF w.s.nrxmits <= MaxRxmit THEN timeout_resend(SlowStart(w))
  ELSE reset(SendReset(w, firstUnused(w.s.snd)))
retx_timeout(s) ==
  TimedOut(Work([s EXCEPT !.rtt = FALSE, !.nrxmits = @ + 1, !.timeout_loss = TRUE,
                          !.recover_seq = firstUnused(s.snd)]))
=============================================================================
