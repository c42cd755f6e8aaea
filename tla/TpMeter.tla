------------------------------- MODULE TpMeter -------------------------------
(***************************************************************************)
(* The throughput meter: a node sends as much data as the congestion       *)
(* window allows to another node, which acknowledges what it has received  *)
(* without a gap, and reports to the user how much was acknowledged.  The  *)
(* sending thread, the retransmission timer, the acknowledgements, the     *)
(* end of the test length, the user and the deletion of the mesh interface *)
(* act on one session concurrently.                                        *)
(*                                                                         *)
(* Sequence numbers and windows count bytes in a space of SEQS values      *)
(* (2^32 in the code).  The retransmission time-out is the number of times *)
(* it was doubled since it was last estimated.  The sender's node knows    *)
(* one destination; allocations of buffers succeed.                        *)
(***************************************************************************)
EXTENDS Integers, Sequences, FiniteSets, FiniteSetsExt, SequencesExt

CONSTANTS
  Session,       \* session identifiers, 1, 2, ...
  SEQS,          \* number of sequence numbers, a power of 2
  FIRST_SEQ, PLEN, AWND, MAX_RTO, TP_MAX_NUM,
  TpScenarios    \* bounds and faults: tests, segments of a test, losses, overtakings, early time-outs, and
                 \* whether the test length ends, the user stops the test, the mesh
                 \* interface is deleted or the receiver leaves

TpBounds == {"tests", "segments", "failures", "losses", "overtakes", "early", "idle", "finish", "stops",
             "deletions", "leaves"}

ASSUME TpMeterAssumption ==
  /\ Session \subseteq Nat \ {0}
  /\ SEQS \in Nat \ {0} /\ FIRST_SEQ \in 0..(SEQS - 1)
  /\ PLEN \in Nat \ {0} /\ AWND \in Nat /\ AWND >= 3 * PLEN
  /\ TpScenarios \subseteq [TpBounds -> Nat]
  /\ \A b \in TpScenarios : 1..b.tests \subseteq Session /\ b.segments * PLEN < SEQS \div 2

VARIABLES
  tp,            \* tp_vars of the sender's session, and where its thread is
  rx,            \* tp_vars of the receiver's sessions
  data, acks,    \* packets on their way
  tp_mesh,       \* mesh_state of the two nodes
  notified,      \* the last result the user was told
  tp_left        \* what is left of the scenario's bounds

tpVars == <<tp, rx, data, acks, tp_mesh, notified, tp_left>>

batadv_seq_before(x, y) == (x - y) % SEQS > SEQS \div 2
Add(seq, n) == (seq + n) % SEQS
\* How far a sequence number is from the first one.
Offset(seq) == (seq - FIRST_SEQ) % SEQS
Charge(what) == tp_left[what] > 0 /\ tp_left' = [tp_left EXCEPT ![what] = @ - 1]

NoTest ==
  [session |-> 0, pc |-> "gone", listed |-> FALSE, sending |-> 0, reason |-> "none",
   last_sent |-> FIRST_SEQ, last_acked |-> FIRST_SEQ, recover |-> FIRST_SEQ, fast_recovery |-> FALSE,
   cwnd |-> 3 * PLEN, dec_cwnd |-> 0, ss_threshold |-> AWND, dup_acks |-> 0, rto |-> 0,
   tot_sent |-> 0, timer |-> FALSE, finish_work |-> FALSE]
NoReceiver == [open |-> FALSE, last_recv |-> FIRST_SEQ, unacked_list |-> <<>>]

TpInit ==
  /\ tp_left \in TpScenarios
  /\ tp = NoTest /\ rx = [s \in Session |-> NoReceiver]
  /\ data = <<>> /\ acks = <<>>
  /\ tp_mesh = [sender |-> "ACTIVE", receiver |-> "ACTIVE"]
  /\ notified = [reason |-> "none", bytes |-> 0]

-----------------------------------------------------------------------------
(* The sender. *)

batadv_tp_cwnd(base, increment, min) == Max({Min({base + increment, AWND}), min})

\* Slow start adds a segment for each acknowledgement, congestion avoidance one for a window.
batadv_tp_update_cwnd(t) ==
  LET dec == t.dec_cwnd + Max({8, (PLEN * PLEN * 64) \div (t.cwnd * 8)})
  IN IF t.cwnd > t.ss_threshold /\ dec < PLEN * 8 THEN [t EXCEPT !.dec_cwnd = dec]
     ELSE [t EXCEPT !.dec_cwnd = 0, !.cwnd = batadv_tp_cwnd(@, PLEN, PLEN)]

batadv_tp_reset_sender_timer(t) == IF t.sending = 0 THEN t ELSE [t EXCEPT !.timer = TRUE]

batadv_tp_batctl_notify(reason, total_sent) ==
  notified' = IF reason \in {"COMPLETE", "CANCEL"} THEN [reason |-> "COMPLETE", bytes |-> total_sent]
              ELSE [reason |-> reason, bytes |-> 0]

\* The user starts a test; there is one at a time towards a node.
batadv_tp_start ==
  /\ Charge("tests")
  /\ IF tp_mesh.sender # "ACTIVE" THEN batadv_tp_batctl_notify("DST_UNREACHABLE", 0) /\ UNCHANGED tp
     ELSE IF tp.listed THEN batadv_tp_batctl_notify("ALREADY_ONGOING", 0) /\ UNCHANGED tp
     ELSE /\ tp' = [NoTest EXCEPT !.session = tp.session + 1, !.pc = "start", !.listed = TRUE,
                                  !.sending = 1]
          /\ UNCHANGED notified
  /\ UNCHANGED <<rx, data, acks, tp_mesh>>

\* The end of a session: the user is told, and nothing is left that would touch it.
batadv_tp_sender_cleanup(t) ==
  [t EXCEPT !.finish_work = FALSE, !.listed = FALSE, !.timer = FALSE, !.pc = "gone"]

\* No thread could be created.
batadv_tp_start_kthread ==
  /\ tp.pc = "start"
  /\ Charge("failures")
  /\ batadv_tp_batctl_notify("MEMORY_ERROR", 0)
  /\ tp' = batadv_tp_sender_cleanup(tp)
  /\ UNCHANGED <<rx, data, acks, tp_mesh>>

batadv_tp_avail(t) == (t.last_acked + t.cwnd - t.last_sent) % SEQS >= PLEN

\* The thread arms the timer and the end of the test.
SendBegins ==
  /\ tp.pc = "start"
  /\ tp' = [batadv_tp_reset_sender_timer(tp) EXCEPT !.pc = "loop", !.finish_work = TRUE]
  /\ UNCHANGED <<rx, data, acks, tp_mesh, notified, tp_left>>

\* The destination is unknown, or there is no primary interface.
SendFails ==
  /\ tp.pc = "start"
  /\ Charge("failures")
  /\ batadv_tp_batctl_notify("DST_UNREACHABLE", 0)
  /\ tp' = batadv_tp_sender_cleanup(tp)
  /\ UNCHANGED <<rx, data, acks, tp_mesh>>

\* The thread sends a segment whenever the window allows it; a segment that the device
\* does not take is tried again.
MaySend == /\ tp.pc = "loop" /\ tp.sending # 0 /\ batadv_tp_avail(tp)
           /\ Offset(tp.last_sent) < tp_left.segments * PLEN
batadv_tp_send ==
  /\ MaySend
  /\ data' = Append(data, [session |-> tp.session, seqno |-> tp.last_sent])
  /\ tp' = [tp EXCEPT !.last_sent = Add(@, PLEN)]
  /\ UNCHANGED <<rx, acks, tp_mesh, notified, tp_left>>

batadv_tp_sender_end ==
  /\ tp.pc = "loop" /\ tp.sending = 0
  /\ batadv_tp_batctl_notify(tp.reason, tp.tot_sent)
  /\ tp' = batadv_tp_sender_cleanup(tp)
  /\ UNCHANGED <<rx, data, acks, tp_mesh, tp_left>>

\* The first one who stops a test gives the reason.
batadv_tp_sender_shutdown(t, reason) ==
  [t EXCEPT !.sending = @ - 1, !.reason = IF t.sending = 1 THEN reason ELSE @]

batadv_tp_sender_finish ==
  /\ tp.finish_work
  /\ Charge("finish")
  /\ tp' = [batadv_tp_sender_shutdown(tp, "COMPLETE") EXCEPT !.finish_work = FALSE]
  /\ UNCHANGED <<rx, data, acks, tp_mesh, notified>>

batadv_tp_stop ==
  /\ tp.listed
  /\ Charge("stops")
  /\ tp' = batadv_tp_sender_shutdown(tp, "CANCEL")
  /\ UNCHANGED <<rx, data, acks, tp_mesh, notified>>

\* Mutant: the timer is not armed again.
RetransmissionTimeout_Once(t) ==
  IF t.sending = 0 THEN [t EXCEPT !.timer = FALSE]
  ELSE IF t.rto >= MAX_RTO
  THEN [batadv_tp_sender_shutdown(t, "DST_UNREACHABLE") EXCEPT !.timer = FALSE]
  ELSE [t EXCEPT !.rto = @ + 1, !.ss_threshold = Max({t.cwnd \div 2, 2 * PLEN}),
                 !.cwnd = 3 * PLEN, !.last_sent = t.last_acked, !.timer = FALSE]

\* A time-out takes the sender back to what was acknowledged, with a small window; after
\* too many of them the test is over.
RetransmissionTimeout(t) ==
  IF t.sending = 0 THEN [t EXCEPT !.timer = FALSE]
  ELSE IF t.rto >= MAX_RTO
  THEN [batadv_tp_sender_shutdown(t, "DST_UNREACHABLE") EXCEPT !.timer = FALSE]
  ELSE batadv_tp_reset_sender_timer(
         [t EXCEPT !.rto = @ + 1, !.ss_threshold = Max({t.cwnd \div 2, 2 * PLEN}),
                   !.cwnd = 3 * PLEN, !.last_sent = t.last_acked])

\* When all that may be sent is acknowledged the bound on segments ends the model, not the test.
batadv_tp_sender_timeout ==
  /\ tp.timer /\ Offset(tp.last_acked) < tp_left.segments * PLEN
  /\ data = <<>> /\ acks = <<>> /\ ~MaySend
  /\ tp' = RetransmissionTimeout(tp)
  /\ UNCHANGED <<rx, data, acks, tp_mesh, notified, tp_left>>

\* The time-out is too short: packets are on their way.
EarlyTimeout ==
  /\ tp.timer /\ (data # <<>> \/ acks # <<>>)
  /\ Charge("early")
  /\ tp' = RetransmissionTimeout(tp)
  /\ UNCHANGED <<rx, data, acks, tp_mesh, notified>>

\* The third duplicate acknowledgement: fast retransmit and fast recovery.
FastRetransmit(t) == t.dup_acks = 2 /\ t.last_acked < t.recover
DuplicateAck(t) ==
  LET u == [t EXCEPT !.dup_acks = @ + 1]
      half == t.cwnd \div 2
  IN IF ~FastRetransmit(t) THEN u
     ELSE [u EXCEPT !.fast_recovery = TRUE, !.recover = t.last_sent, !.ss_threshold = half,
                    !.cwnd = batadv_tp_cwnd(half, 3 * PLEN, PLEN), !.dec_cwnd = 0,
                    !.last_sent = t.last_acked]

\* An acknowledgement of new data.
NewAck(t, ack) ==
  LET acked == (ack - t.last_acked) % SEQS
      u == [t EXCEPT !.tot_sent = @ + acked, !.dup_acks = 0, !.last_acked = ack]
  IN IF ~t.fast_recovery THEN IF acked >= PLEN THEN batadv_tp_update_cwnd(u) ELSE u
     ELSE IF batadv_seq_before(ack, t.recover)
     THEN [u EXCEPT !.cwnd = batadv_tp_cwnd(@, PLEN, PLEN)]
     ELSE [u EXCEPT !.fast_recovery = FALSE, !.cwnd = batadv_tp_cwnd(t.ss_threshold, 0, PLEN)]

\* Mutant: an old acknowledgement counts as a new one.
AckCounts_Old(t, m) == t.listed /\ t.session = m.session /\ t.sending # 0

\* Acknowledgements of other sessions, of ended ones and old ones are dropped.
AckCounts(t, m) ==
  t.listed /\ t.session = m.session /\ t.sending # 0 /\ ~batadv_seq_before(m.seqno, t.last_acked)

\* A round trip of less than a millisecond says nothing of the time-out.  What is missing is
\* sent again, unless the bound on segments says that nothing is.
batadv_tp_recv_ack(m) ==
  IF ~AckCounts(tp, m) THEN UNCHANGED <<tp, data>>
  ELSE \E sampled \in BOOLEAN :
    LET t == batadv_tp_reset_sender_timer(IF sampled THEN [tp EXCEPT !.rto = 0] ELSE tp)
        u == IF m.seqno = t.last_acked THEN DuplicateAck(t) ELSE NewAck(t, m.seqno)
        again == /\ IF m.seqno = t.last_acked THEN FastRetransmit(t) ELSE u.fast_recovery
                 /\ Offset(m.seqno) < tp_left.segments * PLEN
    IN /\ tp' = u
       /\ data' = IF again THEN Append(data, [session |-> m.session, seqno |-> m.seqno]) ELSE data

-----------------------------------------------------------------------------
(* The receiver. *)

\* Where a segment that arrives before its turn is kept.  It goes before the last one of
\* the list that it follows (list_add_tail()), not after it.
batadv_tp_handle_out_of_order(list, seqno) ==
  LET notAfter == {i \in DOMAIN list : ~batadv_seq_before(seqno, list[i])}
  IN IF notAfter = {} THEN <<seqno>> \o list
     ELSE IF list[Max(notAfter)] = seqno THEN list
     ELSE InsertAt(list, Max(notAfter), seqno)

\* Segments at the front of the list that leave no gap are taken off it.
TakenOff(r, seqno) ==
  IF r.unacked_list # <<>> \/ batadv_seq_before(r.last_recv, seqno)
  THEN [r EXCEPT !.unacked_list = Append(@, seqno)]
  ELSE IF batadv_seq_before(r.last_recv, Add(seqno, PLEN))
  THEN [r EXCEPT !.last_recv = Add(seqno, PLEN)] ELSE r
batadv_tp_ack_unordered(r) == FoldLeft(TakenOff, [r EXCEPT !.unacked_list = <<>>], r.unacked_list)

\* The first segment opens a session, if there are not too many.
batadv_tp_init_recv(s) ==
  IF rx[s].open \/ Cardinality({x \in Session : rx[x].open}) >= TP_MAX_NUM THEN rx[s]
  ELSE [NoReceiver EXCEPT !.open = TRUE]

Received(r, seqno) ==
  IF batadv_seq_before(seqno, r.last_recv) THEN r
  ELSE IF seqno # r.last_recv
  THEN [r EXCEPT !.unacked_list = batadv_tp_handle_out_of_order(@, seqno)]
  ELSE batadv_tp_ack_unordered([r EXCEPT !.last_recv = Add(@, PLEN)])

\* The acknowledgement carries the time stamp of the segment, which of stands for.
batadv_tp_recv_msg(m) ==
  LET r == IF m.seqno = FIRST_SEQ THEN batadv_tp_init_recv(m.session) ELSE rx[m.session]
      u == Received(r, m.seqno)
  IN IF tp_mesh.receiver # "ACTIVE" \/ ~r.open THEN UNCHANGED <<rx, acks>>
     ELSE /\ rx' = [rx EXCEPT ![m.session] = u]
          /\ acks' = Append(acks, [session |-> m.session, seqno |-> u.last_recv, of |-> m.seqno])

\* Nothing has come for BATADV_TP_RECV_TIMEOUT.
batadv_tp_receiver_shutdown ==
  \E s \in Session :
    /\ rx[s].open /\ \A i \in DOMAIN data : data[i].session # s
    /\ Charge("idle")
    /\ rx' = [rx EXCEPT ![s] = NoReceiver]
    /\ UNCHANGED <<tp, data, acks, tp_mesh, notified>>

-----------------------------------------------------------------------------
(* The mesh interfaces are deleted: the sender's node waits for its thread. *)

StopAllSender ==
  /\ tp_mesh.sender = "ACTIVE"
  /\ Charge("deletions")
  /\ tp_mesh' = [tp_mesh EXCEPT !.sender = "DEACTIVATING"]
  /\ tp' = IF tp.listed THEN batadv_tp_sender_shutdown(tp, "CANCEL") ELSE tp
  /\ UNCHANGED <<rx, data, acks, notified>>

StopAllEnds ==
  /\ tp_mesh.sender = "DEACTIVATING" /\ tp.pc = "gone"
  /\ tp_mesh' = [tp_mesh EXCEPT !.sender = "INACTIVE"]
  /\ UNCHANGED <<tp, rx, data, acks, notified, tp_left>>

StopAllReceiver ==
  /\ tp_mesh.receiver = "ACTIVE"
  /\ Charge("leaves")
  /\ tp_mesh' = [tp_mesh EXCEPT !.receiver = "INACTIVE"]
  /\ rx' = [s \in Session |-> NoReceiver]
  /\ UNCHANGED <<tp, data, acks, notified>>

-----------------------------------------------------------------------------
(* The mesh between them delivers in order, loses packets and lets one overtake another. *)

DeliverData ==
  /\ data # <<>> /\ data' = Tail(data) /\ batadv_tp_recv_msg(Head(data))
  /\ UNCHANGED <<tp, tp_mesh, notified, tp_left>>
OvertakeData ==
  \E i \in 2..Len(data) :
    /\ Charge("overtakes") /\ data' = RemoveAt(data, i) /\ batadv_tp_recv_msg(data[i])
    /\ UNCHANGED <<tp, tp_mesh, notified>>
LoseData ==
  \E i \in DOMAIN data :
    /\ Charge("losses") /\ data' = RemoveAt(data, i)
    /\ UNCHANGED <<tp, rx, acks, tp_mesh, notified>>
DeliverAck ==
  /\ acks # <<>> /\ acks' = Tail(acks)
  /\ IF tp_mesh.sender = "ACTIVE" THEN batadv_tp_recv_ack(Head(acks)) ELSE UNCHANGED <<tp, data>>
  /\ UNCHANGED <<rx, tp_mesh, notified, tp_left>>
OvertakeAck ==
  \E i \in 2..Len(acks) :
    /\ Charge("overtakes") /\ tp_mesh.sender = "ACTIVE"
    /\ acks' = RemoveAt(acks, i) /\ batadv_tp_recv_ack(acks[i])
    /\ UNCHANGED <<rx, tp_mesh, notified>>

TpNext ==
  \/ batadv_tp_start \/ batadv_tp_start_kthread \/ SendBegins \/ SendFails \/ batadv_tp_send
  \/ batadv_tp_sender_end \/ batadv_tp_sender_finish \/ batadv_tp_stop \/ batadv_tp_sender_timeout \/ EarlyTimeout
  \/ batadv_tp_receiver_shutdown \/ StopAllSender \/ StopAllEnds \/ StopAllReceiver
  \/ DeliverData \/ OvertakeData \/ LoseData \/ DeliverAck \/ OvertakeAck
TpSpec == TpInit /\ [][TpNext]_tpVars

\* The thread is scheduled, timers and delayed work run, and packets that are not lost
\* arrive.
TpFairness ==
  /\ WF_tpVars(SendBegins \/ batadv_tp_send \/ batadv_tp_sender_end)
  /\ WF_tpVars(batadv_tp_sender_finish)
  /\ WF_tpVars(batadv_tp_sender_timeout)
  /\ WF_tpVars(StopAllEnds) /\ WF_tpVars(DeliverData) /\ WF_tpVars(DeliverAck)
TpFairSpec == TpSpec /\ TpFairness

-----------------------------------------------------------------------------
(* Properties. *)

SeqNo == 0..(SEQS - 1)
TpTypeOK ==
  /\ tp.session \in Session \cup {0} /\ tp.sending \in Int
  /\ {tp.last_sent, tp.last_acked, tp.recover} \subseteq SeqNo
  /\ tp.cwnd \in PLEN..AWND /\ tp.ss_threshold \in 0..AWND /\ tp.dec_cwnd \in 0..(8 * PLEN - 1)
  /\ \A s \in Session : rx[s].last_recv \in SeqNo /\ ToSet(rx[s].unacked_list) \subseteq SeqNo

\* "sending binary semaphore: 1 if sending, 0 is not": however many parties stop a test,
\* the thread finds that it has to stop.
SendingIsBinary == tp.sending \in {0, 1}

\* What a test reports as transferred was received without a gap: acknowledgements that
\* are lost, late, duplicated or of an earlier session neither count twice nor count data
\* that never arrived.
TotalWasReceived ==
  /\ tp.pc = "loop" /\ tp_mesh.receiver = "ACTIVE" /\ rx[tp.session].open =>
       tp.tot_sent <= Offset(rx[tp.session].last_recv)
  /\ tp.session # 0 => tp.tot_sent = Offset(tp.last_acked)
  /\ notified.reason = "COMPLETE" => notified.bytes % PLEN = 0

\* A test that something has ended, the test length, the user, the deletion of the mesh
\* interface or a receiver that left, comes to its end although packets are lost and the
\* window is full.
EveryTestEnds ==
  /\ tp.pc = "loop"
  /\ \/ tp.finish_work /\ tp_left.finish > 0
     \/ tp.sending = 0
     \/ tp_mesh.sender # "ACTIVE"
     \/ tp_mesh.receiver # "ACTIVE" /\ acks = <<>> /\ Offset(tp.last_acked) < tp_left.segments * PLEN
  ~> tp.pc = "gone"

\* "true when congestion window is not full": new data is sent only within the window.
SendsWithinWindow ==
  [][Len(data') > Len(data) /\ tp'.last_sent # tp.last_sent /\ acks' = acks =>
       Offset(tp.last_sent) + PLEN <= Offset(tp.last_acked) + tp.cwnd]_tpVars

\* "the list is kept in ascending order": the list of segments that came too early.
UnackedAscending ==
  \A s \in Session : \A i, j \in DOMAIN rx[s].unacked_list :
    i < j => batadv_seq_before(rx[s].unacked_list[i], rx[s].unacked_list[j])
=============================================================================
