--------------------------------- MODULE Tcp ---------------------------------
(***************************************************************************)
(* TCP over the loopback interface: src/net/tcp.rs, with the routing and   *)
(* the drain loop of net/mod.rs and the queue of net/loopback.rs.          *)
(*                                                                         *)
(* The network code runs in kernel tasks, which never preempt each other,  *)
(* and a transmitted segment is delivered before the call that emitted it  *)
(* returns.  `wire' holds the segments of the call that runs: a call puts  *)
(* its segments there, tcp_input takes the first one and puts the reply    *)
(* before the others (emit drains the queue from inside tcp_input), and    *)
(* the next call starts when the wire is empty.                            *)
(*                                                                         *)
(* Handles are indices of the table `endpoints'; an endpoint is never      *)
(* removed.  Every address is 127.0.0.1, so a port stands for an address.  *)
(* Sequence numbers are integers modulo SEQ_MOD.  Payload bytes are named   *)
(* by their place in the stream of their sender: 1, 2, ...                 *)
(* Of a retransmission timer only whether it has expired matters, so the   *)
(* RTT estimate is left out, and so is the congestion window, which no     *)
(* code path reads before it sends.                                        *)
(***************************************************************************)
EXTENDS Integers, Sequences, SequencesExt, FiniteSets

CONSTANTS SEQ_MOD,         \* 2^32 in the source
          Iss,            \* the initial sequence numbers the clock may give
          ServerPort,     \* the port that is listened on
          FirstPort, LastPort,   \* the ephemeral ports, 49152 and 65000
          IPV4_HEADER_LEN, TCP_HEADER_MIN,   \* 20 and 20
          U16_MOD,        \* 2^16: the width of the length in the IPv4 header
          OverflowChecks, \* the dev profile, which panics on integer overflow
          MaxEndpoints,   \* bound: handles in one behaviour
          MaxSends,       \* bound: calls of send in one behaviour
          SendSizes       \* bound: lengths passed to send

ASSUME TcpAssumption ==
    /\ SEQ_MOD \in Nat \ {0} /\ Iss \subseteq 0 .. SEQ_MOD - 1
    /\ {ServerPort, FirstPort, LastPort, MaxEndpoints, MaxSends} \subseteq Nat
    /\ {IPV4_HEADER_LEN, TCP_HEADER_MIN} \subseteq Nat /\ OverflowChecks \in BOOLEAN
    /\ U16_MOD \in Nat /\ U16_MOD > IPV4_HEADER_LEN + TCP_HEADER_MIN
    /\ SendSizes \subseteq Nat

SYN == "SYN"
ACK == "ACK"
FIN == "FIN"
RST == "RST"

VARIABLES endpoints, next_ephemeral_port,
          lo_up,    \* the loopback interface is up
          wire

vars == <<endpoints, next_ephemeral_port, lo_up, wire>>

Init ==
    /\ endpoints = <<>>
    /\ next_ephemeral_port = FirstPort
    /\ lo_up = TRUE
    /\ wire = <<>>

-----------------------------------------------------------------------------
(* Sequence numbers *)

\* Mutant: the sum is not reduced.
wrapping_addUnreduced(a, n) == a + n

wrapping_add(a, n) == (a + n) % SEQ_MOD

\* Mutant: the comparison ignores the wrap-around.
seq_lePlain(a, b) == a <= b

seq_le(a, b) == (b - a) % SEQ_MOD < SEQ_MOD \div 2

-----------------------------------------------------------------------------
(* Endpoints.  `sent' lists the lengths given to send and `got' the bytes    *)
(* that entered rcv_buf; the last Len(got) - read of them are in it.         *)

Endpoint(state, local, remote, snd_nxt, snd_una, rcv_nxt) ==
    [state |-> state, local |-> local, remote |-> remote, snd_nxt |-> snd_nxt,
     snd_una |-> snd_una, rcv_nxt |-> rcv_nxt, retx |-> <<>>, accept_queue |-> <<>>,
     sent |-> <<>>, got |-> <<>>, read |-> 0]

new_listener(local) == Endpoint("Listen", local, 0, 0, 0, 0)

new_child_for_syn(local, remote, iss, peer_seq) ==
    Endpoint("SynRcvd", local, remote, iss, iss, wrapping_add(peer_seq, 1))

new_active(local, remote, iss) ==
    Endpoint("SynSent", local, remote, wrapping_add(iss, 1), iss, 0)

find_listener(port) ==
    {h \in DOMAIN endpoints : endpoints[h].state = "Listen" /\ endpoints[h].local = port}

\* The first match, whatever its state; 0 for None.
find_endpoint(local, remote) ==
    SelectInSeq(endpoints, LAMBDA ep : ep.local = local /\ ep.remote = remote)

pick_ephemeral_port == IF next_ephemeral_port >= LastPort THEN FirstPort ELSE next_ephemeral_port + 1

-----------------------------------------------------------------------------
(* Segments *)

Segment(local, remote, seq, ack, flags, data) ==
    [src |-> local, dst |-> remote, seq |-> seq, ack |-> ack, flags |-> flags, data |-> data]

\* Ipv4Header::new, given the length of the segment cast to 16 bits.
total_length(n) == IPV4_HEADER_LEN + ((TCP_HEADER_MIN + n) % U16_MOD)

\* The sum does not fit in 16 bits either: the dev profile panics in emit, and
\* the release profile in the slice packet[20..total_length] of ipv4_input.
Overflows(n) == total_length(n) >= U16_MOD

Fits(n) == IPV4_HEADER_LEN + TCP_HEADER_MIN + n < U16_MOD

\* route finds lo for every loopback address; transmit_ipv4 fails when it is down.
emit(segments) ==
    IF lo_up \/ (OverflowChecks /\ \E i \in DOMAIN segments : Overflows(Len(segments[i].data)))
    THEN segments ELSE <<>>

Reply(ep, flags) == <<Segment(ep.local, ep.remote, ep.snd_nxt, ep.rcv_nxt, flags, <<>>)>>

\* The end of a queued segment is covered by ack.
Covered(seg, ack) == seq_le(wrapping_add(seg.seq, Len(seg.data)), ack)

\* Drop covered segments from the front of the queue, up to the first that is
\* not covered.
process_ack(ep, ack) ==
    LET open == {i \in DOMAIN ep.retx : ~Covered(ep.retx[i], ack)}
        keep == IF open = {} THEN Len(ep.retx) + 1 ELSE CHOOSE i \in open : \A j \in open : i <= j
    IN  [ep EXCEPT !.retx = SubSeq(@, keep, Len(@)),
                   !.snd_una = IF keep > 1 THEN ack ELSE @]

\* Mutant: the sequence number of the data is not compared.
accept_dataAnyOrder(ep, seg) ==
    [ep EXCEPT !.got = @ \o seg.data, !.rcv_nxt = wrapping_add(@, Len(seg.data))]

\* In-order data enters rcv_buf; anything else is ignored.
accept_data(ep, seg) ==
    IF seg.seq # ep.rcv_nxt THEN ep
    ELSE [ep EXCEPT !.got = @ \o seg.data, !.rcv_nxt = wrapping_add(@, Len(seg.data))]

-----------------------------------------------------------------------------
(* process_segment_for: the endpoint after a segment, and the reply          *)

InOrder(ep, seg) == seg.data # <<>> /\ seg.seq = ep.rcv_nxt

InSynSent(ep, seg) ==
    LET est == [ep EXCEPT !.snd_una = seg.ack, !.rcv_nxt = wrapping_add(seg.seq, 1),
                          !.state = "Established"]
    IN  IF {SYN, ACK} \subseteq seg.flags THEN [ep |-> est, reply |-> Reply(est, {ACK})]
        ELSE IF RST \in seg.flags THEN [ep |-> [ep EXCEPT !.state = "Closed"], reply |-> <<>>]
        ELSE [ep |-> ep, reply |-> <<>>]

\* Mutant: the SYN of the SYN+ACK is not counted.
InSynRcvdOffByOne(ep, seg) ==
    IF ACK \in seg.flags /\ seg.ack = ep.snd_nxt
    THEN [ep |-> [ep EXCEPT !.state = "Established"], reply |-> <<>>]
    ELSE [ep |-> ep, reply |-> <<>>]

InSynRcvd(ep, seg) ==
    IF ACK \in seg.flags /\ seg.ack = wrapping_add(ep.snd_nxt, 1)
    THEN [ep |-> [ep EXCEPT !.snd_una = seg.ack, !.snd_nxt = seg.ack, !.state = "Established"],
          reply |-> <<>>]
    ELSE [ep |-> ep, reply |-> <<>>]

\* The FIN is taken whatever its sequence number.
InEstablished(ep, seg) ==
    LET e1 == IF seg.data # <<>> THEN accept_data(ep, seg) ELSE ep
        e2 == IF ACK \in seg.flags THEN process_ack(e1, seg.ack) ELSE e1
        e3 == IF FIN \in seg.flags
              THEN [e2 EXCEPT !.rcv_nxt = wrapping_add(@, 1), !.state = "CloseWait"] ELSE e2
    IN  [ep |-> e3,
         reply |-> IF InOrder(ep, seg) \/ FIN \in seg.flags THEN Reply(e3, {ACK}) ELSE <<>>]

Finished(ep, seg, state) ==
    LET e == [ep EXCEPT !.rcv_nxt = wrapping_add(seg.seq, 1), !.state = state]
    IN  [ep |-> e, reply |-> Reply(e, {ACK})]

\* Mutant: a FIN is not needed to close.
InFinWait1Early(ep, seg) ==
    IF ACK \in seg.flags THEN Finished(ep, seg, "Closed") ELSE [ep |-> ep, reply |-> <<>>]

InFinWait1(ep, seg) ==
    IF {FIN, ACK} \subseteq seg.flags THEN Finished(ep, seg, "Closed")
    ELSE IF ACK \in seg.flags THEN [ep |-> [ep EXCEPT !.state = "FinWait2"], reply |-> <<>>]
    ELSE IF FIN \in seg.flags THEN Finished(ep, seg, "Closing")
    ELSE [ep |-> ep, reply |-> <<>>]

InFinWait2(ep, seg) ==
    IF FIN \in seg.flags THEN Finished(ep, seg, "Closed") ELSE [ep |-> ep, reply |-> <<>>]

InCloseWait(ep, seg) ==
    IF InOrder(ep, seg)
    THEN LET e == accept_data(ep, seg) IN [ep |-> e, reply |-> Reply(e, {ACK})]
    ELSE [ep |-> ep, reply |-> <<>>]

InLastAck(ep, seg) ==
    [ep |-> IF ACK \in seg.flags THEN [ep EXCEPT !.state = "Closed"] ELSE ep, reply |-> <<>>]

process_segment_for(ep, seg) ==
    CASE ep.state = "SynSent" -> InSynSent(ep, seg)
      [] ep.state = "SynRcvd" -> InSynRcvd(ep, seg)
      [] ep.state = "Established" -> InEstablished(ep, seg)
      [] ep.state = "FinWait1" -> InFinWait1(ep, seg)
      [] ep.state = "FinWait2" -> InFinWait2(ep, seg)
      [] ep.state = "CloseWait" -> InCloseWait(ep, seg)
      [] ep.state = "LastAck" -> InLastAck(ep, seg)
      [] OTHER -> [ep |-> ep, reply |-> <<>>]

-----------------------------------------------------------------------------
(* tcp_input *)

\* A panic: the segment stays, and no call runs any more.
Panicked == wire # <<>> /\ Overflows(Len(Head(wire).data))

\* The payload bytes that total_length still covers; negative when it ends
\* before the TCP header does.
PayloadLen == total_length(Len(Head(wire).data)) - IPV4_HEADER_LEN - TCP_HEADER_MIN

Arrives == wire # <<>> /\ ~Panicked /\ PayloadLen >= 0

Seg == [Head(wire) EXCEPT !.data = SubSeq(@, 1, PayloadLen)]

\* TcpHeader::parse finds too few bytes: the segment is dropped.
input_short ==
    /\ wire # <<>> /\ ~Panicked /\ PayloadLen < 0
    /\ wire' = Tail(wire)
    /\ UNCHANGED <<endpoints, next_ephemeral_port, lo_up>>

\* A match in the table.
input_endpoint ==
    /\ Arrives
    /\ LET h == find_endpoint(Seg.dst, Seg.src)
           r == process_segment_for(endpoints[h], Seg)
       IN  /\ h # 0
           /\ endpoints' = [endpoints EXCEPT ![h] = r.ep]
           /\ wire' = emit(r.reply) \o Tail(wire)
    /\ UNCHANGED <<next_ephemeral_port, lo_up>>

\* A SYN for a listener: a child endpoint, queued for accept at once.
input_syn ==
    /\ Arrives
    /\ find_endpoint(Seg.dst, Seg.src) = 0
    /\ SYN \in Seg.flags /\ ACK \notin Seg.flags
    /\ find_listener(Seg.dst) # {}
    /\ \E iss \in Iss, l \in find_listener(Seg.dst) :
         LET child == new_child_for_syn(Seg.dst, Seg.src, iss, Seg.seq) IN
         /\ endpoints' = Append([endpoints EXCEPT ![l].accept_queue = Append(@, Len(endpoints) + 1)], child)
         /\ wire' = emit(Reply(child, {SYN, ACK})) \o Tail(wire)
    /\ UNCHANGED <<next_ephemeral_port, lo_up>>

\* A SYN nobody listens for.  (Another segment without an endpoint would get an
\* RST too: no call emits one, as endpoints stay in the table.)
input_refused ==
    /\ Arrives
    /\ find_endpoint(Seg.dst, Seg.src) = 0
    /\ find_listener(Seg.dst) = {}
    /\ wire' = emit(<<Segment(Seg.dst, Seg.src, 0, wrapping_add(Seg.seq, 1), {RST, ACK}, <<>>)>>)
               \o Tail(wire)
    /\ UNCHANGED <<endpoints, next_ephemeral_port, lo_up>>

-----------------------------------------------------------------------------
(* Calls *)

\* AddressInUse when the port has a listener.
listen ==
    /\ wire = <<>> /\ Len(endpoints) < MaxEndpoints
    /\ find_listener(ServerPort) = {}
    /\ endpoints' = Append(endpoints, new_listener(ServerPort))
    /\ UNCHANGED <<next_ephemeral_port, lo_up, wire>>

connect ==
    /\ wire = <<>> /\ Len(endpoints) + 1 < MaxEndpoints
    /\ next_ephemeral_port' = pick_ephemeral_port
    /\ \E iss \in Iss :
         /\ endpoints' = Append(endpoints, new_active(next_ephemeral_port, ServerPort, iss))
         /\ wire' = emit(<<Segment(next_ephemeral_port, ServerPort, iss, 0, {SYN}, <<>>)>>)
    /\ UNCHANGED lo_up

accept(h) ==
    /\ wire = <<>>
    /\ endpoints[h].state = "Listen" /\ endpoints[h].accept_queue # <<>>
    /\ endpoints' = [endpoints EXCEPT ![h].accept_queue = Tail(@)]
    /\ UNCHANGED <<next_ephemeral_port, lo_up, wire>>

Bytes(lengths) == FoldLeft(LAMBDA sum, n : sum + n, 0, lengths)

Calls == FoldLeft(LAMBDA sum, ep : sum + Len(ep.sent), 0, endpoints)

\* One segment whatever the length.  It stays on the retransmit queue even when
\* emit fails.
send(h, n) ==
    LET ep == endpoints[h]
        data == [i \in 1 .. n |-> Bytes(ep.sent) + i]
    IN  /\ wire = <<>> /\ Calls < MaxSends
        /\ ep.state \in {"Established", "CloseWait"}
        /\ endpoints' = [endpoints EXCEPT
               ![h].snd_nxt = wrapping_add(@, n), ![h].sent = Append(@, n),
               ![h].retx = Append(@, [seq |-> ep.snd_nxt, data |-> data])]
        /\ wire' = emit(<<Segment(ep.local, ep.remote, ep.snd_nxt, ep.rcv_nxt, {ACK}, data)>>)
        /\ UNCHANGED <<next_ephemeral_port, lo_up>>

recv(h, n) ==
    LET ep == endpoints[h]
        taken == IF ep.read + n > Len(ep.got) THEN Len(ep.got) ELSE ep.read + n
    IN  /\ wire = <<>> /\ ep.read < Len(ep.got)
        /\ endpoints' = [endpoints EXCEPT ![h].read = taken]
        /\ UNCHANGED <<next_ephemeral_port, lo_up, wire>>

\* The FIN is not put on the retransmit queue.
close(h) ==
    LET ep == endpoints[h]
        next == IF ep.state = "Established" THEN "FinWait1" ELSE "LastAck"
    IN  /\ wire = <<>>
        /\ \/ /\ ep.state \in {"Established", "CloseWait"}
              /\ endpoints' = [endpoints EXCEPT ![h].state = next, ![h].snd_nxt = wrapping_add(@, 1)]
              /\ wire' = emit(<<Segment(ep.local, ep.remote, ep.snd_nxt, ep.rcv_nxt, {FIN, ACK}, <<>>)>>)
           \/ /\ ep.state = "Listen"
              /\ endpoints' = [endpoints EXCEPT ![h].state = "Closed"]
              /\ wire' = <<>>
        /\ UNCHANGED <<next_ephemeral_port, lo_up>>

Waiting == {h \in DOMAIN endpoints : endpoints[h].retx # <<>>}

\* Mutant: the segment is not put back.
RotatedDrops(ep) == [ep EXCEPT !.retx = Tail(@)]

\* The oldest segment goes to the back of the queue.
Rotated(ep) == [ep EXCEPT !.retx = Append(Tail(@), Head(@))]

\* The timers of the endpoints hs have expired: one segment of each is resent.
retransmit_tick(hs) ==
    /\ wire = <<>> /\ hs # {}
    /\ endpoints' = [h \in DOMAIN endpoints |-> IF h \in hs THEN Rotated(endpoints[h]) ELSE endpoints[h]]
    /\ wire' = emit([i \in 1 .. Cardinality(hs) |->
                       LET ep == endpoints[SetToSortSeq(hs, <)[i]]
                           s == Head(ep.retx)
                       IN  Segment(ep.local, ep.remote, s.seq, ep.rcv_nxt, {ACK}, s.data)])
    /\ UNCHANGED <<next_ephemeral_port, lo_up>>

\* ifconfig lo up / down
set_up(up) ==
    /\ wire = <<>> /\ lo_up # up
    /\ lo_up' = up
    /\ UNCHANGED <<endpoints, next_ephemeral_port, wire>>

-----------------------------------------------------------------------------

tcp_input == input_short \/ input_endpoint \/ input_syn \/ input_refused

Next ==
    \/ tcp_input
    \/ listen
    \/ connect
    \/ \E h \in DOMAIN endpoints : accept(h) \/ close(h)
    \/ \E h \in DOMAIN endpoints, n \in SendSizes : send(h, n) \/ recv(h, n)
    \/ \E hs \in SUBSET Waiting : retransmit_tick(hs)
    \/ \E up \in BOOLEAN : set_up(up)

\* A call returns, and tcp_retx_task runs every two ticks, between any two calls
\* sooner or later: the timer of each endpoint that waits for an ACK expires.
Spec ==
    /\ Init /\ [][Next]_vars
    /\ WF_vars(tcp_input)
    /\ \A h \in 1 .. MaxEndpoints : SF_vars(\E hs \in SUBSET Waiting : h \in hs /\ retransmit_tick(hs))

-----------------------------------------------------------------------------
(* Properties *)

States == {"Closed", "Listen", "SynSent", "SynRcvd", "Established", "FinWait1",
           "FinWait2", "CloseWait", "LastAck", "Closing"}

\* Endpoints have a state of the protocol, sequence numbers modulo SEQ_MOD and
\* accept queues of handles that exist.
TypeOK ==
    /\ Len(endpoints) <= MaxEndpoints
    /\ next_ephemeral_port \in FirstPort .. LastPort
    /\ lo_up \in BOOLEAN
    /\ \A h \in DOMAIN endpoints :
         LET ep == endpoints[h] IN
         /\ ep.state \in States
         /\ {ep.snd_nxt, ep.snd_una, ep.rcv_nxt} \subseteq 0 .. SEQ_MOD - 1
         /\ ep.read \in 0 .. Len(ep.got)
         /\ ToSet(ep.accept_queue) \subseteq DOMAIN endpoints

\* The two ends of one connection.
Peers(h, k) == h # k /\ endpoints[h].local = endpoints[k].remote /\ endpoints[h].remote = endpoints[k].local

\* Until the sender closes, what the peer got is a prefix of what was sent:
\* nothing lost in between, nothing twice, nothing out of order, although a
\* segment is lost when lo is down or cut when its length does not fit in 16
\* bits, the retransmit queue rotates and sequence numbers wrap around.
\* (After a close there is no such promise: the FIN is taken at any sequence
\* number, tcp.rs:684, also before data that was lost.)
StreamPrefix ==
    \A h, k \in DOMAIN endpoints :
        Peers(h, k) /\ endpoints[h].state \in {"Established", "CloseWait"} =>
            /\ Len(endpoints[k].got) <= Bytes(endpoints[h].sent)
            /\ \A i \in DOMAIN endpoints[k].got : endpoints[k].got[i] = i

\* A byte leaves the retransmit queue only when the peer has it.
UnackedKept ==
    \A h, k \in DOMAIN endpoints :
        Peers(h, k) =>
            \A b \in 1 .. Bytes(endpoints[h].sent) :
                \/ b \in ToSet(endpoints[k].got)
                \/ \E i \in DOMAIN endpoints[h].retx : b \in ToSet(endpoints[h].retx[i].data)

\* An end of a connection that was established is Closed only after both ends
\* have called close: an ACK, a lost FIN or a half-close never closes it alone.
ClosedByBoth ==
    \A h, k \in DOMAIN endpoints :
        Peers(h, k) /\ endpoints[h].state = "Closed" =>
            endpoints[k].state \notin {"Established", "CloseWait", "SynRcvd"}

\* A child waits for accept once, and never before the handshake is over.
AcceptQueueReady ==
    \A h \in DOMAIN endpoints :
        LET q == endpoints[h].accept_queue IN
        /\ \A i, j \in DOMAIN q : q[i] = q[j] => i = j
        /\ wire = <<>> => \A i \in DOMAIN q : endpoints[q[i]].state # "SynRcvd"

\* The sends before the first whose length a segment cannot carry.
Whole(lengths) ==
    LET first == SelectInSeq(lengths, LAMBDA n : ~Fits(n))
    IN  IF first = 0 THEN lengths ELSE SubSeq(lengths, 1, first - 1)

Delivered(h, k) == Len(endpoints[k].got) >= Bytes(Whole(endpoints[h].sent))

Open(h, k) ==
    Peers(h, k) /\ endpoints[h].state = "Established" /\ endpoints[k].state = "Established"

AllDelivered == \A h, k \in DOMAIN endpoints : Open(h, k) => Delivered(h, k)

\* If lo stays up from some time on, everything sent on an open connection
\* arrives, whatever was lost while lo was down, up to the first send of more
\* bytes than one segment carries (65,495).  Such a send is not split
\* (tcp.rs:359): what its header still covers arrives, or nothing does, or the
\* kernel panics, and no later send arrives.
DataDelivered == <>[]lo_up => []<>(AllDelivered \/ Panicked)
=============================================================================
