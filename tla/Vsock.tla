-------------------------------- MODULE Vsock --------------------------------
(***************************************************************************)
(* virtio-vsock: the connections (csm/connection.rs, csm/txbuf.rs), the    *)
(* muxer that owns them (unix/muxer.rs) with its bounded queues of         *)
(* connections to serve (unix/muxer_rxq.rs) and to kill                    *)
(* (unix/muxer_killq.rs), and the worker of device.rs that moves packets   *)
(* between the muxer and the guest's rings.  Everything in `dev' belongs   *)
(* to the one worker thread.  Bytes are counted, not stored; the counters  *)
(* wrap at 2^Width as the u32s of the code do.  An epoll_ctl that fails is *)
(* not modelled.                                                           *)
(***************************************************************************)
EXTENDS Integers, Sequences, FiniteSets, SequencesExt

CONSTANTS
    GuestKeys, HostKeys,    \* connection keys (port pairs), by who connects
    TxBufSize, Threshold,   \* CONN_TX_BUF_SIZE, CONN_CREDIT_UPDATE_THRESHOLD
    GuestBuf,               \* the buf_alloc the guest announces
    PktLen,                 \* bytes in a guest buffer
    RxQSize, KillQSize, MaxConns,
    Width,
    MaxTime, MaxPackets, MaxTxQ, MaxBufs   \* bounds: time, packets the guest
                            \* sends, packets and buffers in its rings

VARIABLES dev, guest, host

vsockVars == <<dev, guest, host>>

Keys == GuestKeys \cup HostKeys
Modulus == 2^Width
Wrap(n) == n % Modulus
None == [state |-> "none"]
Never == -1

ConnStates == {"LocalInit", "PeerInit", "Established", "LocalClosed", "PeerClosed", "Killed"}
Pending == {"Request", "Response", "Rst", "Rw", "CreditUpdate"}
Counter == 0..(Modulus - 1)
\* `off': what the peer has shut down; `tx': bytes in the TX buffer; `evset':
\* the events the listener is registered for.
Connection == [state : ConnStates, off : SUBSET {"rcv", "send"}, pend : SUBSET Pending,
               tx : 0..TxBufSize, fwd : Counter, peer_alloc : Counter, peer_fwd : Counter,
               rx : Counter, last_fwd : Counter, expiry : {Never} \cup 0..(MaxTime + 1),
               evset : SUBSET {"in", "out"}]
MuxerRx == [kind : {"conn", "rst"}, key : Keys]

TypeOK ==
    /\ \A k \in Keys : dev.conn[k] \in {None} \cup Connection
    /\ dev.rxq \in Seq(MuxerRx) /\ Len(dev.rxq) <= RxQSize
    /\ Len(dev.killq) <= KillQSize
    /\ dev.pc \in {"wait", "tx", "rx", "scan"}

-----------------------------------------------------------------------------
(* A connection.                                                           *)

NewConnection(state, pend, alloc) ==
    [state |-> state, off |-> {}, pend |-> {pend}, tx |-> 0, fwd |-> 0, peer_alloc |-> alloc,
     peer_fwd |-> 0, rx |-> 0, last_fwd |-> 0, expiry |-> Never, evset |-> {}]
new_peer_init == NewConnection("PeerInit", "Response", GuestBuf)
new_local_init == NewConnection("LocalInit", "Request", 0)

will_expire(c) == c.expiry # Never /\ c.expiry > host.now
has_expired(c) == c.expiry # Never /\ c.expiry <= host.now
Timeout == host.now + 1

peer_avail_credit(c) == Wrap(c.peer_alloc - Wrap(c.rx - c.peer_fwd))
need_credit_update_from_peer(c) == peer_avail_credit(c) = 0
peer_needs_credit_update(c) ==
    Wrap(TxBufSize - Wrap(c.fwd - c.last_fwd)) < Threshold

get_polled_evset(c) ==
    (IF c.tx > 0 THEN {"out"} ELSE {}) \cup
    (IF \/ c.state \in {"Killed", "LocalClosed"}
        \/ "rcv" \in c.off
        \/ need_credit_update_from_peer(c) THEN {} ELSE {"in"})

kill(c) == [c EXCEPT !.state = "Killed", !.off = {}, !.pend = @ \cup {"Rst"}]
Insert(c, p) == [c EXCEPT !.pend = @ \cup {p}]

\* What recv_pkt leaves and yields: the connection, the packet's op and
\* length.
Yield(c, op, len) == [conn |-> c, op |-> op, len |-> len]
Told(c) == [c EXCEPT !.last_fwd = c.fwd]

CreditUpdateOrNoData(c) ==
    LET d == [c EXCEPT !.pend = @ \ {"CreditUpdate"}] IN
    IF "CreditUpdate" \in c.pend /\ d.pend = {}
    THEN Yield(Told(d), "CREDIT_UPDATE", 0)
    ELSE Yield(d, "NoData", 0)

\* The data packet of an Rw indication; stream.read() returns some bytes, 0
\* at the end of the stream, EWOULDBLOCK, or an error.
ReadStream(c) ==
    LET len == IF PktLen < peer_avail_credit(c) THEN PktLen ELSE peer_avail_credit(c) IN
    {Yield(Told([c EXCEPT !.rx = Wrap(@ + n)]), "RW", n) : n \in 1..len}
    \cup {Yield(Told([c EXCEPT !.state = "LocalClosed", !.off = {}, !.expiry = Timeout]),
                "SHUTDOWN", 0),
          Yield(Told(c), "RST", 0),
          CreditUpdateOrNoData(c)}

recv_pkt(c) ==
    LET Less(p) == [c EXCEPT !.pend = @ \ {p}] IN
    CASE "Rst" \in c.pend -> {Yield(Less("Rst"), "RST", 0)}
      [] "Rst" \notin c.pend /\ "Response" \in c.pend ->
            {Yield([Less("Response") EXCEPT !.state = "Established", !.off = {}], "RESPONSE", 0)}
      [] c.pend \cap {"Rst", "Response"} = {} /\ "Request" \in c.pend ->
            {Yield([Less("Request") EXCEPT !.expiry = Timeout], "REQUEST", 0)}
      [] c.pend \cap {"Rst", "Response", "Request"} = {} /\ "Rw" \in c.pend ->
            IF ~ (c.state = "Established" \/ (c.state = "PeerClosed" /\ "rcv" \notin c.off))
            THEN {Yield(Less("Rw"), "RST", 0)}
            ELSE IF need_credit_update_from_peer(c)
            THEN {Yield(Told(Less("Rw")), "CREDIT_REQUEST", 0)}
            ELSE ReadStream(Less("Rw"))
      [] OTHER -> {CreditUpdateOrNoData(c)}

\* TxBuf::push and TxBuf::flush_to: a push that does not fit fails and kills
\* the connection; a flush writes some prefix, or fails.
push(c, n) == IF c.tx + n > TxBufSize THEN kill(c) ELSE [c EXCEPT !.tx = @ + n]
flush_to(c) ==
    {[c EXCEPT !.tx = @ - n, !.fwd = Wrap(@ + n)] : n \in 0..c.tx} \cup {kill(c)}

\* Mutant: every byte is announced as forwarded, the buffered ones as well.
send_bytes_eager(c, n) ==
    IF c.tx > 0 THEN {push(c, n)}
    ELSE {push([c EXCEPT !.fwd = Wrap(@ + n)], n - w) : w \in 0..n} \cup {kill(c)}
\* The stream takes w bytes, or fails.
send_bytes(c, n) ==
    IF c.tx > 0 THEN {push(c, n)}
    ELSE {push([c EXCEPT !.fwd = Wrap(@ + w)], n - w) : w \in 0..n} \cup {kill(c)}

TellIfNeeded(c) ==
    IF c.state # "Killed" /\ peer_needs_credit_update(c) THEN Insert(c, "CreditUpdate") ELSE c

\* The whole of a shutdown resets at once, or when the TX buffer has drained;
\* only a first packet that shuts down both directions arms the timer.
Shutdown(c, flags) ==
    LET d == [c EXCEPT !.state = "PeerClosed", !.off = @ \cup flags] IN
    IF d.off # {"rcv", "send"} THEN d
    ELSE IF d.tx = 0 THEN Insert(d, "Rst")
    ELSE IF c.state = "Established" THEN [d EXCEPT !.expiry = Timeout] ELSE d

send_pkt(c0, pkt) ==
    LET c == [c0 EXCEPT !.peer_alloc = pkt.alloc, !.peer_fwd = pkt.fwd]
        open == c.state = "Established" \/ (c.state = "PeerClosed" /\ "send" \notin c.off) IN
    CASE pkt.op = "RW" /\ open -> {TellIfNeeded(d) : d \in send_bytes(c, pkt.len)}
      [] pkt.op = "RESPONSE" /\ c.state = "LocalInit" ->
            {[c EXCEPT !.state = "Established", !.expiry = Never]}
      [] pkt.op = "SHUTDOWN" /\ c.state \in {"Established", "PeerClosed"} ->
            {Shutdown(c, pkt.flags)}
      [] pkt.op = "CREDIT_REQUEST" /\ (open \/ c.state = "PeerInit") ->
            {Insert(c, "CreditUpdate")}
      [] OTHER -> {c}

notify(c, evset) ==
    LET d == IF "in" \in evset THEN Insert(c, "Rw") ELSE c
        Drained(e) == IF e.state = "PeerClosed" /\ e.off = {"rcv", "send"} /\ e.tx = 0
                      THEN Insert(e, "Rst")
                      ELSE IF peer_needs_credit_update(e) THEN Insert(e, "CreditUpdate") ELSE e IN
    IF "out" \in evset /\ d.tx > 0 THEN {Drained(e) : e \in flush_to(d)} ELSE {d}

-----------------------------------------------------------------------------
(* The muxer's queues.                                                     *)

ConnRx(k) == [kind |-> "conn", key |-> k]
RstPkt(k) == [kind |-> "rst", key |-> k]

\* Mutant: a packet that takes the place of a connection leaves the queue
\* `synced'.
RxPushSynced(d, rx) ==
    LET conns == {i \in 1..Len(d.rxq) : d.rxq[i].kind = "conn"} IN
    IF d.rxsync /\ Len(d.rxq) < RxQSize THEN [d EXCEPT !.rxq = Append(@, rx)]
    ELSE IF rx.kind = "conn" THEN [d EXCEPT !.rxsync = FALSE]
    ELSE IF conns # {}
    THEN [d EXCEPT !.rxq[CHOOSE i \in conns : \A j \in conns : j <= i] = rx]
    ELSE d
\* MuxerRxQ::push: an RST that does not fit replaces the last connection.
RxPush(d, rx) ==
    LET conns == {i \in 1..Len(d.rxq) : d.rxq[i].kind = "conn"} IN
    IF d.rxsync /\ Len(d.rxq) < RxQSize THEN [d EXCEPT !.rxq = Append(@, rx)]
    ELSE IF rx.kind = "conn" THEN [d EXCEPT !.rxsync = FALSE]
    ELSE IF conns # {}
    THEN [d EXCEPT !.rxq[CHOOSE i \in conns : \A j \in conns : j <= i] = rx, !.rxsync = FALSE]
    ELSE d

\* MuxerKillQ::push.
KillPush(d, k, time) ==
    IF d.killsync /\ Len(d.killq) < KillQSize
    THEN [d EXCEPT !.killq = Append(@, [key |-> k, time |-> time])]
    ELSE [d EXCEPT !.killsync = FALSE]

Live(d) == {k \in Keys : d.conn[k] # None}

\* The queues that from_conn_map may build: it visits the map in any order
\* and stops when the queue is full.
Chosen(S, size) == {T \in SUBSET S : Cardinality(T) = IF Cardinality(S) < size
                                                       THEN Cardinality(S) ELSE size}
RxFromConnMap(d) ==
    LET due == {k \in Live(d) : d.conn[k].pend # {}} IN
    {[d EXCEPT !.rxq = [i \in DOMAIN q |-> ConnRx(q[i])],
               !.rxsync = Cardinality(due) <= RxQSize] :
        q \in UNION {SetToSeqs(T) : T \in Chosen(due, RxQSize)}}
\* It takes the connections that have yet to expire, those that did are left
\* out.
KillFromConnMap(d) ==
    LET due == {k \in Live(d) : will_expire(d.conn[k])} IN
    {[d EXCEPT !.killq = q, !.killsync = Cardinality(due) <= KillQSize] :
        q \in UNION {{s \in SetToSeqs({[key |-> k, time |-> d.conn[k].expiry] : k \in T}) :
                         \A i \in 1..(Len(s) - 1) : s[i].time <= s[i + 1].time} :
                     T \in Chosen(due, KillQSize)}}

kill_connection(d, k) ==
    LET e == [d EXCEPT !.conn[k] = kill(@)] IN
    IF d.conn[k].pend = {} THEN RxPush(e, ConnRx(k)) ELSE e

\* The entries whose time has come are popped, and those connections that
\* did expire are killed; an empty queue that lost entries is rebuilt.
sweep_killq(d) ==
    LET late == {i \in 1..Len(d.killq) : host.now <= d.killq[i].time}
        n == IF late = {} THEN Len(d.killq) ELSE (CHOOSE i \in late : \A j \in late : i <= j) - 1
        KillOne(e, it) == IF e.conn[it.key] # None /\ has_expired(e.conn[it.key])
                          THEN kill_connection(e, it.key) ELSE e
        swept == [FoldLeft(KillOne, d, SubSeq(d.killq, 1, n)) EXCEPT
                     !.killq = SubSeq(d.killq, n + 1, Len(d.killq))] IN
    IF swept.killq = <<>> /\ ~ swept.killsync THEN KillFromConnMap(swept) ELSE {swept}

free_local_port(d, k) == [d EXCEPT !.ports = @ \ {k}]
remove_connection(d, k) == free_local_port([d EXCEPT !.conn[k] = None], k)

\* Refused when the muxer is full.
AddConnection(d, k, c) ==
    IF Cardinality(Live(d)) >= MaxConns THEN d
    ELSE RxPush([d EXCEPT !.conn[k] = [c EXCEPT !.evset = get_polled_evset(c)]], ConnRx(k))

\* apply_conn_mutation, once the connection c0 has become c: the host is told
\* that a connection of its own is established, the queues and the listener
\* follow.
apply_conn_mutation(d, k, c0, c1) ==
    LET Acked == IF c0.state = "LocalInit" /\ c1.state = "Established" THEN {c1, kill(c1)} ELSE {c1}
        Queued(c) == IF c0.pend = {} /\ c.pend # {} THEN RxPush(d, ConnRx(k)) ELSE d
        Expiring(c) == IF ~ will_expire(c0) /\ will_expire(c)
                       THEN KillPush(Queued(c), k, c.expiry) ELSE Queued(c) IN
    {[Expiring(c) EXCEPT !.conn[k] = [c EXCEPT !.evset = get_polled_evset(c)]] : c \in Acked}

-----------------------------------------------------------------------------
(* The guest: its driver keeps the credit rules of the protocol.           *)

NewGuest(state) == [state |-> state, tx |-> 0, seen |-> 0, rx |-> 0, fwd |-> 0, off |-> {}]
Free(k) == Wrap(TxBufSize - Wrap(guest.sock[k].tx - guest.sock[k].seen))

Packet(k, op, len, flags) ==
    [key |-> k, op |-> op, len |-> len, flags |-> flags, alloc |-> GuestBuf,
     fwd |-> guest.sock[k].fwd]

Send(k, op, len, flags, sock) ==
    /\ Len(guest.txq) < MaxTxQ /\ guest.sent < MaxPackets
    /\ guest' = [guest EXCEPT !.sent = @ + 1, !.txq = Append(@, Packet(k, op, len, flags)),
                              !.txkick = TRUE, !.sock[k] = sock]
    /\ UNCHANGED <<dev, host>>

GuestSends(k) ==
    LET s == guest.sock[k] IN
    \/ k \in GuestKeys /\ s.state = "closed" /\ Send(k, "REQUEST", 0, {}, NewGuest("connecting"))
    \/ s.state = "asked" /\ Send(k, "RESPONSE", 0, {}, NewGuest("open"))
    \/ s.state = "open" /\ "send" \notin s.off /\ \E n \in 1..Free(k) :
            n <= PktLen /\ Send(k, "RW", n, {}, [s EXCEPT !.tx = Wrap(@ + n)])
    \/ s.state = "open" /\ s.rx # s.fwd /\ Send(k, "CREDIT_UPDATE", 0, {}, s)
    \/ s.state = "open" /\ Free(k) = 0 /\ Send(k, "CREDIT_REQUEST", 0, {}, s)
    \/ s.state = "open" /\ \E flags \in (SUBSET {"rcv", "send"}) \ {{}} :
            flags \cap s.off = {} /\ Send(k, "SHUTDOWN", 0, flags, [s EXCEPT !.off = @ \cup flags])
    \/ s.state \in {"reset", "asked", "open"} /\ Send(k, "RST", 0, {}, NewGuest("closed"))

GuestReads(k) ==
    /\ guest.sock[k].state = "open" /\ guest.sock[k].rx # guest.sock[k].fwd
    /\ guest' = [guest EXCEPT !.sock[k].fwd = guest.sock[k].rx]
    /\ UNCHANGED <<dev, host>>

GuestAddsBuffer ==
    /\ guest.bufs < MaxBufs
    /\ guest' = [guest EXCEPT !.bufs = @ + 1, !.rxkick = TRUE]
    /\ UNCHANGED <<dev, host>>

\* The socket once it has been given a packet.
Receives(s, op, len, fwd) ==
    CASE op = "RST" -> NewGuest("closed")
      [] op = "REQUEST" -> NewGuest("asked")
      [] op = "RESPONSE" /\ s.state = "connecting" -> [s EXCEPT !.state = "open", !.seen = fwd]
      [] op = "SHUTDOWN" -> NewGuest("reset")
      [] op \in {"RW", "CREDIT_UPDATE", "CREDIT_REQUEST"} /\ s.state = "open" ->
            [s EXCEPT !.seen = fwd, !.rx = Wrap(@ + len)]
      [] OTHER -> NewGuest("reset")

-----------------------------------------------------------------------------
(* The worker.                                                             *)

Init ==
    /\ dev = [conn |-> [k \in Keys |-> None], rxq |-> <<>>, rxsync |-> TRUE, killq |-> <<>>,
              killsync |-> TRUE, ports |-> {}, streams |-> 0, pc |-> "wait"]
    /\ guest = [sock |-> [k \in Keys |-> NewGuest("closed")], txq |-> <<>>, sent |-> 0, bufs |-> 0,
                txkick |-> FALSE, rxkick |-> FALSE]
    /\ host = [now |-> 0]

has_pending_rx == dev.rxq # <<>> \/ ~ dev.rxsync

RxQueueEvent ==
    /\ dev.pc = "wait" /\ guest.rxkick
    /\ guest' = [guest EXCEPT !.rxkick = FALSE]
    /\ dev' = [dev EXCEPT !.pc = IF has_pending_rx THEN "rx" ELSE "wait"]
    /\ UNCHANGED host

TxQueueEvent ==
    /\ dev.pc = "wait" /\ guest.txkick
    /\ guest' = [guest EXCEPT !.txkick = FALSE]
    /\ dev' = [dev EXCEPT !.pc = "tx"]
    /\ UNCHANGED host

\* BACKEND_EVENT on a connection: the muxer's notify, then both rings.
ConnectionEvent(k) ==
    /\ dev.pc = "wait" /\ dev.conn[k] # None
    /\ \E evset \in (SUBSET dev.conn[k].evset) \ {{}} : \E c \in notify(dev.conn[k], evset) :
        \E d \in apply_conn_mutation(dev, k, dev.conn[k], c) : dev' = [d EXCEPT !.pc = "tx"]
    /\ UNCHANGED <<guest, host>>

\* A client connects to the host socket, and is discarded when the muxer is
\* full.
HostSockEvent ==
    /\ dev.pc = "wait" /\ dev.streams = 0
    /\ dev' = [dev EXCEPT !.pc = "tx",
                          !.streams = IF Cardinality(Live(dev)) = MaxConns THEN 0 ELSE 1]
    /\ UNCHANGED <<guest, host>>

\* It says where it wants to go, or something that is no port; the port
\* allocated for a refused connection is not returned.
LocalStreamEvent ==
    /\ dev.pc = "wait" /\ dev.streams = 1
    /\ LET d == [dev EXCEPT !.streams = 0, !.pc = "tx"] IN
       \/ dev' = d
       \/ \E k \in HostKeys \ dev.ports :
            \E e \in sweep_killq([d EXCEPT !.ports = @ \cup {k}]) :
                dev' = AddConnection(e, k, new_local_init)
    /\ UNCHANGED <<guest, host>>

\* The muxer's answer to a packet of the guest; connecting to the host socket
\* may fail.
HandlePeerRequest(d, k) ==
    {RxPush(d, RstPkt(k))} \cup
    {IF e.conn[k] = None THEN RxPush(e, RstPkt(k)) ELSE e :
        e \in {AddConnection(s, k, new_peer_init) : s \in sweep_killq(d)}}

SendPkt(d, pkt) ==
    LET k == pkt.key IN
    IF d.conn[k] = None
    THEN IF pkt.op = "REQUEST" THEN HandlePeerRequest(d, k) ELSE {RxPush(d, RstPkt(k))}
    ELSE IF pkt.op = "RST" THEN {remove_connection(d, k)}
    ELSE UNION {apply_conn_mutation(d, k, d.conn[k], c) : c \in send_pkt(d.conn[k], pkt)}

\* process_tx: the packets of the ring one by one, then the rx ring if the
\* muxer has something for it.
ProcessTx ==
    /\ dev.pc = "tx"
    /\ IF guest.txq = <<>>
       THEN dev' = [dev EXCEPT !.pc = IF has_pending_rx THEN "rx" ELSE "wait"] /\ UNCHANGED guest
       ELSE /\ dev' \in SendPkt(dev, Head(guest.txq))
            /\ guest' = [guest EXCEPT !.txq = Tail(@)]
    /\ UNCHANGED host

\* process_rx: one call of the muxer's recv_pkt for each buffer.
ProcessRx ==
    /\ dev.pc = "rx"
    /\ IF guest.bufs = 0 THEN dev' = [dev EXCEPT !.pc = "wait"]
       ELSE IF dev.rxq = <<>> /\ ~ dev.rxsync
       THEN \E d \in RxFromConnMap(dev) : dev' = [d EXCEPT !.pc = "scan"]
       ELSE dev' = [dev EXCEPT !.pc = "scan"]
    /\ UNCHANGED <<guest, host>>

Delivered(k, op, len, fwd) ==
    guest' = [guest EXCEPT !.bufs = @ - 1, !.sock[k] = Receives(@, op, len, fwd)]

\* One turn of the loop of recv_pkt: the front of the queue yields a packet,
\* or has nothing to say.
RecvPkt ==
    /\ dev.pc = "scan"
    /\ UNCHANGED host
    /\ IF dev.rxq = <<>> THEN dev' = [dev EXCEPT !.pc = "wait"] /\ UNCHANGED guest
       ELSE LET rx == Head(dev.rxq)
                k == rx.key
                popped == [dev EXCEPT !.rxq = Tail(@)] IN
       CASE rx.kind = "rst" ->
                /\ dev' = [popped EXCEPT !.pc = "rx"]
                /\ Delivered(k, "RST", 0, 0)
         [] rx.kind = "conn" /\ dev.conn[k] = None -> dev' = popped /\ UNCHANGED guest
         [] OTHER ->
                \E y \in recv_pkt(dev.conn[k]) :
                    LET rest == IF y.conn.pend = {} THEN popped ELSE dev IN
                    \E d \in apply_conn_mutation(rest, k, dev.conn[k], y.conn) :
                    IF y.op = "NoData" THEN dev' = d /\ UNCHANGED guest
                    ELSE /\ dev' = [(IF y.op = "RST" THEN remove_connection(d, k) ELSE d)
                                       EXCEPT !.pc = "rx"]
                         /\ Delivered(k, y.op, y.len, y.conn.fwd)

Tick ==
    /\ host.now < MaxTime
    /\ host' = [host EXCEPT !.now = @ + 1]
    /\ UNCHANGED <<dev, guest>>

Next ==
    \/ \E k \in Keys : GuestSends(k) \/ GuestReads(k) \/ ConnectionEvent(k)
    \/ GuestAddsBuffer \/ RxQueueEvent \/ TxQueueEvent \/ HostSockEvent \/ LocalStreamEvent
    \/ ProcessTx \/ ProcessRx \/ RecvPkt \/ Tick

Spec == Init /\ [][Next]_vsockVars

-----------------------------------------------------------------------------
(* Properties.                                                             *)

\* A connection with something for the guest is in the queue the worker
\* serves, or the queue is known to have lost entries and will be rebuilt
\* (muxer_rxq.rs), whatever overflows, kills and resets came between.
PendingIsQueued ==
    \A k \in Keys : dev.conn[k] # None /\ dev.conn[k].pend # {} =>
        ~ dev.rxsync \/ \E i \in DOMAIN dev.rxq : dev.rxq[i] = ConnRx(k)

InFlight(k) ==
    FoldLeft(LAMBDA n, p : IF p.key = k /\ p.op = "RW" THEN n + p.len ELSE n, 0, guest.txq)

\* The credit a connection has given always fits its TX buffer, with what is
\* buffered and what is on its way (send_bytes, TxBuf::push): a guest that
\* keeps to its credit is never reset for a full buffer.  And the host's data
\* always fits the buffer the guest announced (peer_avail_credit).
CreditFits ==
    \A k \in Keys : LET c == dev.conn[k]
                        s == guest.sock[k] IN
        c # None /\ c.state = "Established" /\ s.state = "open" =>
            /\ c.tx + InFlight(k) + Free(k) <= TxBufSize
            /\ Wrap(s.rx - s.fwd) <= GuestBuf

\* A guest that ran out of credit is going to hear from the device: an update
\* is pending, or bytes are waiting for a writable stream (notify).
WriterIsHeard ==
    \A k \in Keys : LET c == dev.conn[k] IN
        /\ c # None /\ c.state = "Established" /\ guest.sock[k].state = "open"
        /\ Free(k) = 0 /\ InFlight(k) = 0
        => c.pend \cap {"CreditUpdate", "Rst"} # {} \/ (c.tx > 0 /\ "out" \in c.evset)

\* While the kill queue is synced every connection that is to be killed is
\* in it (muxer_killq.rs: "all connections that are awaiting termination are
\* guaranteed to be in this queue").
KillQueueIsComplete ==
    dev.killsync => \A k \in Keys :
        dev.conn[k] # None /\ dev.conn[k].state # "Killed" /\ dev.conn[k].expiry # Never =>
            \E i \in DOMAIN dev.killq : dev.killq[i].key = k
=============================================================================
