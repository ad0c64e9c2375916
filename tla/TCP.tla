-------------------------------- MODULE TCP --------------------------------
(***************************************************************************)
(* The TCP stack of src/src/drivers/tcp.c: one connection, its handler     *)
(* handle_tcp, the blocking calls of the shell, and the two programs that  *)
(* make them: http_get ("fetch") and http_serve ("serve").                 *)
(*                                                                         *)
(* The other host is a conforming TCP that is not part of this repository. *)
(* The network may lose, delay, reorder and duplicate segments: net is the *)
(* set of all segments ever sent, and any of them may arrive, any number   *)
(* of times, at any later moment.                                          *)
(*                                                                         *)
(* handle_tcp runs in the card's interrupt handler or in rtl8139_poll_rx.  *)
(* Between copying a payload and advancing my_ack it executes sti          *)
(* (tcp.c:311), although its caller masked interrupts, so that a second    *)
(* handler may run there; win holds the segment whose handling is          *)
(* suspended.  The shell itself can be interrupted between transmitting a  *)
(* segment and advancing my_seq: those are steps of their own.             *)
(*                                                                         *)
(* A unit is a byte; a payload is the position of its first unit in the    *)
(* stream and its length.  Timers are steps that may come at any time.     *)
(***************************************************************************)
EXTENDS Integers, Sequences, FiniteSets, SequencesExt

CONSTANTS Roles,       \* which of the programs runs: "fetch", "serve"
          SeqSpace,      \* sequence numbers are counted modulo SeqSpace
          Isns,        \* initial sequence numbers of this host
          PeerIsn,     \* initial sequence number of the other host
          RxBuf,       \* TCP_RX_BUF_SIZE
          MaxRetries,  \* TCP_MAX_RETRIES
          OutLen,      \* units http_serve sends; http_get sends one
          ReqLen,      \* units of the request http_serve reads
          RespLen,     \* units of the response http_get reads
          Nested,      \* whether a second handler may run inside the first
          Halts        \* the hazards after which the exploration stops

ASSUME SizesAssumption ==
    /\ {SeqSpace, RxBuf, MaxRetries} \subseteq Nat \ {0}
    /\ {PeerIsn, OutLen, ReqLen, RespLen} \subseteq Nat /\ Isns \subseteq 0 .. SeqSpace - 1
    /\ Roles \subseteq {"fetch", "serve"} /\ Nested \in BOOLEAN

VARIABLES c,        \* the connection: state, my_seq, my_ack, peer_acked_to, rx_buf
          pc,       \* where the shell is: program step and retry count
          io,       \* what the program read, and how much tcp_send reported
          win,      \* the segment whose handling the sti suspended, or NoSeg
          peer,     \* the other host
          net,      \* every segment sent
          odd       \* history: which hazards were met

InLen == IF io.role = "serve" THEN ReqLen ELSE RespLen
vars == <<c, pc, io, win, peer, net, odd>>

Inside(hazards) == odd \cap hazards = {}

(* One run of the program: what arrives after it has returned is left out. *)
Running == pc.at # "done" /\ Inside(Halts)

Plus(a, b) == (a + b) % SeqSpace

(***************************************************************************)
(* Segments.  dat is the stream position of the first payload unit.        *)
(***************************************************************************)
Seg(to, flags, seq, ack, dat, len) ==
    [to |-> to, f |-> flags, seq |-> seq, ack |-> ack, dat |-> dat, len |-> len]
NoSeg == Seg("nobody", {}, 0, 0, 0, 0)
(* Nothing depends on the sequence number of a segment that carries only an *)
(* ACK: it is left out.                                                     *)
SegSeq(flags, seq, len) == IF flags = {"ACK"} /\ len = 0 THEN 0 ELSE seq
send_tcp_segment(flags, seq, ack, dat, len) == Seg("peer", flags, SegSeq(flags, seq, len), ack, dat, len)
Has(m, flag) == flag \in m.f

(***************************************************************************)
(* handle_tcp on the connection k: k.out collects the segments it sends,   *)
(* k.more says that a payload was copied and my_ack not yet advanced.      *)
(***************************************************************************)
Reply(k, flags) == [k EXCEPT !.out = @ \cup {send_tcp_segment(flags, k.seq, k.ack, 0, 0)}]
To(k, state) == [k EXCEPT !.st = state]

OnSyn(k, m, isn) ==
    IF ~ (Has(m, "SYN") /\ ~ Has(m, "ACK")) THEN k
    ELSE [Reply([k EXCEPT !.seq = isn, !.ack = Plus(m.seq, 1)], {"SYN", "ACK"}) EXCEPT
             !.seq = Plus(isn, 1), !.st = "SYN_RCVD"]

OnHandshakeAck(k, m) ==
    IF m.ack = k.seq THEN [k EXCEPT !.acked = m.ack, !.st = "ESTABLISHED"] ELSE k

OnSynAck(k, m) ==
    IF k.st = "SYN_SENT" /\ m.ack = k.seq
    THEN To(Reply([k EXCEPT !.ack = Plus(m.seq, 1), !.seq = m.ack], {"ACK"}), "ESTABLISHED")
    ELSE k

OnAck(k, m) ==
    IF ~ Has(m, "ACK") THEN k
    ELSE [k EXCEPT !.acked = IF m.ack > @ THEN m.ack ELSE @,
                   !.st = CASE k.st = "FIN_WAIT_1" /\ m.ack >= k.seq -> "FIN_WAIT_2"
                            [] k.st = "LAST_ACK" /\ m.ack >= k.seq -> "CLOSED"
                            [] OTHER -> k.st]

OnDataAnyOrder(k, m) == \* mutant: the sequence number is not compared
    IF m.len = 0 THEN k
    ELSE [k EXCEPT !.rx = @ \o [i \in 1 .. (IF Len(@) + m.len > RxBuf THEN RxBuf - Len(@) ELSE m.len)
                                    |-> m.dat + i - 1],
                   !.more = TRUE]
(* In order: as much as fits is copied.  Out of order: a duplicate ACK. *)
OnData(k, m) ==
    IF m.len = 0 \/ ~ (Has(m, "PSH") \/ Has(m, "ACK")) THEN k
    ELSE IF m.seq # k.ack THEN Reply(k, {"ACK"})
    ELSE [k EXCEPT !.rx = @ \o [i \in 1 .. (IF Len(@) + m.len > RxBuf THEN RxBuf - Len(@) ELSE m.len)
                                    |-> m.dat + i - 1],
                   !.more = TRUE]
AckDataPlusOne(k, m) == \* mutant: one unit too many is acknowledged
    IF ~ k.more THEN k ELSE [Reply([k EXCEPT !.ack = Plus(@, m.len + 1)], {"ACK"}) EXCEPT !.more = FALSE]
AckData(k, m) == IF ~ k.more THEN k
                 ELSE [Reply([k EXCEPT !.ack = Plus(@, m.len)], {"ACK"}) EXCEPT !.more = FALSE]

OnFin(k, m) ==
    IF ~ Has(m, "FIN") THEN k
    ELSE LET a == [k EXCEPT !.ack = Plus(m.seq, m.len + 1)]
         IN CASE k.st = "ESTABLISHED" ->
                    To([Reply(a, {"ACK", "FIN"}) EXCEPT !.seq = Plus(@, 1)], "LAST_ACK")
              [] k.st \in {"FIN_WAIT_1", "FIN_WAIT_2"} -> To(Reply(a, {"ACK"}), "TIME_WAIT")
              [] OTHER -> a

OnRst(k, m) == IF Has(m, "RST") THEN To(k, "CLOSED") ELSE k

(* Up to the sti after the copy, and from there on. *)
FirstPart(k, m, isn) ==
    CASE k.st = "LISTEN" -> OnSyn(k, m, isn)
      [] k.st = "SYN_RCVD" /\ Has(m, "ACK") -> OnHandshakeAck(k, m)
      [] k.st \notin {"LISTEN", "SYN_RCVD"} /\ Has(m, "SYN") /\ Has(m, "ACK") -> OnSynAck(k, m)
      [] OTHER -> OnData(OnAck(k, m), m)
SecondPart(k, m) == OnRst(OnFin(AckData(k, m), m), m)
EarlyReturn(k, m) == k.st = "LISTEN" \/ (Has(m, "ACK") /\ (k.st = "SYN_RCVD" \/ Has(m, "SYN")))
handle_tcp(k, m, isn) ==
    IF EarlyReturn(k, m) THEN FirstPart(k, m, isn) ELSE SecondPart(FirstPart(k, m, isn), m)

-----------------------------------------------------------------------------
Quiet(k) == [k EXCEPT !.out = {}]
Install(k) == c' = Quiet(k) /\ net' = net \cup k.out

(* my_seq is about to pass the end of the sequence space. *)
WrapOdds == IF Plus(c.seq, 1) = 0 THEN {"wrap"} ELSE {}
(* The hazards the handling of m meets in the present state. *)
HandlerOdds(m) ==
    {h \in {"overflow", "fin_gap", "fin_race", "wrap"} :
        CASE h = "overflow"  -> m.seq = c.ack /\ Len(c.rx) + m.len > RxBuf
          [] h = "fin_gap"   -> Has(m, "FIN") /\ m.seq # c.ack /\ Plus(m.seq, m.len + 1) # c.ack
          [] h = "fin_race"  -> Has(m, "FIN") /\ c.st = "ESTABLISHED" /\ pc.at \in {"send_sent", "syn_wait"}
          [] h = "wrap"      -> Has(m, "FIN") /\ c.st = "ESTABLISHED" /\ WrapOdds # {}}

(* A segment arrives, in the interrupt handler or in rtl8139_poll_rx. *)
Receive ==
    \E m \in net, isn \in Isns :
        /\ Running /\ m.to = "jex" /\ win = NoSeg
        /\ c.st # "LISTEN" => isn = Min(Isns)
        /\ LET k == FirstPart(c, m, isn)
           IN IF k.more /\ Nested THEN Install(k) /\ win' = m
              ELSE Install(handle_tcp(c, m, isn)) /\ UNCHANGED win
        /\ odd' = odd \cup HandlerOdds(m)
        /\ UNCHANGED <<pc, io, peer>>

(* Inside the window opened by sti: another segment, or the same again. *)
ReceiveNested ==
    \E m \in net :
        /\ Running /\ m.to = "jex" /\ win # NoSeg
        /\ Install([handle_tcp([c EXCEPT !.more = FALSE], m, Min(Isns)) EXCEPT !.more = TRUE])
        /\ odd' = odd \cup HandlerOdds(m) \cup {"nested"}
        /\ UNCHANGED <<pc, io, peer, win>>

Resume ==
    /\ Running /\ win # NoSeg
    /\ Install(SecondPart(c, win))
    /\ win' = NoSeg
    /\ UNCHANGED <<pc, io, peer, odd>>

-----------------------------------------------------------------------------
(***************************************************************************)
(* The shell.  pc.at is the step, pc.n the attempts made, pc.s the         *)
(* sequence number of the chunk being sent.                                *)
(***************************************************************************)
Step(at, n, s) == pc' = [at |-> at, n |-> n, s |-> s]
Go(at) == Step(at, 0, 0)
At(where) == Running /\ pc.at = where /\ win = NoSeg
Transmit(flags, seq, dat, len) == net' = net \cup {send_tcp_segment(flags, seq, c.ack, dat, len)}
Keep == UNCHANGED <<win, peer, odd>>

(* The programs: the step that follows a call that succeeded.  http_get     *)
(* sends its request, prints what it reads and closes; http_serve reads a  *)
(* request, sends a header and a body, or a single "400" reply, and closes. *)
http_get == [connect |-> "send", send |-> "read", read |-> "close"]
http_serve == [accept |-> "read", read |-> "send", send |-> "close"]
After(step) == IF io.role = "serve" THEN http_serve[step] ELSE http_get[step]

(* tcp_abort, and the return of the program. *)
AbortSegs == IF c.st \in {"CLOSED", "LISTEN"} THEN {} ELSE {send_tcp_segment({"RST", "ACK"}, c.seq, c.ack, 0, 0)}
Abort == c' = To(c, "CLOSED") /\ net' = net \cup AbortSegs /\ Go("done") /\ UNCHANGED io /\ Keep

(* tcp_connect.  The MAC of the next hop may not resolve. *)
Connect ==
    /\ At("connect")
    /\ \E isn \in Isns :
          LET k == [c EXCEPT !.seq = isn, !.ack = 0, !.acked = isn, !.rx = <<>>, !.st = "SYN_SENT"]
          IN \/ Install([k EXCEPT !.out = {send_tcp_segment({"SYN"}, isn, 0, 0, 0)}]) /\ Go("syn_sent")
             \/ Install(To(k, "CLOSED")) /\ Go("done")
    /\ UNCHANGED io /\ Keep

CountSyn == At("syn_sent") /\ c' = [c EXCEPT !.seq = Plus(@, 1)] /\ Go("syn_wait") /\ UNCHANGED <<io, net>> /\ Keep

Connected ==
    /\ At("syn_wait") /\ c.st \in {"ESTABLISHED", "CLOSED"}
    /\ Go(IF c.st = "CLOSED" THEN "done" ELSE After("connect"))
    /\ UNCHANGED <<c, io, net>> /\ Keep

SynTimeoutUncounted == \* mutant: attempts are not counted
    /\ At("syn_wait") /\ c.st \notin {"ESTABLISHED", "CLOSED"}
    /\ net' = net \cup {send_tcp_segment({"SYN"}, Plus(c.seq, SeqSpace - 1), 0, 0, 0)}
    /\ UNCHANGED <<c, io, pc>> /\ Keep
(* A blocking call waits until its condition holds or the timer runs out;  *)
(* then it sends again, and gives up after the last attempt.               *)
SynTimeout ==
    /\ At("syn_wait") /\ c.st \notin {"ESTABLISHED", "CLOSED"}
    /\ net' = net \cup {send_tcp_segment({"SYN"}, Plus(c.seq, SeqSpace - 1), 0, 0, 0)}
    /\ IF pc.n + 1 < MaxRetries THEN Step("syn_wait", pc.n + 1, 0) /\ UNCHANGED c
       ELSE Go("done") /\ c' = To(c, "CLOSED")
    /\ UNCHANGED io /\ Keep

(* tcp_send.  The request of http_get is one chunk, sent in one call;      *)
(* http_serve sends a header and then, whatever the first call returned,   *)
(* the chunks of the body in a second call.                                *)
Total == IF io.role = "serve" THEN OutLen ELSE 1
NewCall == io.next <= 1
Sending == At("send") /\ io.next < Total

SendChunk ==
    /\ Sending /\ (NewCall => c.st = "ESTABLISHED")
    /\ Transmit({"PSH", "ACK"}, c.seq, io.next + 1, 1)
    /\ Step("send_sent", 0, c.seq)
    /\ UNCHANGED <<c, io>> /\ Keep

(* A call returns before its last chunk was acknowledged: http_get aborts   *)
(* when the result is negative, http_serve goes on.                         *)
CallFails(negative) ==
    IF io.role = "fetch" /\ negative THEN Abort
    ELSE /\ Go(IF io.role = "serve" /\ io.next = 0 THEN "send" ELSE After("send"))
         /\ io' = [io EXCEPT !.next = 1]
         /\ UNCHANGED <<c, net>> /\ Keep

SendRefused == Sending /\ NewCall /\ c.st # "ESTABLISHED" /\ CallFails(TRUE)
SendNoMac == Sending /\ (NewCall => c.st = "ESTABLISHED") /\ CallFails(TRUE)
SendAll ==
    /\ At("send") /\ (io.next = Total \/ io.next = 1)
    /\ Go(After("send"))
    /\ UNCHANGED <<c, io, net>> /\ Keep

CountChunk ==
    /\ At("send_sent")
    /\ c' = [c EXCEPT !.seq = Plus(@, 1)] /\ Step("send_wait", 0, pc.s)
    /\ odd' = odd \cup WrapOdds
    /\ UNCHANGED <<io, net, win, peer>>

ChunkAckedEarly == \* mutant: the acknowledgement of the previous unit suffices
    /\ At("send_wait") /\ c.acked >= pc.s
    /\ io' = [io EXCEPT !.next = @ + 1, !.sent = @ \cup {io.next + 1}]
    /\ Go("send") /\ UNCHANGED <<c, net>> /\ Keep
ChunkAcked ==
    /\ At("send_wait") /\ c.acked >= Plus(pc.s, 1)
    /\ io' = [io EXCEPT !.next = @ + 1, !.sent = @ \cup {io.next + 1}]
    /\ Go("send") /\ UNCHANGED <<c, net>> /\ Keep

ConnectionLost == At("send_wait") /\ c.acked < Plus(pc.s, 1) /\ c.st = "CLOSED" /\ CallFails(TRUE)

SendTimeout ==
    /\ At("send_wait") /\ c.acked < Plus(pc.s, 1) /\ c.st # "CLOSED"
    /\ Transmit({"PSH", "ACK"}, pc.s, io.next + 1, 1)
    /\ Step("send_wait", pc.n + 1, pc.s)
    /\ pc.n < MaxRetries
    /\ UNCHANGED <<c, io>> /\ Keep
SendGivesUp == At("send_wait") /\ pc.n = MaxRetries /\ CallFails(FALSE)

(* http_get reads until the connection ends or nothing comes any more;     *)
(* http_serve stops at the end of the request or when the state changes.   *)
Read ==
    /\ At("read") /\ c.rx # <<>> /\ (io.role = "serve" => c.st = "ESTABLISHED")
    /\ io' = [io EXCEPT !.got = @ \o c.rx]
    /\ c' = [c EXCEPT !.rx = <<>>]
    /\ IF io.role = "serve" /\ Len(io'.got) >= InLen THEN Go(After("read")) ELSE Go("read")
    /\ UNCHANGED net /\ Keep

ReadEnds ==
    /\ At("read")
    /\ Go(IF io.role = "serve" /\ io.got = <<>> THEN "close" ELSE After("read"))
    /\ UNCHANGED <<c, io, net>> /\ Keep

(* tcp_listen and tcp_accept. *)
Listen == At("listen") /\ c' = [c EXCEPT !.rx = <<>>, !.st = "LISTEN"] /\ Go("accept") /\ UNCHANGED <<io, net>> /\ Keep
Accept ==
    /\ At("accept") /\ c.st \in {"ESTABLISHED", "CLOSED"}
    /\ Go(IF c.st = "CLOSED" THEN "done" ELSE After("accept"))
    /\ UNCHANGED <<c, io, net>> /\ Keep
AcceptTimeout == At("accept") /\ c.st \notin {"ESTABLISHED", "CLOSED"} /\ Abort

(* tcp_close. *)
Close == At("close") /\ Go(IF c.st = "LAST_ACK" THEN "last_ack" ELSE "close_open") /\ UNCHANGED <<c, io, net>> /\ Keep
CloseOpen == At("close_open") /\ Go(IF c.st = "ESTABLISHED" THEN "close_state" ELSE "done") /\ UNCHANGED <<c, io, net>> /\ Keep
CloseState == At("close_state") /\ c' = To(c, "FIN_WAIT_1") /\ Go("close_send") /\ UNCHANGED <<io, net>> /\ Keep

SendFin == At("close_send") /\ Transmit({"FIN", "ACK"}, c.seq, 0, 0) /\ Go("close_sent") /\ UNCHANGED <<c, io>> /\ Keep
CountFin == At("close_sent") /\ c' = [c EXCEPT !.seq = Plus(@, 1)] /\ Go("fin_wait")
            /\ odd' = odd \cup WrapOdds /\ UNCHANGED <<io, net, win, peer>>

FinDone ==
    /\ \/ At("fin_wait") /\ c.st \in {"TIME_WAIT", "CLOSED", "LAST_ACK"}
       \/ At("fin2_wait") /\ c.st \in {"TIME_WAIT", "CLOSED"}
       \/ At("last_ack") /\ c.st = "CLOSED"
    /\ c' = To(c, "CLOSED") /\ Go("done") /\ UNCHANGED <<io, net>> /\ Keep

FinHalf == At("fin_wait") /\ c.st = "FIN_WAIT_2" /\ Go("fin2_wait") /\ UNCHANGED <<c, io, net>> /\ Keep

FinTimeout ==
    /\ At("fin_wait") /\ c.st = "FIN_WAIT_1"
    /\ LET again == send_tcp_segment({"FIN", "ACK"}, Plus(c.seq, SeqSpace - 1), c.ack, 0, 0)
       IN IF pc.n + 1 < MaxRetries
          THEN net' = net \cup {again} /\ Step("fin_wait", pc.n + 1, 0) /\ UNCHANGED c
          ELSE net' = net \cup {again} \cup AbortSegs /\ Go("done") /\ c' = To(c, "CLOSED")
    /\ UNCHANGED io /\ Keep

CloseTimeout ==
    \/ At("fin2_wait") /\ c.st = "FIN_WAIT_2" /\ Abort
    \/ At("last_ack") /\ c.st # "CLOSED" /\ Abort

Shell ==
    \/ Connect \/ CountSyn \/ Connected \/ SynTimeout
    \/ SendChunk \/ SendRefused \/ SendNoMac \/ SendAll \/ CountChunk \/ ChunkAcked \/ ConnectionLost
    \/ SendTimeout \/ SendGivesUp \/ Read \/ ReadEnds \/ Listen \/ Accept \/ AcceptTimeout
    \/ Close \/ CloseOpen \/ CloseState \/ SendFin \/ CountFin \/ FinDone \/ FinHalf \/ FinTimeout \/ CloseTimeout

-----------------------------------------------------------------------------
(***************************************************************************)
(* The other host: a TCP that accepts data in order only, keeps to the     *)
(* window this host advertises (always RxBuf), answers a request only when *)
(* it has it, and closes after its last unit or instead of the first.  It  *)
(* sends again what was not acknowledged: its segments stay in net.        *)
(***************************************************************************)
PeerSeq(q) == Plus(PeerIsn, q.nxt + (IF q.fin THEN 1 ELSE 0))
PeerAck(q) == Seg("jex", {"ACK"}, 0, q.rcv, 0, 0)
PeerDoes(q, segs) == Running /\ peer' = q /\ net' = net \cup segs /\ UNCHANGED <<c, pc, io, win, odd>>

PeerOpen ==
    /\ io.role = "serve" /\ peer.st = "closed" /\ c.st = "LISTEN"
    /\ PeerDoes([peer EXCEPT !.st = "syn_sent"], {Seg("jex", {"SYN"}, PeerIsn, 0, 0, 0)})

PeerHandshake ==
    \E m \in net :
        /\ m.to = "peer"
        /\ \/ /\ io.role = "fetch" /\ peer.st = "closed" /\ m.f = {"SYN"}
              /\ PeerDoes([peer EXCEPT !.st = "syn_rcvd", !.rcv = Plus(m.seq, 1)],
                          {Seg("jex", {"SYN", "ACK"}, PeerIsn, Plus(m.seq, 1), 0, 0)})
           \/ /\ peer.st = "syn_sent" /\ m.f = {"SYN", "ACK"}
              /\ LET q == [peer EXCEPT !.st = "est", !.rcv = Plus(m.seq, 1)] IN PeerDoes(q, {PeerAck(q)})

Got(q, m) ==
    LET data == m.seq = q.rcv /\ ~ q.finr /\ m.len > 0
        fin  == Plus(m.seq, m.len) = (IF data THEN Plus(q.rcv, m.len) ELSE q.rcv) /\ ~ q.finr /\ Has(m, "FIN")
    IN [q EXCEPT !.got = IF data THEN Append(@, m.dat) ELSE @,
                 !.rcv = Plus(@, (IF data THEN m.len ELSE 0) + (IF fin THEN 1 ELSE 0)),
                 !.finr = @ \/ fin]

PeerReceive ==
    \E m \in net :
        /\ m.to = "peer" /\ peer.st \in {"syn_rcvd", "est"} /\ Has(m, "ACK") /\ ~ Has(m, "SYN")
        /\ LET units == (m.ack - PeerIsn) - 1
               k == [peer EXCEPT !.st = "est", !.una = IF units > @ /\ units < peer.nxt THEN units ELSE @]
               q == Got(k, m)
           IN PeerDoes(q, IF m.len > 0 \/ Has(m, "FIN") THEN {PeerAck(q)} ELSE {})

PeerSend ==
    \E len \in 1 .. InLen, fin \in BOOLEAN :
        LET next == peer.nxt + len
        IN /\ peer.st = "est" /\ ~ peer.fin /\ (io.role = "fetch" => peer.got # <<>>)
           /\ next - 1 <= InLen /\ next - 1 <= peer.una + RxBuf
           /\ fin => next - 1 = InLen
           /\ PeerDoes([peer EXCEPT !.nxt = next, !.fin = fin],
                       {Seg("jex", {"PSH", "ACK"} \cup (IF fin THEN {"FIN"} ELSE {}),
                            PeerSeq(peer), peer.rcv, peer.nxt, len)})

PeerFin ==
    /\ peer.st = "est" /\ ~ peer.fin /\ peer.nxt \in {1, InLen + 1}
    /\ PeerDoes([peer EXCEPT !.fin = TRUE], {Seg("jex", {"FIN", "ACK"}, PeerSeq(peer), peer.rcv, 0, 0)})

PeerReset ==
    /\ peer.st = "est" /\ peer.nxt = 1 
    /\ PeerDoes([peer EXCEPT !.st = "reset"], {Seg("jex", {"RST"}, 0, 0, 0, 0)})

Peer == PeerOpen \/ PeerHandshake \/ PeerReceive \/ PeerSend \/ PeerFin \/ PeerReset

-----------------------------------------------------------------------------
Init ==
    /\ c = [st |-> "CLOSED", seq |-> 0, ack |-> 0, acked |-> 0, rx |-> <<>>, out |-> {}, more |-> FALSE]
    /\ \E role \in Roles :
          /\ io = [role |-> role, next |-> 0, sent |-> {}, got |-> <<>>]
          /\ pc = [at |-> IF role = "serve" THEN "listen" ELSE "connect", n |-> 0, s |-> 0]
    /\ win = NoSeg /\ net = {} /\ odd = {}
    /\ peer = [st |-> "closed", nxt |-> 1, una |-> 0, rcv |-> 0, got |-> <<>>, fin |-> FALSE, finr |-> FALSE]

Next == Shell \/ Receive \/ ReceiveNested \/ Resume \/ Peer

(* Interrupt handlers return, and between them the shell runs. *)
Spec == Init /\ [][Next]_vars /\ SF_vars(Shell) /\ WF_vars(Resume)

-----------------------------------------------------------------------------
States == {"CLOSED", "SYN_SENT", "ESTABLISHED", "FIN_WAIT_1", "FIN_WAIT_2", "TIME_WAIT",
           "LAST_ACK", "LISTEN", "SYN_RCVD"}
(* The state is one of tcp.h's, counters are sequence numbers, the receive *)
(* buffer is not overrun.                                                  *)
TypeOK ==
    /\ c.st \in States /\ {c.seq, c.ack, c.acked} \subseteq 0 .. SeqSpace - 1
    /\ Len(c.rx) <= RxBuf /\ c.out = {} /\ io.next \in 0 .. OutLen /\ pc.n \in 0 .. MaxRetries
    /\ win # NoSeg => c.more

Positions(n) == [i \in 1 .. n |-> i]

(* What the program has read and what waits in rx_buf is exactly a prefix  *)
(* of what the other host sent, whatever was lost, duplicated or           *)
(* reordered, as long as the buffer does not overflow, no FIN overtakes    *)
(* data and no second handler runs inside the first.                       *)
StreamInOrder ==
    Inside({"overflow", "fin_gap", "nested"}) =>
        io.got \o c.rx = Positions(Len(io.got) + Len(c.rx))

(* Every unit that an ACK of this host has acknowledged was read or is in  *)
(* rx_buf: the other host may forget it.                                   *)
AckedIsKept ==
    Inside({"overflow", "fin_gap", "nested"}) => peer.una <= Len(io.got) + Len(c.rx)

(* A unit that tcp_send reports as sent has reached the other host.        *)
SentIsReceived == Inside({"wrap", "fin_race"}) => io.sent \subseteq Range(peer.got)

(* Every blocking call returns: the program ends, whatever is lost.        *)
ProgramEnds == <>(pc.at = "done" \/ ~ Inside(Halts))
=============================================================================
