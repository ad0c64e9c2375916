-------------------------------- MODULE Net --------------------------------
(***************************************************************************)
(* The network stack below TCP, src/src/drivers/net.c: ARP cache, routing, *)
(* IP, ICMP and UDP dispatch, the DNS resolver, the DHCP client, tcpdump,  *)
(* and the shell commands ping, loopback, dns, dhcp and tcpdump that block *)
(* on them.                                                                *)
(*                                                                         *)
(* k is everything net_process_packet works on.  A frame is handled in one *)
(* step, in the card's interrupt handler or in rtl8139_poll_rx, between    *)
(* any two steps of the shell.  The hosts around are not part of this      *)
(* repository: whatever they answer to a frame is put on the wire at once, *)
(* and from there may arrive late, often, out of order or never.           *)
(***************************************************************************)
EXTENDS Integers, Sequences, FiniteSetsExt

CONSTANTS ArpSize,     \* ARP_CACHE_SIZE
          MaxTries,    \* attempts of net_dns_resolve and dhcp_start (3 in the code)
          XidSpace,    \* transaction IDs are counted modulo XidSpace
          DumpMax,     \* packets asked of tcpdump
          MaxCmds,     \* commands typed
          Commands,    \* the commands typed: subset of {"ping", "loopback", "dns", "dhcp", "tcpdump"}
          PingArgs, LoopArgs, DnsArgs, \* hosts and names given to ping, loopback and dns
          Servers,     \* DHCP servers on the network: subset of {"s1", "s2"}
          Broadcasts,  \* the servers that heed the broadcast flag of the client
          MaxReplies,  \* echo replies counted
          Halts        \* hazards after which a behaviour is not followed further

ASSUME NetAssumption ==
    /\ {ArpSize, MaxTries, XidSpace, DumpMax} \subseteq Nat \ {0} /\ MaxCmds \in Nat
    /\ Commands \subseteq {"ping", "loopback", "dns", "dhcp", "tcpdump"} /\ Servers \subseteq {"s1", "s2"}

VARIABLES k,        \* the stack's own variables
          pc,       \* the shell: its step and locals
          wire,     \* frames that may arrive
          sent,     \* history: frames this host sent
          said,     \* history: results the commands reported
          odd,      \* history: which hazards were met
          cmds      \* commands typed so far

vars == <<k, pc, wire, sent, said, odd, cmds>>
Inside(hazards) == odd \cap hazards = {}

(***************************************************************************)
(* Hosts and frames.  A host's name is also its address and its MAC; far   *)
(* is behind the gateway.  The address of this host is "jex".              *)
(***************************************************************************)
is_local_ip(ip) == ip # "far"
MacOf(ip) == IF ip = "far" THEN "gw" ELSE ip
None == "none"
Payload(xid, kind, who, recs) == [xid |-> xid, kind |-> kind, who |-> who, recs |-> recs]
Empty == Payload(0, "", "", <<>>)
Frame(t, op, src, mac, dst, x) == [t |-> t, op |-> op, src |-> src, mac |-> mac, dst |-> dst, x |-> x]

Names == {"n1", "n2", "toolong"}
AddrOf(name) == IF name = "n1" THEN "peer" ELSE "far"

(* What the other hosts send on their own. *)
Background == {Frame("arp", "request", "peer", "peer", "jex", Empty),
               Frame("ip", "echo", "far", "gw", "jex", Empty)}

(* What the other hosts answer to a frame.  A DHCP server accepts the       *)
(* request that names it, or refuses it.                                    *)
Answer(op, src, x) == Frame("ip", op, src, MacOf(src), "jex", x)
Options(s) == IF s = "s1" THEN <<<<"gateway", "gw">>, <<"sid", s>>>> ELSE <<<<"sid", s>>, <<"dns", "far">>>>
DhcpReply(s, kind, xid) ==
    Frame("ip", "dhcp", s, s, IF s \in Broadcasts THEN "all" ELSE "jex",
          Payload(xid, kind, IF kind = "nak" THEN None ELSE "jex", Options(s)))
Answers(f) ==
    CASE f.op = "request" -> IF is_local_ip(f.dst) /\ f.dst # "jex"
                             THEN {Frame("arp", "reply", f.dst, f.dst, "jex", Empty)} ELSE {}
      [] f.op = "echo" -> IF f.mac = MacOf(f.dst) THEN {Answer("echoreply", f.dst, f.x)} ELSE {}
      [] f.op = "query" -> IF f.mac # MacOf(f.dst) THEN {}
                           ELSE {Answer("dns", f.dst, Payload(f.x.xid, "answer", f.x.who,
                                            <<<<"CNAME", None>>, <<"A", AddrOf(f.x.who)>>>>))}
      [] f.op = "DISCOVER" -> {DhcpReply(s, "offer", f.x.xid) : s \in Servers}
      [] f.op = "REQUEST" -> {DhcpReply(f.x.who, kind, f.x.xid) : kind \in {"ack", "nak"}}
      [] OTHER -> {}

-----------------------------------------------------------------------------
(***************************************************************************)
(* ARP cache and routing.                                                  *)
(***************************************************************************)
Slot(ip, mac) == [ip |-> ip, mac |-> mac, valid |-> TRUE]
Free == [ip |-> None, mac |-> None, valid |-> FALSE]

arp_find(arp, ip) ==
    IF \E i \in 1 .. ArpSize : arp[i].valid /\ arp[i].ip = ip
    THEN Min({i \in 1 .. ArpSize : arp[i].valid /\ arp[i].ip = ip}) ELSE 0

FirstFree(arp) == IF \E i \in 1 .. ArpSize : ~ arp[i].valid THEN Min({i \in 1 .. ArpSize : ~ arp[i].valid}) ELSE 0
Shifted(arp) == [i \in 1 .. ArpSize |-> IF i < ArpSize THEN arp[i + 1] ELSE arp[i]]
PutAt(arp, i, ip, mac) ==
    IF i > 0 THEN [arp EXCEPT ![i] = Slot(ip, mac)] ELSE [Shifted(arp) EXCEPT ![ArpSize] = Slot(ip, mac)]
arp_add(arp, ip, mac) ==
    IF arp_find(arp, ip) > 0 THEN [arp EXCEPT ![arp_find(arp, ip)].mac = mac]
    ELSE PutAt(arp, FirstFree(arp), ip, mac)

NextHopGateway(ip) == k.gateway_ip \* mutant: a local address is sent to the gateway too
NextHop(ip) == IF is_local_ip(ip) THEN ip ELSE k.gateway_ip
(* resolve_mac finds the entry first and copies the MAC out of it later. *)
resolve_mac(ip) == arp_find(k.arp, NextHop(ip))

(***************************************************************************)
(* The receive path, from net_process_packet down, on the state s.  What   *)
(* it sends is collected in s.out.  good: the checksums are right.         *)
(***************************************************************************)
net_send_ether(s, f) == [s EXCEPT !.out = @ \cup {f}]

tcpdump_capture(s, f) ==
    IF ~ s.dump.active \/ Len(s.dump.cap) >= s.dump.max \/ s.dump.filter \notin {"all", f.t} THEN s
    ELSE [s EXCEPT !.dump.cap = Append(@, f.t), !.dump.active = Len(s.dump.cap) + 1 < s.dump.max]

handle_arp(s, f) ==
    LET learnt == [s EXCEPT !.arp = arp_add(s.arp, f.src, f.mac)]
    IN IF f.op = "request" /\ f.dst = s.our_ip
       THEN net_send_ether(learnt, Frame("arp", "reply", s.our_ip, f.mac, f.src, Empty)) ELSE learnt

handle_icmp(s, f) ==
    CASE f.op = "echo" -> net_send_ether(s, Frame("ip", "echoreply", s.our_ip, f.mac, f.src, f.x))
      [] f.op = "echoreply" -> [s EXCEPT !.ping_responses = @ + 1]
      [] OTHER -> s

dns_handler_any(s, f) == [s EXCEPT !.dns.pending = TRUE, !.dns.reply = f.x] \* mutant: the transaction ID is not compared
dns_handler(s, f) ==
    IF f.x.xid = s.dns.xid THEN [s EXCEPT !.dns.pending = TRUE, !.dns.reply = f.x] ELSE s
dhcp_handler(s, f) ==
    IF f.x.xid = s.dhcp.xid THEN [s EXCEPT !.dhcp.pending = TRUE, !.dhcp.reply = f.x] ELSE s

handle_udp(s, f, good) ==
    IF ~ good \/ f.op \notin s.udp THEN s
    ELSE IF f.op = "dns" THEN dns_handler(s, f) ELSE dhcp_handler(s, f)

handle_l4(s, f, good) ==
    IF f.dst # s.our_ip THEN s
    ELSE IF f.op \in {"dns", "dhcp"} THEN handle_udp(s, f, good) ELSE handle_icmp(s, f)
handle_ip(s, f, good) == handle_l4([s EXCEPT !.arp = arp_add(s.arp, f.src, f.mac)], f, good)

net_process_packet(s, f, good) ==
    IF f.t = "arp" THEN handle_arp(tcpdump_capture(s, f), f) ELSE handle_ip(tcpdump_capture(s, f), f, good)


Emit(fs) == sent' = fs /\ wire' = wire \cup UNION {Answers(f) : f \in fs}

(* The hazards the arrival of f meets in the present state. *)
Odds(f, s) ==
    {h \in {"shifted", "offer_as_ack"} :
        CASE h = "shifted"      -> pc.idx > 0 /\ s.arp[pc.idx].ip # k.arp[pc.idx].ip
          [] h = "offer_as_ack" -> pc.at = "dhcp_ack" /\ f.x.kind = "offer" /\ s.dhcp # k.dhcp}

Receive ==
    \E f \in wire, good \in BOOLEAN :
        LET s == net_process_packet(k, f, good)
        IN /\ Inside(Halts)
           /\ f.op \notin {"dns", "dhcp"} => good
           /\ f.op = "echoreply" => k.ping_responses < MaxReplies
           /\ k' = [s EXCEPT !.out = {}]
           /\ Emit(s.out)
           /\ odd' = odd \cup Odds(f, s)
           /\ UNCHANGED <<pc, said, cmds>>

-----------------------------------------------------------------------------
(***************************************************************************)
(* The shell's side: the blocking commands.  Every step ends where another *)
(* frame can arrive.                                                       *)
(***************************************************************************)
Idle == [at |-> "idle", cmd |-> None, arg |-> None, n |-> 1, left |-> 0, again |-> FALSE, idx |-> 0,
         before |-> 0, seq |-> 0, ip |-> None, sid |-> None, asked |-> FALSE]
At(step) == pc.at = step /\ Inside(Halts)
Goto(next) == pc' = next
To(p, step) == [p EXCEPT !.at = step]
Quiet == UNCHANGED <<wire, odd, cmds>> /\ sent' = {}
Say(results) == said' = results
Result(cmd, about, got) == {[cmd |-> cmd, about |-> about, got |-> got]}
Send(f) == Emit({f}) /\ UNCHANGED <<odd, cmds>>
First(recs, tag) == IF \E i \in 1 .. Len(recs) : recs[i][1] = tag
                    THEN recs[Min({i \in 1 .. Len(recs) : recs[i][1] = tag})][2] ELSE None

ArpRequest(ip) == Frame("arp", "request", k.our_ip, "all", ip, Empty)

(***************************************************************************)
(* ping and loopback.                                                      *)
(***************************************************************************)
PingStart ==
    /\ At("ping") /\ Goto([To(pc, "ping_find") EXCEPT !.before = k.ping_responses, !.seq = k.icmp_seq, !.again = FALSE])
    /\ Quiet /\ UNCHANGED <<k, said>>

(* ping gives up; loopback goes on with its next request. *)
PingNext(p) == IF p.cmd = "loopback" /\ p.left > 1 THEN [To(p, "ping") EXCEPT !.left = @ - 1, !.idx = 0] ELSE Idle

PingFind ==
    /\ At("ping_find") /\ UNCHANGED <<k, said>>
    /\ \/ resolve_mac(pc.arg) > 0 /\ Goto([To(pc, "ping_send") EXCEPT !.idx = resolve_mac(pc.arg)]) /\ Quiet
       \/ /\ resolve_mac(pc.arg) = 0
          /\ Send(ArpRequest(NextHop(pc.arg)))
          /\ Goto(IF pc.again THEN PingNext(pc) ELSE To(pc, "ping_arp"))

PingSend ==
    /\ At("ping_send") /\ Goto([To(pc, "ping_wait") EXCEPT !.idx = 0])
    /\ k' = [k EXCEPT !.icmp_seq = @ + 1]
    /\ Send(Frame("ip", "echo", k.our_ip, k.arp[pc.idx].mac, pc.arg, Payload(k.icmp_seq, "", "", <<>>)))
    /\ UNCHANGED said

PingArp ==
    /\ At("ping_arp") /\ UNCHANGED <<k, said>> /\ Quiet
    /\ Goto(IF resolve_mac(pc.arg) > 0 THEN [To(pc, "ping_find") EXCEPT !.again = TRUE] ELSE PingNext(pc))

PingWait ==
    /\ At("ping_wait") /\ Goto(PingNext(pc)) /\ UNCHANGED k /\ Quiet
    /\ Say(IF k.ping_responses <= pc.before THEN {} ELSE Result("ping", pc.arg, "reply"))

(***************************************************************************)
(* net_dns_resolve, for the command dns and for a host name given to ping  *)
(* or loopback.                                                            *)
(***************************************************************************)
(* The stored reply is not read again before another one has replaced it.   *)
Forget(slot) == [slot EXCEPT !.reply = Empty]
Unregister(port) == [k EXCEPT !.udp = @ \ {port}, !.dns = Forget(@), !.dhcp = Forget(@)]

DnsResult(addr) ==
    IF pc.cmd = "dns" THEN Idle
    ELSE IF addr # None THEN [To(pc, "ping") EXCEPT !.arg = addr, !.n = 1, !.again = FALSE]
    ELSE IF pc.cmd = "loopback" THEN [To(pc, "ping") EXCEPT !.arg = "gw", !.n = 1, !.again = FALSE] ELSE Idle
DnsRetryUncounted == IF pc.n < MaxTries THEN To(pc, "dns_try") ELSE DnsResult(None) \* mutant: a failed attempt is not counted
DnsRetry == IF pc.n < MaxTries THEN [To(pc, "dns_try") EXCEPT !.n = @ + 1] ELSE DnsResult(None)

DnsStart ==
    /\ At("dns") /\ k' = [k EXCEPT !.dns.xid = (@ + 1) % XidSpace]
    /\ Goto(IF pc.arg = "toolong" THEN DnsResult(None) ELSE To(pc, "dns_try"))
    /\ Quiet /\ UNCHANGED said

DnsTry ==
    /\ At("dns_try") /\ k' = [k EXCEPT !.dns.pending = FALSE, !.udp = @ \cup {"dns"}]
    /\ Goto([To(pc, "dns_find") EXCEPT !.again = FALSE]) /\ Quiet /\ UNCHANGED said

DnsFind ==
    /\ At("dns_find") /\ UNCHANGED said
    /\ \/ /\ resolve_mac(k.dns_server) > 0
          /\ Goto([To(pc, "dns_send") EXCEPT !.idx = resolve_mac(k.dns_server)]) /\ Quiet /\ UNCHANGED k
       \/ /\ resolve_mac(k.dns_server) = 0 /\ ~ pc.again
          /\ Send(ArpRequest(k.dns_server)) /\ Goto(To(pc, "dns_arp")) /\ UNCHANGED k
       \/ /\ resolve_mac(k.dns_server) = 0 /\ pc.again
          /\ k' = Unregister("dns") /\ Goto(DnsRetry) /\ Quiet

DnsArp ==
    /\ At("dns_arp") /\ UNCHANGED said /\ Quiet
    /\ \/ /\ arp_find(k.arp, k.dns_server) > 0 /\ k' = [k EXCEPT !.dns.pending = FALSE]
          /\ Goto([To(pc, "dns_find") EXCEPT !.again = TRUE])
       \/ arp_find(k.arp, k.dns_server) = 0 /\ k' = Unregister("dns") /\ Goto(DnsRetry)

DnsSend ==
    /\ At("dns_send") /\ Goto([To(pc, "dns_wait") EXCEPT !.idx = 0]) /\ UNCHANGED <<k, said>>
    /\ Send(Frame("ip", "query", k.our_ip, k.arp[pc.idx].mac, k.dns_server, Payload(k.dns.xid, "", pc.arg, <<>>)))

dns_parse_response(reply) == First(reply.recs, "A")

DnsWait ==
    /\ At("dns_wait") /\ k' = Unregister("dns") /\ Quiet
    /\ \/ /\ k.dns.pending /\ Goto(DnsResult(dns_parse_response(k.dns.reply)))
          /\ Say(Result("dns", pc.arg, dns_parse_response(k.dns.reply)))
       \/ ~ k.dns.pending /\ Goto(DnsRetry) /\ UNCHANGED said

(***************************************************************************)
(* dhcp_start.                                                             *)
(***************************************************************************)
dhcp_find_option(reply, tag) == First(reply.recs, tag)

DhcpEnd(result) == k' = Unregister("dhcp") /\ Goto(Idle) /\ Say(result)
DhcpRetry ==
    \/ pc.n < MaxTries /\ UNCHANGED <<k, said>> /\ Goto([To(pc, "dhcp_reset") EXCEPT !.n = @ + 1])
    \/ pc.n = MaxTries /\ DhcpEnd(Result("dhcp", None, IF pc.asked THEN "no ack" ELSE "no server"))

DhcpStart ==
    /\ At("dhcp") /\ k' = [k EXCEPT !.udp = @ \cup {"dhcp"}] /\ Goto(To(pc, "dhcp_reset")) /\ Quiet /\ UNCHANGED said

DhcpReset ==
    /\ At("dhcp_reset") /\ k' = [k EXCEPT !.dhcp.pending = FALSE] /\ Goto(To(pc, "dhcp_discover"))
    /\ Quiet /\ UNCHANGED said

DhcpDiscover ==
    LET xid == (k.dhcp.xid + 1) % XidSpace
    IN /\ At("dhcp_discover") /\ k' = [k EXCEPT !.dhcp.xid = xid] /\ Goto(To(pc, "dhcp_offer"))
       /\ Send(Frame("ip", "DISCOVER", None, "all", "all", Payload(xid, "", "", <<>>))) /\ UNCHANGED said

DhcpOffer ==
    /\ At("dhcp_offer") /\ Quiet
    /\ \/ /\ k.dhcp.pending /\ k' = [k EXCEPT !.dhcp.pending = FALSE]
          /\ Goto([To(pc, "dhcp_sid") EXCEPT !.ip = k.dhcp.reply.who]) /\ UNCHANGED said
       \/ ~ k.dhcp.pending /\ DhcpRetry

DhcpServerId ==
    LET sid == dhcp_find_option(k.dhcp.reply, "sid")
    IN /\ At("dhcp_sid") /\ Quiet
       /\ \/ sid # None /\ pc.ip # None /\ Goto([To(pc, "dhcp_request") EXCEPT !.sid = sid]) /\ UNCHANGED <<k, said>>
          \/ ~ (sid # None /\ pc.ip # None) /\ DhcpRetry

DhcpRequest ==
    /\ At("dhcp_request") /\ k' = [k EXCEPT !.dhcp.pending = FALSE] /\ Goto([To(pc, "dhcp_ack") EXCEPT !.asked = TRUE])
    /\ Send(Frame("ip", "REQUEST", None, "all", "all", Payload(k.dhcp.xid, pc.ip, pc.sid, <<>>))) /\ UNCHANGED said

Configured(reply) ==
    [Unregister("dhcp") EXCEPT !.our_ip = reply.who,
              !.gateway_ip = IF dhcp_find_option(reply, "gateway") = None THEN reply.who ELSE dhcp_find_option(reply, "gateway"),
              !.dns_server = IF dhcp_find_option(reply, "dns") = None THEN @ ELSE dhcp_find_option(reply, "dns")]

DhcpAckAny == \* mutant: a refusal is not recognised
    /\ At("dhcp_ack") /\ Quiet
    /\ \/ /\ k.dhcp.pending /\ k' = Configured(k.dhcp.reply) /\ Goto(Idle)
          /\ Say(Result("dhcp", dhcp_find_option(k.dhcp.reply, "sid"), k.dhcp.reply.kind))
       \/ ~ k.dhcp.pending /\ DhcpRetry
DhcpAck ==
    /\ At("dhcp_ack") /\ Quiet
    /\ \/ /\ k.dhcp.pending /\ k.dhcp.reply.who # None
          /\ k' = Configured(k.dhcp.reply) /\ Goto(Idle)
          /\ Say(Result("dhcp", dhcp_find_option(k.dhcp.reply, "sid"), k.dhcp.reply.kind))
       \/ ~ (k.dhcp.pending /\ k.dhcp.reply.who # None) /\ DhcpRetry

(***************************************************************************)
(* tcpdump.  Nothing stops a capture that ran out of time with no packet.  *)
(***************************************************************************)
DumpStart ==
    /\ At("tcpdump") /\ k' = [k EXCEPT !.dump.cap = <<>>] /\ Goto(To(pc, "dump_arm")) /\ Quiet /\ UNCHANGED said

DumpArm ==
    /\ At("dump_arm") /\ k' = [k EXCEPT !.dump.max = DumpMax, !.dump.filter = pc.arg, !.dump.active = TRUE]
    /\ Goto(To(pc, "dump_wait")) /\ Quiet /\ UNCHANGED said

tcpdump_print == [k EXCEPT !.dump.cap = <<>>, !.dump.active = FALSE]
DumpWait ==
    /\ At("dump_wait") /\ Goto(Idle) /\ Quiet
    /\ \/ k.dump.cap = <<>> /\ UNCHANGED <<k, said>>
       \/ /\ k.dump.cap # <<>> /\ k' = tcpdump_print
          /\ Say(Result("tcpdump", pc.arg, IF pc.arg = "all" \/ Range(k.dump.cap) \subseteq {pc.arg} THEN "match" ELSE "other"))

-----------------------------------------------------------------------------
(* A host name is resolved first; an address is pinged at once. *)
Begin(cmd, arg) ==
    [Idle EXCEPT !.cmd = cmd, !.arg = arg, !.left = 2,
                 !.at = IF cmd \in {"ping", "loopback"} THEN (IF arg \in Names THEN "dns" ELSE "ping") ELSE cmd]
Arguments(cmd) ==
    CASE cmd = "ping" -> PingArgs
      [] cmd = "loopback" -> LoopArgs
      [] cmd = "dns" -> DnsArgs
      [] cmd = "dhcp" -> {None}
      [] OTHER -> {"all", "arp"}

(* Bound: of the answers to earlier commands, those this one can mistake    *)
(* for its own may still arrive; the others could only refresh the cache.   *)
MayBeLate(cmd) ==
    CASE cmd \in {"ping", "loopback"} -> {"echoreply", "dns"} [] cmd = "dns" -> {"dns"} [] OTHER -> {}

Command(cmd) ==
    \E arg \in Arguments(cmd) :
        /\ At("idle") /\ cmds < MaxCmds /\ cmds' = cmds + 1
        /\ cmd = "dhcp" => k.dhcp.xid = 0 \* bound: typed once, its attempts follow each other
        /\ Goto(Begin(cmd, arg)) /\ Say({})
        /\ UNCHANGED <<k, odd>> /\ sent' = {}
        /\ wire' = Background \cup {f \in wire : f.op \in MayBeLate(cmd)}

net_init ==
    [arp |-> [i \in 1 .. ArpSize |-> Free], udp |-> {}, our_ip |-> "jex", gateway_ip |-> "gw", dns_server |-> "dns",
     ping_responses |-> 0, icmp_seq |-> 0, out |-> {},
     dns |-> [pending |-> FALSE, xid |-> 0, reply |-> Empty], dhcp |-> [pending |-> FALSE, xid |-> 0, reply |-> Empty],
     dump |-> [active |-> FALSE, cap |-> <<>>, max |-> 0, filter |-> "all"]]

Init == k = net_init /\ pc = Idle /\ wire = Background /\ sent = {} /\ said = {} /\ odd = {} /\ cmds = 0

Shell ==
    \/ PingStart \/ PingFind \/ PingSend \/ PingArp \/ PingWait
    \/ DnsStart \/ DnsTry \/ DnsFind \/ DnsArp \/ DnsSend \/ DnsWait
    \/ DhcpStart \/ DhcpReset \/ DhcpDiscover \/ DhcpOffer \/ DhcpServerId \/ DhcpRequest \/ DhcpAck
    \/ DumpStart \/ DumpArm \/ DumpWait
Next == Receive \/ Shell \/ \E cmd \in Commands : Command(cmd)

(* A waiting command polls and sleeps a bounded number of times, and the    *)
(* interrupt handler always returns to it.                                  *)
Spec == Init /\ [][Next]_vars /\ WF_vars(Shell)

-----------------------------------------------------------------------------
(* Type invariant: the shapes of the cache, the handler table, the pending  *)
(* slots and the shell's locals.                                            *)
Addresses == {None, "jex", "gw", "dns", "peer", "far", "s1", "s2"}
TypeOK ==
    /\ k.arp \in [1 .. ArpSize -> [ip : Addresses, mac : Addresses, valid : BOOLEAN]]
    /\ k.udp \subseteq {"dns", "dhcp"} /\ {k.our_ip, k.gateway_ip, k.dns_server} \subseteq Addresses
    /\ {k.dns.xid, k.dhcp.xid} \subseteq 0 .. XidSpace - 1 /\ {k.dns.pending, k.dhcp.pending, k.dump.active} \subseteq BOOLEAN
    /\ pc.n \in 1 .. MaxTries /\ pc.idx \in 0 .. ArpSize /\ pc.left \in 0 .. 2 /\ Len(k.dump.cap) <= DumpMax
    /\ cmds \in 0 .. MaxCmds

(* A unicast frame is addressed to the MAC of its next hop, although        *)
(* resolve_mac looks the entry up and copies it with frames arriving in     *)
(* between.  Not so when an eviction shifts the cache just then.            *)
FramesReachNextHop == Inside({"shifted"}) => \A f \in sent : f.mac \in {"all", MacOf(f.dst)}

(* The address net_dns_resolve returns is one the server gave for that      *)
(* name: the transaction ID keeps late answers to an earlier name, or to an *)
(* earlier attempt, apart.                                                  *)
DnsAnswersTheName == \A r \in said : r.cmd = "dns" => r.got = AddrOf(r.about)

(* dhcp_start configures the host only from a reply with which a server     *)
(* confirmed the lease, and never from a refusal.  Not so when a second     *)
(* offer arrives after the request: the type of a reply is not looked at.   *)
LeaseIsConfirmed ==
    /\ Inside({"offer_as_ack"}) => \A r \in said : r.cmd = "dhcp" => r.got \in {"ack", "no ack", "no server"}
    /\ \A r \in said : r.cmd = "dhcp" => r.got # "nak"

(* Every command comes back to the prompt, whatever is lost or arrives.     *)
CommandsEnd == pc.at # "idle" ~> (pc.at = "idle" \/ ~ Inside(Halts))

=============================================================================
