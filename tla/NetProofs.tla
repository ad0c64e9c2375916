----------------------------- MODULE NetProofs -----------------------------
(***************************************************************************)
(* The network stack below TCP, for every size of the ARP cache, every     *)
(* number of attempts and of commands, and whatever arrives late, twice,   *)
(* out of order or never: a lease is only taken from a server's            *)
(* confirmation, a unicast frame goes to its next hop, and a name gets the *)
(* address the server gave for it.                                         *)
(***************************************************************************)
EXTENDS Net, WellFoundedInduction, TLAPS

-----------------------------------------------------------------------------
(* The least element of a set of numbers *)

LEMMA LeastNat ==
    ASSUME NEW S \in SUBSET Nat, S # {}
    PROVE  \E n \in S : \A m \in S : n <= m
  <1> DEFINE R == OpToRel(<, Nat)
  <1>1. IsWellFoundedOn(R, Nat)
    BY NatLessThanWellFounded, Zenon
  <1>2. PICK n \in S : \A m \in S : ~(<<m, n>> \in R)
    <2> HIDE DEF R
    <2> QED
      BY <1>1, WFMin, Zenon
  <1>3. \A m \in S : ~(m < n)
    BY <1>2, Zenon DEF OpToRel
  <1> QED
    BY <1>3

(* The search loops of the stack stop at the first match: Min is reached.   *)
LEMMA MinIn ==
    ASSUME NEW S \in SUBSET Nat, S # {}
    PROVE  Min(S) \in S /\ \A y \in S : Min(S) <= y
  <1>1. \E x \in S : \A y \in S : x =< y
    BY LeastNat
  <1> QED
    BY <1>1, Zenon DEF Min

-----------------------------------------------------------------------------
(* The ARP cache *)

(* arp_find returns a valid entry for the address, or says there is none.   *)
LEMMA FindSound ==
    ASSUME NEW arp, NEW ip
    PROVE  /\ arp_find(arp, ip) \in 0..ArpSize
           /\ arp_find(arp, ip) > 0 => /\ arp[arp_find(arp, ip)].valid
                                       /\ arp[arp_find(arp, ip)].ip = ip
  <1> DEFINE S == {i \in 1..ArpSize : arp[i].valid /\ arp[i].ip = ip}
  <1>1. CASE S # {}
    <2>1. Min(S) \in S
      BY <1>1, MinIn, NetAssumption
    <2>2. arp_find(arp, ip) = Min(S)
      BY <1>1, Zenon DEF arp_find
    <2> QED
      BY <2>1, <2>2, NetAssumption
  <1>2. CASE S = {}
    <2>1. arp_find(arp, ip) = 0
      BY <1>2, Zenon DEF arp_find
    <2> QED
      BY <2>1, NetAssumption
  <1> QED
    BY <1>1, <1>2

(* FirstFree is an unused entry; there is none only when all are valid.     *)
LEMMA FirstFreeSound ==
    ASSUME NEW arp
    PROVE  /\ FirstFree(arp) \in 0..ArpSize
           /\ FirstFree(arp) = 0 => \A i \in 1..ArpSize : arp[i].valid
  <1> DEFINE S == {i \in 1..ArpSize : ~arp[i].valid}
  <1>1. CASE S # {}
    <2>1. Min(S) \in S
      BY <1>1, MinIn, NetAssumption
    <2>2. FirstFree(arp) = Min(S)
      BY <1>1, Zenon DEF FirstFree
    <2> QED
      BY <2>1, <2>2, NetAssumption
  <1>2. CASE S = {}
    <2>1. FirstFree(arp) = 0
      BY <1>2, Zenon DEF FirstFree
    <2> QED
      BY <1>2, <2>1, NetAssumption
  <1> QED
    BY <1>1, <1>2

(* Entries as arp_add leaves them: the MAC is the one of the address or of  *)
(* its gateway, and this host is not among them.                            *)
Cache(arp) ==
    /\ DOMAIN arp = 1..ArpSize
    /\ \A i \in 1..ArpSize : /\ DOMAIN arp[i] = {"ip", "mac", "valid"}
                             /\ arp[i].valid => arp[i].mac = MacOf(arp[i].ip) /\ arp[i].ip # "jex"

LEMMA AddSound ==
    ASSUME NEW arp, Cache(arp), NEW ip, NEW mac, mac = MacOf(ip), ip # "jex"
    PROVE  /\ Cache(arp_add(arp, ip, mac))
           /\ \A i \in 1..ArpSize : arp[i].valid => arp_add(arp, ip, mac)[i].valid
  <1> DEFINE new == arp_add(arp, ip, mac)
             j == arp_find(arp, ip)
             q == FirstFree(arp)
             slot == Slot(ip, mac)
  <1>0. ArpSize \in Nat \ {0}
    BY NetAssumption
  <1>1. DOMAIN slot = {"ip", "mac", "valid"} /\ slot.valid /\ slot.ip = ip /\ slot.mac = mac
    BY DEF Slot
  <1>2. CASE j > 0
    <2>1. j \in 1..ArpSize /\ arp[j].valid /\ arp[j].ip = ip
      BY <1>0, <1>2, FindSound
    <2>2. new = [arp EXCEPT ![j].mac = mac]
      BY <1>2, Zenon DEF arp_add
    <2> HIDE DEF new, j
    <2>3. /\ DOMAIN new = 1..ArpSize
          /\ \A i \in 1..ArpSize : i # j => new[i] = arp[i]
          /\ new[j] = [arp[j] EXCEPT !.mac = mac]
      BY <2>1, <2>2, Zenon DEF Cache
    <2>4. /\ DOMAIN new[j] = {"ip", "mac", "valid"} /\ new[j].mac = mac /\ new[j].ip = ip
          /\ new[j].valid
      BY <2>1, <2>3 DEF Cache
    <2> QED
      BY <2>1, <2>3, <2>4 DEF new, Cache
  <1>3. CASE ~(j > 0) /\ q > 0
    <2>1. q \in 1..ArpSize
      BY <1>0, <1>3, FirstFreeSound
    <2>2. new = [arp EXCEPT ![q] = slot]
      BY <1>3, Zenon DEF arp_add, PutAt
    <2> HIDE DEF new, j, q, slot
    <2>3. /\ DOMAIN new = 1..ArpSize
          /\ \A i \in 1..ArpSize : i # q => new[i] = arp[i]
          /\ new[q] = slot
      BY <2>1, <2>2, Zenon DEF Cache
    <2> QED
      BY <1>1, <2>1, <2>3 DEF new, Cache
  <1>4. CASE ~(j > 0) /\ ~(q > 0)
    <2>1. q = 0 /\ \A i \in 1..ArpSize : arp[i].valid
      BY <1>0, <1>4, FirstFreeSound
    <2>2. new = [Shifted(arp) EXCEPT ![ArpSize] = slot]
      BY <1>4, Zenon DEF arp_add, PutAt
    <2> HIDE DEF new, j, q, slot
    <2>3. /\ DOMAIN new = 1..ArpSize /\ new[ArpSize] = slot
          /\ \A i \in 1..ArpSize : i # ArpSize => i + 1 \in 1..ArpSize /\ new[i] = arp[i + 1]
      BY <1>0, <2>2 DEF Shifted
    <2> QED
      BY <1>1, <2>1, <2>3 DEF new, Cache
  <1> QED
    BY <1>2, <1>3, <1>4

-----------------------------------------------------------------------------
(* The receive path *)

KFields == {"arp", "udp", "our_ip", "gateway_ip", "dns_server", "ping_responses",
            "icmp_seq", "out", "dns", "dhcp", "dump"}
SlotFields == {"pending", "xid", "reply"}
PcFields == {"at", "cmd", "arg", "n", "left", "again", "idx", "before", "seq", "ip", "sid",
             "asked"}

Stack(s) == DOMAIN s = KFields /\ DOMAIN s.dns = SlotFields /\ DOMAIN s.dhcp = SlotFields

(* The fields no arriving frame changes.                                    *)
SameConfig(r, s) ==
    r.our_ip = s.our_ip /\ r.gateway_ip = s.gateway_ip /\ r.dns_server = s.dns_server

(* A slot is left alone, or filled with f where f carries its number.       *)
Filled(new, old, f) ==
    \/ new = old
    \/ /\ f.x.xid = old.xid
       /\ new.pending = TRUE /\ new.xid = old.xid /\ new.reply = f.x

LEMMA CaptureSound ==
    ASSUME NEW s, Stack(s), NEW f
    PROVE  LET r == tcpdump_capture(s, f)
           IN  /\ Stack(r) /\ SameConfig(r, s)
               /\ r.arp = s.arp /\ r.dns = s.dns /\ r.dhcp = s.dhcp /\ r.out = s.out
  BY DEF tcpdump_capture, Stack, KFields, SameConfig

LEMMA ArpSound ==
    ASSUME NEW s, Stack(s), NEW f
    PROVE  LET r == handle_arp(s, f)
           IN  /\ Stack(r) /\ SameConfig(r, s)
               /\ r.arp = arp_add(s.arp, f.src, f.mac)
               /\ r.dns = s.dns /\ r.dhcp = s.dhcp
               /\ r.out \subseteq s.out \cup {Frame("arp", "reply", s.our_ip, f.mac, f.src, Empty)}
  <1> DEFINE learnt == [s EXCEPT !.arp = arp_add(s.arp, f.src, f.mac)]
  <1>1. /\ Stack(learnt) /\ SameConfig(learnt, s)
        /\ learnt.arp = arp_add(s.arp, f.src, f.mac)
        /\ learnt.dns = s.dns /\ learnt.dhcp = s.dhcp /\ learnt.out = s.out
    BY DEF Stack, KFields, SameConfig
  <1>2. \/ handle_arp(s, f) = learnt
        \/ handle_arp(s, f)
             = [learnt EXCEPT !.out = @ \cup {Frame("arp", "reply", s.our_ip, f.mac, f.src, Empty)}]
    BY Zenon DEF handle_arp, net_send_ether
  <1> HIDE DEF learnt
  <1> QED
    BY <1>1, <1>2 DEF Stack, KFields, SameConfig

(* What handling f may do to s, its ARP cache aside.                        *)
Replies(s, f) == {Frame("arp", "reply", s.our_ip, f.mac, f.src, Empty),
                  Frame("ip", "echoreply", s.our_ip, f.mac, f.src, f.x)}
Handled(r, s, f) ==
    /\ Stack(r) /\ SameConfig(r, s)
    /\ Filled(r.dns, s.dns, f) /\ (f.op # "dns" => r.dns = s.dns)
    /\ Filled(r.dhcp, s.dhcp, f) /\ (f.op # "dhcp" => r.dhcp = s.dhcp)
    /\ r.out \subseteq s.out \cup Replies(s, f)

LEMMA L4Sound ==
    ASSUME NEW s, Stack(s), NEW f, NEW good
    PROVE  /\ Handled(handle_l4(s, f, good), s, f)
           /\ handle_l4(s, f, good).arp = s.arp
  <1> DEFINE Good(r) == Handled(r, s, f) /\ r.arp = s.arp
             echo == Frame("ip", "echoreply", s.our_ip, f.mac, f.src, f.x)
  <1>1. Good(s)
    BY Zenon DEF Handled, SameConfig, Filled
  <1>2. Good([s EXCEPT !.out = @ \cup {echo}])
    <2>1. echo \in Replies(s, f)
      BY Zenon DEF Replies
    <2> HIDE DEF echo
    <2> QED
      BY <2>1 DEF Handled, Stack, KFields, SameConfig, Filled
  <1>3. Good([s EXCEPT !.ping_responses = @ + 1])
    BY DEF Handled, Stack, KFields, SameConfig, Filled
  <1>4. ASSUME f.op = "dns", f.x.xid = s.dns.xid
        PROVE  Good([s EXCEPT !.dns.pending = TRUE, !.dns.reply = f.x])
    BY <1>4, Zenon DEF Handled, Stack, KFields, SlotFields, SameConfig, Filled
  <1>5. ASSUME f.op = "dhcp", f.x.xid = s.dhcp.xid
        PROVE  Good([s EXCEPT !.dhcp.pending = TRUE, !.dhcp.reply = f.x])
    BY <1>5, Zenon DEF Handled, Stack, KFields, SlotFields, SameConfig, Filled
  <1> HIDE DEF Good
  <1>6. CASE f.dst # s.our_ip
    <2>1. handle_l4(s, f, good) = s
      BY <1>6 DEF handle_l4
    <2> QED
      BY <1>1, <2>1 DEF Good
  <1>7. CASE f.dst = s.our_ip /\ f.op \in {"dns", "dhcp"}
    <2>1. handle_l4(s, f, good) = handle_udp(s, f, good)
      BY <1>7 DEF handle_l4
    <2>2. \/ handle_udp(s, f, good) = s
          \/ f.op = "dns" /\ handle_udp(s, f, good) = dns_handler(s, f)
          \/ f.op = "dhcp" /\ handle_udp(s, f, good) = dhcp_handler(s, f)
      BY <1>7 DEF handle_udp
    <2>3. f.op = "dns" => Good(dns_handler(s, f))
      BY <1>1, <1>4, Zenon DEF dns_handler
    <2>4. f.op = "dhcp" => Good(dhcp_handler(s, f))
      BY <1>1, <1>5, Zenon DEF dhcp_handler
    <2>5. Good(handle_l4(s, f, good))
      BY <1>1, <2>1, <2>2, <2>3, <2>4, Zenon
    <2> QED
      BY <2>5 DEF Good
  <1>8. CASE f.dst = s.our_ip /\ f.op \notin {"dns", "dhcp"}
    <2>1. handle_l4(s, f, good) = handle_icmp(s, f)
      BY <1>8 DEF handle_l4
    <2>2. \/ handle_icmp(s, f) = s
          \/ handle_icmp(s, f) = [s EXCEPT !.out = @ \cup {echo}]
          \/ handle_icmp(s, f) = [s EXCEPT !.ping_responses = @ + 1]
      BY DEF handle_icmp, net_send_ether
    <2>3. Good(handle_l4(s, f, good))
      BY <1>1, <1>2, <1>3, <2>1, <2>2, Zenon
    <2> QED
      BY <2>3 DEF Good
  <1> QED
    BY <1>6, <1>7, <1>8

(* What one frame does to the stack: its sender is learnt, at most one slot *)
(* is filled, and at most an ARP or an echo reply goes out to the sender.   *)
LEMMA ProcessSound ==
    ASSUME NEW s, Stack(s), NEW f, NEW good
    PROVE  /\ Handled(net_process_packet(s, f, good), s, f)
           /\ net_process_packet(s, f, good).arp = arp_add(s.arp, f.src, f.mac)
  <1> DEFINE c == tcpdump_capture(s, f)
             a == [c EXCEPT !.arp = arp_add(c.arp, f.src, f.mac)]
             r == net_process_packet(s, f, good)
  <1>1. /\ Stack(c) /\ SameConfig(c, s)
        /\ c.arp = s.arp /\ c.dns = s.dns /\ c.dhcp = s.dhcp /\ c.out = s.out
    BY CaptureSound
  <1>2. r = handle_arp(c, f) \/ r = handle_l4(a, f, good)
    BY Zenon DEF net_process_packet, handle_ip
  <1> HIDE DEF c, r
  <1>3. CASE r = handle_arp(c, f)
    <2>1. /\ Stack(r) /\ SameConfig(r, c)
          /\ r.arp = arp_add(c.arp, f.src, f.mac)
          /\ r.dns = c.dns /\ r.dhcp = c.dhcp
          /\ r.out \subseteq c.out \cup {Frame("arp", "reply", c.our_ip, f.mac, f.src, Empty)}
      BY <1>1, <1>3, ArpSound, Zenon
    <2>2. Handled(r, s, f)
      BY <1>1, <2>1, Zenon DEF Handled, SameConfig, Filled, Replies
    <2> QED
      BY <1>1, <2>1, <2>2, Zenon DEF r
  <1>4. CASE r = handle_l4(a, f, good)
    <2>1. /\ Stack(a) /\ SameConfig(a, c) /\ a.arp = arp_add(c.arp, f.src, f.mac)
          /\ a.dns = c.dns /\ a.dhcp = c.dhcp /\ a.out = c.out
      BY <1>1 DEF Stack, KFields, SameConfig
    <2> HIDE DEF a
    <2>2. Handled(r, a, f) /\ r.arp = a.arp
      BY <1>4, <2>1, L4Sound
    <2>3. Handled(r, s, f)
      BY <1>1, <2>1, <2>2, Zenon DEF Handled, SameConfig, Replies
    <2> QED
      BY <1>1, <2>1, <2>2, <2>3, Zenon DEF r
  <1> QED
    BY <1>2, <1>3, <1>4

-----------------------------------------------------------------------------
(* The steps of the shell *)

Shape == Stack(k) /\ k.out = {} /\ DOMAIN pc = PcFields

(* What a step sends is answered at once; nothing else reaches the wire.    *)
WireGrows == wire' = wire \cup UNION {Answers(f) : f \in sent'}
ShellStep == Shape' /\ WireGrows /\ odd' = odd /\ cmds' = cmds

(* The fields ping and tcpdump do not touch.                                *)
SameStack == SameConfig(k', k) /\ k'.arp = k.arp /\ k'.dns = k.dns /\ k'.dhcp = k.dhcp

LEMMA QuietGrows ==
    ASSUME Quiet
    PROVE  WireGrows /\ odd' = odd /\ cmds' = cmds /\ sent' = {}
  BY DEF Quiet, WireGrows

LEMMA SendGrows ==
    ASSUME NEW f, Send(f)
    PROVE  WireGrows /\ odd' = odd /\ cmds' = cmds /\ sent' = {f}
  BY DEF Send, Emit, WireGrows

LEMMA SameShape ==
    ASSUME Shape, k' = k, DOMAIN pc' = PcFields
    PROVE  Shape' /\ SameStack
  BY DEF Shape, SameStack, SameConfig

(* Where ping and loopback go on after a request.                           *)
LEMMA PingNextSound ==
    ASSUME NEW p, DOMAIN p = PcFields
    PROVE  LET q == PingNext(p)
           IN  DOMAIN q = PcFields /\ q.at \in {"ping", "idle"} /\ q.idx = 0
  BY DEF PingNext, PcFields, To, Idle

PingSteps == {"idle", "ping", "ping_find", "ping_send", "ping_arp", "ping_wait"}

(* The steps of ping: it finds the entry of the next hop, and sends with    *)
(* the MAC that is in the entry by then.                                    *)
LEMMA PingEffect ==
    ASSUME Shape, PingStart \/ PingFind \/ PingSend \/ PingArp \/ PingWait
    PROVE  /\ ShellStep /\ SameStack
           /\ pc'.at \in PingSteps
           /\ pc'.at # "ping_send" => pc'.idx \in {0, pc.idx}
           /\ pc'.at = "ping_send" => /\ pc'.arg = pc.arg /\ pc'.idx = resolve_mac(pc.arg)
                                      /\ resolve_mac(pc.arg) > 0
           /\ \A r \in said' : r \in said \/ r.cmd = "ping"
           /\ \A f \in sent' :
                 \/ \E ip : f = ArpRequest(ip)
                 \/ /\ pc.at = "ping_send"
                    /\ \E x : f = Frame("ip", "echo", k.our_ip, k.arp[pc.idx].mac, pc.arg, x)
  <1>0. DOMAIN pc = PcFields
    BY DEF Shape
  <1>1. CASE PingStart
    <2>1. /\ k' = k /\ said' = said /\ Quiet
          /\ pc' = [To(pc, "ping_find") EXCEPT !.before = k.ping_responses, !.seq = k.icmp_seq,
                                               !.again = FALSE]
      BY <1>1 DEF PingStart, Goto
    <2>2. DOMAIN pc' = PcFields /\ pc'.at = "ping_find" /\ pc'.idx = pc.idx
      BY <1>0, <2>1 DEF To, PcFields
    <2> QED
      BY <2>1, <2>2, QuietGrows, SameShape DEF ShellStep, PingSteps
  <1>2. CASE PingFind
    <2>1. /\ k' = k /\ said' = said
          /\ \/ /\ resolve_mac(pc.arg) > 0 /\ Quiet
                /\ pc' = [To(pc, "ping_send") EXCEPT !.idx = resolve_mac(pc.arg)]
             \/ /\ Send(ArpRequest(NextHop(pc.arg)))
                /\ pc' = PingNext(pc) \/ pc' = To(pc, "ping_arp")
      BY <1>2, Zenon DEF PingFind, Goto
    <2>2. CASE /\ resolve_mac(pc.arg) > 0 /\ Quiet
               /\ pc' = [To(pc, "ping_send") EXCEPT !.idx = resolve_mac(pc.arg)]
      <3>1. /\ DOMAIN pc' = PcFields /\ pc'.at = "ping_send" /\ pc'.idx = resolve_mac(pc.arg)
            /\ pc'.arg = pc.arg
        <4> DEFINE j == resolve_mac(pc.arg)
        <4>1. pc' = [To(pc, "ping_send") EXCEPT !.idx = j]
          BY <2>2
        <4> HIDE DEF j
        <4>2. DOMAIN pc' = PcFields /\ pc'.at = "ping_send" /\ pc'.idx = j /\ pc'.arg = pc.arg
          BY <1>0, <4>1 DEF To, PcFields
        <4> QED
          BY <4>2 DEF j
      <3> QED
        BY <2>1, <2>2, <3>1, QuietGrows, SameShape DEF ShellStep, PingSteps
    <2>3. CASE /\ Send(ArpRequest(NextHop(pc.arg)))
               /\ pc' = PingNext(pc) \/ pc' = To(pc, "ping_arp")
      <3>1. DOMAIN pc' = PcFields /\ pc'.at \in {"ping", "idle", "ping_arp"} /\ pc'.idx \in {0, pc.idx}
        BY <1>0, <2>3, PingNextSound DEF To, PcFields
      <3> QED
        BY <2>1, <2>3, <3>1, SendGrows, SameShape DEF ShellStep, PingSteps
    <2> QED
      BY <2>1, <2>2, <2>3
  <1>3. CASE PingSend
    <2> DEFINE g == Frame("ip", "echo", k.our_ip, k.arp[pc.idx].mac, pc.arg,
                          Payload(k.icmp_seq, "", "", <<>>))
    <2>1. /\ pc.at = "ping_send" /\ k' = [k EXCEPT !.icmp_seq = @ + 1] /\ said' = said /\ Send(g)
          /\ pc' = [To(pc, "ping_wait") EXCEPT !.idx = 0]
      BY <1>3, Zenon DEF PingSend, Goto, At
    <2>2. DOMAIN pc' = PcFields /\ pc'.at = "ping_wait" /\ pc'.idx = 0
      BY <1>0, <2>1, Zenon DEF To, PcFields
    <2>3. Shape' /\ SameStack
      BY <2>1, <2>2, Zenon DEF Shape, Stack, KFields, SameStack, SameConfig
    <2>4. \E x : g = Frame("ip", "echo", k.our_ip, k.arp[pc.idx].mac, pc.arg, x)
      BY Zenon
    <2> HIDE DEF g
    <2> QED
      BY <2>1, <2>2, <2>3, <2>4, SendGrows DEF ShellStep, PingSteps
  <1>4. CASE PingArp
    <2>1. /\ k' = k /\ said' = said /\ Quiet
          /\ \/ pc' = [To(pc, "ping_find") EXCEPT !.again = TRUE]
             \/ pc' = PingNext(pc)
      BY <1>4, Zenon DEF PingArp, Goto
    <2>2. DOMAIN pc' = PcFields /\ pc'.at \in {"ping", "idle", "ping_find"} /\ pc'.idx \in {0, pc.idx}
      BY <1>0, <2>1, PingNextSound, Zenon DEF To, PcFields
    <2> QED
      BY <2>1, <2>2, QuietGrows, SameShape DEF ShellStep, PingSteps
  <1>5. CASE PingWait
    <2>1. /\ k' = k /\ pc' = PingNext(pc) /\ Quiet
          /\ said' = {} \/ said' = Result("ping", pc.arg, "reply")
      BY <1>5, Zenon DEF PingWait, Goto, Say
    <2>2. DOMAIN pc' = PcFields /\ pc'.at \in {"ping", "idle"} /\ pc'.idx = 0
      BY <1>0, <2>1, PingNextSound
    <2>3. \A r \in said' : r.cmd = "ping"
      BY <2>1 DEF Result
    <2> QED
      BY <2>1, <2>2, <2>3, QuietGrows, SameShape DEF ShellStep, PingSteps
  <1> QED
    BY <1>1, <1>2, <1>3, <1>4, <1>5

(* The steps of tcpdump touch the capture alone.                            *)
LEMMA DumpEffect ==
    ASSUME Shape, DumpStart \/ DumpArm \/ DumpWait
    PROVE  /\ ShellStep /\ SameStack
           /\ pc'.at \in {"dump_arm", "dump_wait", "idle"}
           /\ pc'.idx \in {0, pc.idx}
           /\ \A r \in said' : r \in said \/ r.cmd = "tcpdump"
           /\ sent' = {}
  <1>0. DOMAIN pc = PcFields
    BY DEF Shape
  <1>1. CASE DumpStart
    <2>1. k' = [k EXCEPT !.dump.cap = <<>>] /\ said' = said /\ Quiet /\ pc' = To(pc, "dump_arm")
      BY <1>1 DEF DumpStart, Goto
    <2>2. DOMAIN pc' = PcFields /\ pc'.at = "dump_arm" /\ pc'.idx = pc.idx
      BY <1>0, <2>1 DEF To, PcFields
    <2>3. Shape' /\ SameStack
      BY <2>1, <2>2 DEF Shape, Stack, KFields, SameStack, SameConfig
    <2> QED
      BY <2>1, <2>2, <2>3, QuietGrows DEF ShellStep
  <1>2. CASE DumpArm
    <2>1. /\ k' = [k EXCEPT !.dump.max = DumpMax, !.dump.filter = pc.arg, !.dump.active = TRUE]
          /\ said' = said /\ Quiet /\ pc' = To(pc, "dump_wait")
      BY <1>2 DEF DumpArm, Goto
    <2>2. DOMAIN pc' = PcFields /\ pc'.at = "dump_wait" /\ pc'.idx = pc.idx
      BY <1>0, <2>1 DEF To, PcFields
    <2>3. Shape' /\ SameStack
      BY <2>1, <2>2 DEF Shape, Stack, KFields, SameStack, SameConfig
    <2> QED
      BY <2>1, <2>2, <2>3, QuietGrows DEF ShellStep
  <1>3. CASE DumpWait
    <2>1. /\ pc' = Idle /\ Quiet
          /\ \/ k' = k /\ said' = said
             \/ /\ k' = [k EXCEPT !.dump.cap = <<>>, !.dump.active = FALSE]
                /\ \E got : said' = Result("tcpdump", pc.arg, got)
      BY <1>3, Zenon DEF DumpWait, Goto, Say, tcpdump_print
    <2>2. DOMAIN pc' = PcFields /\ pc'.at = "idle" /\ pc'.idx = 0
      BY <2>1 DEF Idle, PcFields
    <2>3. Shape' /\ SameStack
      BY <2>1, <2>2, Zenon DEF Shape, Stack, KFields, SameStack, SameConfig
    <2>4. \A r \in said' : r \in said \/ r.cmd = "tcpdump"
      BY <2>1 DEF Result
    <2> QED
      BY <2>1, <2>2, <2>3, <2>4, QuietGrows DEF ShellStep
  <1> QED
    BY <1>1, <1>2, <1>3

(* Taking a handler off the table forgets what the slots held.              *)
LEMMA UnregisterSound ==
    ASSUME Shape, NEW port
    PROVE  LET r == Unregister(port)
           IN  /\ Stack(r) /\ SameConfig(r, k) /\ r.out = {} /\ r.arp = k.arp
               /\ r.dns.xid = k.dns.xid
  BY DEF Unregister, Forget, Shape, Stack, KFields, SlotFields, SameConfig

(* Where net_dns_resolve returns to, and where a failed attempt goes on.    *)
LEMMA DnsResultSound ==
    ASSUME Shape, NEW addr
    PROVE  LET q == DnsResult(addr)
           IN  DOMAIN q = PcFields /\ q.at \in {"ping", "idle"} /\ q.idx \in {0, pc.idx}
  BY DEF DnsResult, Shape, PcFields, To, Idle

LEMMA DnsRetrySound ==
    ASSUME Shape
    PROVE  /\ DOMAIN DnsRetry = PcFields /\ DnsRetry.idx \in {0, pc.idx}
           /\ \/ DnsRetry.at \in {"ping", "idle"}
              \/ DnsRetry.at = "dns_try" /\ DnsRetry.arg = pc.arg
  <1>1. CASE pc.n < MaxTries
    <2>1. DnsRetry = [To(pc, "dns_try") EXCEPT !.n = @ + 1]
      BY <1>1, Zenon DEF DnsRetry
    <2> QED
      BY <2>1 DEF Shape, PcFields, To
  <1>2. CASE ~(pc.n < MaxTries)
    <2>1. DnsRetry = DnsResult(None)
      BY <1>2, Zenon DEF DnsRetry
    <2> QED
      BY <2>1, DnsResultSound
  <1> QED
    BY <1>1, <1>2

DnsSteps == {"dns_try", "dns_find", "dns_arp", "dns_send", "dns_wait"}
DnsOpen == {"dns_find", "dns_arp", "dns_send", "dns_wait"}

(* A step of net_dns_resolve after its first.                               *)
DnsOn ==
    /\ ShellStep /\ SameConfig(k', k) /\ k'.arp = k.arp /\ k'.dns.xid = k.dns.xid
    /\ pc.at \in DnsSteps
    /\ \/ pc'.at \in {"ping", "idle"}
       \/ pc'.at \in DnsSteps /\ pc'.arg = pc.arg
    /\ pc'.at # "dns_send" => pc'.idx \in {0, pc.idx}
    /\ pc'.at = "dns_send" => pc'.idx = resolve_mac(k.dns_server) /\ resolve_mac(k.dns_server) > 0
    /\ k'.dns.pending /\ pc'.at \in DnsOpen
          => k.dns.pending /\ pc.at \in DnsOpen /\ k'.dns.reply = k.dns.reply
    /\ \A r \in said' : r \in said \/ /\ pc.at = "dns_wait" /\ k.dns.pending
                                      /\ r.cmd = "dns" /\ r.about = pc.arg
                                      /\ r.got = dns_parse_response(k.dns.reply)
    /\ \A f \in sent' :
          \/ \E ip : f = ArpRequest(ip)
          \/ /\ pc.at = "dns_send"
             /\ f = Frame("ip", "query", k.our_ip, k.arp[pc.idx].mac, k.dns_server,
                          Payload(k.dns.xid, "", pc.arg, <<>>))

LEMMA DnsStartEffect ==
    ASSUME Shape, DnsStart
    PROVE  /\ ShellStep /\ SameConfig(k', k) /\ k'.arp = k.arp /\ sent' = {} /\ said' = said
           /\ pc.at = "dns"
           /\ k'.dns.xid = (k.dns.xid + 1) % XidSpace
           /\ \/ pc'.at \in {"ping", "idle"}
              \/ pc'.at = "dns_try" /\ pc'.arg = pc.arg
           /\ pc'.idx \in {0, pc.idx}
  <1>1. /\ pc.at = "dns" /\ k' = [k EXCEPT !.dns.xid = (@ + 1) % XidSpace] /\ Quiet /\ said' = said
        /\ pc' = DnsResult(None) \/ pc' = To(pc, "dns_try")
    BY Zenon DEF DnsStart, Goto, At
  <1>2. /\ DOMAIN pc' = PcFields /\ pc'.idx \in {0, pc.idx}
        /\ pc'.at \in {"ping", "idle"} \/ (pc'.at = "dns_try" /\ pc'.arg = pc.arg)
    <2>1. CASE pc' = DnsResult(None)
      BY <2>1, DnsResultSound
    <2>2. CASE pc' = To(pc, "dns_try")
      BY <2>2 DEF Shape, To, PcFields
    <2> QED
      BY <1>1, <2>1, <2>2
  <1>3. Stack(k') /\ k'.out = {} /\ SameConfig(k', k) /\ k'.arp = k.arp
        /\ k'.dns.xid = (k.dns.xid + 1) % XidSpace
    BY <1>1 DEF Shape, Stack, KFields, SlotFields, SameConfig
  <1> QED
    BY <1>1, <1>2, <1>3, QuietGrows DEF ShellStep, Shape

LEMMA DnsEffect ==
    ASSUME Shape, DnsTry \/ DnsFind \/ DnsArp \/ DnsSend \/ DnsWait
    PROVE  DnsOn
  <1>0. DOMAIN pc = PcFields /\ Stack(k) /\ k.out = {}
    BY DEF Shape
  <1>1. CASE DnsTry
    <2>1. /\ pc.at = "dns_try" /\ k' = [k EXCEPT !.dns.pending = FALSE, !.udp = @ \cup {"dns"}]
          /\ pc' = [To(pc, "dns_find") EXCEPT !.again = FALSE] /\ Quiet /\ said' = said
      BY <1>1 DEF DnsTry, At, Goto
    <2>2. DOMAIN pc' = PcFields /\ pc'.at = "dns_find" /\ pc'.idx = pc.idx /\ pc'.arg = pc.arg
      BY <1>0, <2>1 DEF To, PcFields
    <2>3. /\ Stack(k') /\ k'.out = {} /\ SameConfig(k', k) /\ k'.arp = k.arp
          /\ k'.dns.xid = k.dns.xid /\ k'.dns.pending = FALSE
      BY <1>0, <2>1 DEF Stack, KFields, SlotFields, SameConfig
    <2> QED
      BY <2>1, <2>2, <2>3, QuietGrows DEF DnsOn, ShellStep, Shape, DnsSteps, DnsOpen
  <1>2. CASE DnsFind
    <2> DEFINE j == resolve_mac(k.dns_server)
    <2>1. /\ pc.at = "dns_find" /\ said' = said
          /\ \/ /\ j > 0 /\ pc' = [To(pc, "dns_send") EXCEPT !.idx = j] /\ Quiet /\ k' = k
             \/ Send(ArpRequest(k.dns_server)) /\ pc' = To(pc, "dns_arp") /\ k' = k
             \/ k' = Unregister("dns") /\ pc' = DnsRetry /\ Quiet
      BY <1>2, Zenon DEF DnsFind, At, Goto
    <2> HIDE DEF j
    <2>2. CASE j > 0 /\ pc' = [To(pc, "dns_send") EXCEPT !.idx = j] /\ Quiet /\ k' = k
      <3>1. DOMAIN pc' = PcFields /\ pc'.at = "dns_send" /\ pc'.idx = j /\ pc'.arg = pc.arg
        BY <1>0, <2>2 DEF To, PcFields
      <3>2. sent' = {} /\ ShellStep /\ SameConfig(k', k)
        BY <2>2, <3>1, QuietGrows, SameShape DEF ShellStep, SameStack
      <3> QED
        BY <2>1, <2>2, <3>1, <3>2 DEF DnsOn, DnsSteps, DnsOpen, j
    <2>3. CASE Send(ArpRequest(k.dns_server)) /\ pc' = To(pc, "dns_arp") /\ k' = k
      <3>1. DOMAIN pc' = PcFields /\ pc'.at = "dns_arp" /\ pc'.idx = pc.idx /\ pc'.arg = pc.arg
        BY <1>0, <2>3 DEF To, PcFields
      <3>2. sent' = {ArpRequest(k.dns_server)} /\ ShellStep /\ SameConfig(k', k)
        BY <2>3, <3>1, SendGrows, SameShape DEF ShellStep, SameStack
      <3> QED
        BY <2>1, <2>3, <3>1, <3>2 DEF DnsOn, DnsSteps, DnsOpen
    <2>4. CASE k' = Unregister("dns") /\ pc' = DnsRetry /\ Quiet
      <3>1. /\ Stack(k') /\ SameConfig(k', k) /\ k'.out = {} /\ k'.arp = k.arp
            /\ k'.dns.xid = k.dns.xid
        BY <2>4, UnregisterSound
      <3>2. /\ DOMAIN pc' = PcFields /\ pc'.idx \in {0, pc.idx}
            /\ pc'.at \in {"ping", "idle"} \/ (pc'.at = "dns_try" /\ pc'.arg = pc.arg)
        BY <2>4, DnsRetrySound
      <3> QED
        BY <2>1, <2>4, <3>1, <3>2, QuietGrows DEF DnsOn, ShellStep, Shape, DnsSteps, DnsOpen
    <2> QED
      BY <2>1, <2>2, <2>3, <2>4
  <1>3. CASE DnsArp
    <2>1. /\ pc.at = "dns_arp" /\ said' = said /\ Quiet
          /\ \/ /\ k' = [k EXCEPT !.dns.pending = FALSE]
                /\ pc' = [To(pc, "dns_find") EXCEPT !.again = TRUE]
             \/ k' = Unregister("dns") /\ pc' = DnsRetry
      BY <1>3, Zenon DEF DnsArp, At, Goto
    <2>2. CASE /\ k' = [k EXCEPT !.dns.pending = FALSE]
               /\ pc' = [To(pc, "dns_find") EXCEPT !.again = TRUE]
      <3>1. DOMAIN pc' = PcFields /\ pc'.at = "dns_find" /\ pc'.idx = pc.idx /\ pc'.arg = pc.arg
        BY <1>0, <2>2 DEF To, PcFields
      <3>2. /\ Stack(k') /\ k'.out = {} /\ SameConfig(k', k) /\ k'.arp = k.arp
            /\ k'.dns.xid = k.dns.xid /\ k'.dns.pending = FALSE
        BY <1>0, <2>2 DEF Stack, KFields, SlotFields, SameConfig
      <3> QED
        BY <2>1, <3>1, <3>2, QuietGrows DEF DnsOn, ShellStep, Shape, DnsSteps, DnsOpen
    <2>3. CASE k' = Unregister("dns") /\ pc' = DnsRetry
      <3>1. /\ Stack(k') /\ SameConfig(k', k) /\ k'.out = {} /\ k'.arp = k.arp
            /\ k'.dns.xid = k.dns.xid
        BY <2>3, UnregisterSound
      <3>2. /\ DOMAIN pc' = PcFields /\ pc'.idx \in {0, pc.idx}
            /\ pc'.at \in {"ping", "idle"} \/ (pc'.at = "dns_try" /\ pc'.arg = pc.arg)
        BY <2>3, DnsRetrySound
      <3> QED
        BY <2>1, <3>1, <3>2, QuietGrows DEF DnsOn, ShellStep, Shape, DnsSteps, DnsOpen
    <2> QED
      BY <2>1, <2>2, <2>3
  <1>4. CASE DnsSend
    <2> DEFINE g == Frame("ip", "query", k.our_ip, k.arp[pc.idx].mac, k.dns_server,
                          Payload(k.dns.xid, "", pc.arg, <<>>))
    <2>1. /\ pc.at = "dns_send" /\ pc' = [To(pc, "dns_wait") EXCEPT !.idx = 0]
          /\ k' = k /\ said' = said /\ Send(g)
      BY <1>4, Zenon DEF DnsSend, At, Goto
    <2>2. DOMAIN pc' = PcFields /\ pc'.at = "dns_wait" /\ pc'.idx = 0 /\ pc'.arg = pc.arg
      BY <1>0, <2>1, Zenon DEF To, PcFields
    <2>3. sent' = {g} /\ ShellStep /\ SameConfig(k', k)
      <3> HIDE DEF g
      <3> QED
        BY <2>1, <2>2, SendGrows, SameShape DEF ShellStep, SameStack
    <2>4. \A f \in sent' : /\ pc.at = "dns_send"
                           /\ f = Frame("ip", "query", k.our_ip, k.arp[pc.idx].mac, k.dns_server,
                                        Payload(k.dns.xid, "", pc.arg, <<>>))
      BY <2>1, <2>3, Zenon
    <2> HIDE DEF g
    <2> QED
      BY <2>1, <2>2, <2>3, <2>4, Zenon DEF DnsOn, DnsSteps, DnsOpen
  <1>5. CASE DnsWait
    <2>1. /\ pc.at = "dns_wait" /\ k' = Unregister("dns") /\ Quiet
          /\ \/ /\ k.dns.pending /\ pc' = DnsResult(dns_parse_response(k.dns.reply))
                /\ said' = Result("dns", pc.arg, dns_parse_response(k.dns.reply))
             \/ pc' = DnsRetry /\ said' = said
      BY <1>5, Zenon DEF DnsWait, At, Goto, Say
    <2>2. /\ Stack(k') /\ SameConfig(k', k) /\ k'.out = {} /\ k'.arp = k.arp
          /\ k'.dns.xid = k.dns.xid
      BY <2>1, UnregisterSound
    <2>3. /\ DOMAIN pc' = PcFields /\ pc'.idx \in {0, pc.idx}
          /\ pc'.at \in {"ping", "idle"} \/ (pc'.at = "dns_try" /\ pc'.arg = pc.arg)
      BY <2>1, DnsRetrySound, DnsResultSound
    <2>4. \A r \in said' : r \in said \/ /\ k.dns.pending /\ r.cmd = "dns" /\ r.about = pc.arg
                                         /\ r.got = dns_parse_response(k.dns.reply)
      BY <2>1 DEF Result
    <2> QED
      BY <2>1, <2>2, <2>3, <2>4, QuietGrows DEF DnsOn, ShellStep, Shape, DnsSteps, DnsOpen
  <1> QED
    BY <1>1, <1>2, <1>3, <1>4, <1>5

DhcpSteps == {"dhcp_reset", "dhcp_discover", "dhcp_offer", "dhcp_sid", "dhcp_request", "dhcp_ack",
              "idle"}
Leased == pc.at = "dhcp_ack" /\ k.dhcp.pending /\ k.dhcp.reply.who # None

(* A step of dhcp_start: which reply each of its steps works on, and that   *)
(* only the last one configures the host.                                   *)
DhcpOn ==
    /\ ShellStep /\ k'.arp = k.arp /\ k'.dns.xid = k.dns.xid
    /\ pc'.at \in DhcpSteps /\ pc'.idx \in {0, pc.idx}
    /\ k'.dhcp.pending /\ pc'.at \in {"dhcp_discover", "dhcp_offer"}
          => pc.at = "dhcp_discover" /\ k.dhcp.pending /\ k'.dhcp.reply = k.dhcp.reply
    /\ pc'.at = "dhcp_ack" => ~k'.dhcp.pending
    /\ pc'.at = "dhcp_sid"
          => pc.at = "dhcp_offer" /\ k.dhcp.pending /\ k'.dhcp.reply = k.dhcp.reply
    /\ pc'.at = "dhcp_request"
          => pc.at = "dhcp_sid" /\ pc'.sid = dhcp_find_option(k.dhcp.reply, "sid")
    /\ \A r \in said' :
          \/ r \in said
          \/ r.got \in {"no ack", "no server"} /\ r.cmd = "dhcp"
          \/ Leased /\ r.got = k.dhcp.reply.kind /\ r.cmd = "dhcp"
    /\ \A f \in sent' :
          \/ \E x : f = Frame("ip", "DISCOVER", None, "all", "all", x)
          \/ /\ pc.at = "dhcp_request"
             /\ f = Frame("ip", "REQUEST", None, "all", "all",
                          Payload(k.dhcp.xid, pc.ip, pc.sid, <<>>))
    /\ \/ k'.gateway_ip = k.gateway_ip /\ k'.dns_server = k.dns_server
       \/ /\ Leased
          /\ k'.gateway_ip \in {k.dhcp.reply.who, dhcp_find_option(k.dhcp.reply, "gateway")}
          /\ k'.gateway_ip # None
          /\ \/ k'.dns_server = k.dns_server
             \/ /\ k'.dns_server = dhcp_find_option(k.dhcp.reply, "dns")
                /\ k'.dns_server # None

LEMMA ResultFields ==
    ASSUME NEW c, NEW a, NEW g
    PROVE  \A r \in Result(c, a, g) : r.cmd = c /\ r.about = a /\ r.got = g
  BY DEF Result

(* The next attempt, or the report that there was no answer.                *)
LEMMA DhcpRetryEffect ==
    ASSUME Shape, DhcpRetry, Quiet
    PROVE  DhcpOn
  <1>1. CASE k' = k /\ said' = said /\ pc' = [To(pc, "dhcp_reset") EXCEPT !.n = @ + 1]
    <2>1. DOMAIN pc' = PcFields /\ pc'.at = "dhcp_reset" /\ pc'.idx = pc.idx
      BY <1>1 DEF Shape, To, PcFields
    <2> QED
      BY <1>1, <2>1, QuietGrows, SameShape, Zenon DEF DhcpOn, ShellStep, DhcpSteps
  <1>2. CASE /\ k' = Unregister("dhcp") /\ pc' = Idle
             /\ \E got \in {"no ack", "no server"} : said' = Result("dhcp", None, got)
    <2>1. /\ Stack(k') /\ SameConfig(k', k) /\ k'.out = {} /\ k'.arp = k.arp
          /\ k'.dns.xid = k.dns.xid
      BY <1>2, UnregisterSound, Zenon
    <2>2. DOMAIN pc' = PcFields /\ pc'.at = "idle" /\ pc'.idx = 0
      BY <1>2, Zenon DEF Idle, PcFields
    <2>3. \A r \in said' : r.cmd = "dhcp" /\ r.got \in {"no ack", "no server"}
      <3>1. PICK end \in {"no ack", "no server"} : said' = Result("dhcp", None, end)
        BY <1>2, Zenon
      <3>2. \A r \in said' : r.cmd = "dhcp" /\ r.got = end
        <4>1. \A r \in Result("dhcp", None, end) : r.cmd = "dhcp" /\ r.about = None /\ r.got = end
          BY ResultFields, Zenon
        <4> QED
          BY <3>1, <4>1, Zenon
      <3> QED
        BY <3>1, <3>2, Zenon
    <2> QED
      BY <2>1, <2>2, <2>3, QuietGrows, Zenon DEF DhcpOn, ShellStep, Shape, DhcpSteps, SameConfig
  <1> QED
    BY <1>1, <1>2, Zenon DEF DhcpRetry, DhcpEnd, Goto, Say

LEMMA ConfiguredSound ==
    ASSUME Shape, NEW reply, reply.who # None
    PROVE  LET r == Configured(reply)
           IN  /\ Stack(r) /\ r.out = {} /\ r.arp = k.arp /\ r.dns.xid = k.dns.xid
               /\ r.gateway_ip \in {reply.who, dhcp_find_option(reply, "gateway")}
               /\ r.gateway_ip # None
               /\ \/ r.dns_server = k.dns_server
                  \/ /\ r.dns_server = dhcp_find_option(reply, "dns")
                     /\ r.dns_server # None
  <1> DEFINE u == Unregister("dhcp")
             gw == dhcp_find_option(reply, "gateway")
             dns == dhcp_find_option(reply, "dns")
             r == Configured(reply)
  <1>1. /\ Stack(u) /\ SameConfig(u, k) /\ u.out = {} /\ u.arp = k.arp /\ u.dns.xid = k.dns.xid
    BY UnregisterSound
  <1>2. r = [u EXCEPT !.our_ip = reply.who, !.gateway_ip = IF gw = None THEN reply.who ELSE gw,
                      !.dns_server = IF dns = None THEN @ ELSE dns]
    BY DEF Configured
  <1> HIDE DEF u, gw, dns, r
  <1>3. /\ Stack(r) /\ r.out = {} /\ r.arp = k.arp /\ r.dns.xid = k.dns.xid
        /\ r.gateway_ip = IF gw = None THEN reply.who ELSE gw
        /\ r.dns_server = IF dns = None THEN k.dns_server ELSE dns
    BY <1>1, <1>2 DEF Stack, KFields, SameConfig
  <1>4. r.gateway_ip \in {reply.who, gw} /\ r.gateway_ip # None
    BY <1>3
  <1>5. r.dns_server = k.dns_server \/ (r.dns_server = dns /\ r.dns_server # None)
    BY <1>3
  <1> QED
    BY <1>3, <1>4, <1>5 DEF r, gw, dns

LEMMA DhcpEffect ==
    ASSUME Shape,
           \/ DhcpStart \/ DhcpReset \/ DhcpDiscover \/ DhcpOffer \/ DhcpServerId
           \/ DhcpRequest \/ DhcpAck
    PROVE  DhcpOn
  <1>0. DOMAIN pc = PcFields /\ Stack(k) /\ k.out = {}
    BY DEF Shape
  <1>1. CASE DhcpStart
    <2>1. /\ k' = [k EXCEPT !.udp = @ \cup {"dhcp"}] /\ pc' = To(pc, "dhcp_reset")
          /\ Quiet /\ said' = said
      BY <1>1 DEF DhcpStart, Goto
    <2>2. DOMAIN pc' = PcFields /\ pc'.at = "dhcp_reset" /\ pc'.idx = pc.idx
      BY <1>0, <2>1 DEF To, PcFields
    <2>3. /\ Stack(k') /\ k'.out = {} /\ SameConfig(k', k) /\ k'.arp = k.arp
          /\ k'.dns.xid = k.dns.xid
      BY <1>0, <2>1 DEF Stack, KFields, SameConfig
    <2> QED
      BY <2>1, <2>2, <2>3, QuietGrows, Zenon DEF DhcpOn, ShellStep, Shape, DhcpSteps, SameConfig
  <1>2. CASE DhcpReset
    <2>1. /\ k' = [k EXCEPT !.dhcp.pending = FALSE] /\ pc' = To(pc, "dhcp_discover")
          /\ Quiet /\ said' = said
      BY <1>2 DEF DhcpReset, Goto
    <2>2. DOMAIN pc' = PcFields /\ pc'.at = "dhcp_discover" /\ pc'.idx = pc.idx
      BY <1>0, <2>1 DEF To, PcFields
    <2>3. /\ Stack(k') /\ k'.out = {} /\ SameConfig(k', k) /\ k'.arp = k.arp
          /\ k'.dns.xid = k.dns.xid /\ k'.dhcp.pending = FALSE
      BY <1>0, <2>1 DEF Stack, KFields, SlotFields, SameConfig
    <2> QED
      BY <2>1, <2>2, <2>3, QuietGrows, Zenon DEF DhcpOn, ShellStep, Shape, DhcpSteps, SameConfig
  <1>3. CASE DhcpDiscover
    <2> DEFINE xid == (k.dhcp.xid + 1) % XidSpace
               g == Frame("ip", "DISCOVER", None, "all", "all", Payload(xid, "", "", <<>>))
    <2>1. /\ pc.at = "dhcp_discover" /\ k' = [k EXCEPT !.dhcp.xid = xid]
          /\ pc' = To(pc, "dhcp_offer") /\ Send(g) /\ said' = said
      BY <1>3, Zenon DEF DhcpDiscover, At, Goto
    <2>2. \E x : g = Frame("ip", "DISCOVER", None, "all", "all", x)
      BY Zenon
    <2> HIDE DEF xid, g
    <2>3. DOMAIN pc' = PcFields /\ pc'.at = "dhcp_offer" /\ pc'.idx = pc.idx
      BY <1>0, <2>1 DEF To, PcFields
    <2>4. /\ Stack(k') /\ k'.out = {} /\ SameConfig(k', k) /\ k'.arp = k.arp
          /\ k'.dns.xid = k.dns.xid /\ k'.dhcp.pending = k.dhcp.pending
          /\ k'.dhcp.reply = k.dhcp.reply
      BY <1>0, <2>1 DEF Stack, KFields, SlotFields, SameConfig
    <2>5. sent' = {g} /\ WireGrows /\ odd' = odd /\ cmds' = cmds
      BY <2>1, SendGrows
    <2> QED
      BY <2>1, <2>2, <2>3, <2>4, <2>5, Zenon DEF DhcpOn, ShellStep, Shape, DhcpSteps, SameConfig
  <1>4. CASE DhcpOffer
    <2>1. CASE DhcpRetry /\ Quiet
      BY <2>1, DhcpRetryEffect
    <2>2. CASE /\ pc.at = "dhcp_offer" /\ k.dhcp.pending /\ k' = [k EXCEPT !.dhcp.pending = FALSE]
               /\ pc' = [To(pc, "dhcp_sid") EXCEPT !.ip = k.dhcp.reply.who] /\ said' = said /\ Quiet
      <3>1. DOMAIN pc' = PcFields /\ pc'.at = "dhcp_sid" /\ pc'.idx = pc.idx
        BY <1>0, <2>2 DEF To, PcFields
      <3>2. /\ Stack(k') /\ k'.out = {} /\ SameConfig(k', k) /\ k'.arp = k.arp
            /\ k'.dns.xid = k.dns.xid /\ k'.dhcp.pending = FALSE /\ k'.dhcp.reply = k.dhcp.reply
        BY <1>0, <2>2 DEF Stack, KFields, SlotFields, SameConfig
      <3> QED
        BY <2>2, <3>1, <3>2, QuietGrows, Zenon DEF DhcpOn, ShellStep, Shape, DhcpSteps, SameConfig
    <2> QED
      BY <1>4, <2>1, <2>2, Zenon DEF DhcpOffer, At, Goto
  <1>5. CASE DhcpServerId
    <2> DEFINE sid == dhcp_find_option(k.dhcp.reply, "sid")
    <2>1. CASE DhcpRetry /\ Quiet
      BY <2>1, DhcpRetryEffect
    <2>2. CASE /\ pc.at = "dhcp_sid" /\ pc' = [To(pc, "dhcp_request") EXCEPT !.sid = sid]
               /\ k' = k /\ said' = said /\ Quiet
      <3>1. DOMAIN pc' = PcFields /\ pc'.at = "dhcp_request" /\ pc'.idx = pc.idx /\ pc'.sid = sid
        <4> HIDE DEF sid
        <4> QED
          BY <1>0, <2>2 DEF To, PcFields
      <3> QED
        BY <2>2, <3>1, QuietGrows, SameShape, Zenon DEF DhcpOn, ShellStep, DhcpSteps
    <2> QED
      BY <1>5, <2>1, <2>2, Zenon DEF DhcpServerId, At, Goto
  <1>6. CASE DhcpRequest
    <2> DEFINE g == Frame("ip", "REQUEST", None, "all", "all",
                          Payload(k.dhcp.xid, pc.ip, pc.sid, <<>>))
    <2>1. /\ pc.at = "dhcp_request" /\ k' = [k EXCEPT !.dhcp.pending = FALSE]
          /\ pc' = [To(pc, "dhcp_ack") EXCEPT !.asked = TRUE] /\ Send(g) /\ said' = said
      BY <1>6, Zenon DEF DhcpRequest, At, Goto
    <2>2. \A f : f = g => f = Frame("ip", "REQUEST", None, "all", "all",
                                    Payload(k.dhcp.xid, pc.ip, pc.sid, <<>>))
      BY Zenon
    <2> HIDE DEF g
    <2>3. DOMAIN pc' = PcFields /\ pc'.at = "dhcp_ack" /\ pc'.idx = pc.idx
      BY <1>0, <2>1 DEF To, PcFields
    <2>4. /\ Stack(k') /\ k'.out = {} /\ SameConfig(k', k) /\ k'.arp = k.arp
          /\ k'.dns.xid = k.dns.xid /\ k'.dhcp.pending = FALSE
      BY <1>0, <2>1 DEF Stack, KFields, SlotFields, SameConfig
    <2>5. sent' = {g} /\ WireGrows /\ odd' = odd /\ cmds' = cmds
      BY <2>1, SendGrows
    <2> QED
      BY <2>1, <2>2, <2>3, <2>4, <2>5, Zenon DEF DhcpOn, ShellStep, Shape, DhcpSteps, SameConfig
  <1>7. CASE DhcpAck
    <2>1. CASE DhcpRetry /\ Quiet
      BY <2>1, DhcpRetryEffect
    <2>2. CASE /\ Leased /\ k' = Configured(k.dhcp.reply) /\ pc' = Idle /\ Quiet
               /\ \E about : said' = Result("dhcp", about, k.dhcp.reply.kind)
      <3>1. DOMAIN pc' = PcFields /\ pc'.at = "idle" /\ pc'.idx = 0
        BY <2>2 DEF Idle, PcFields
      <3>2. /\ Stack(k') /\ k'.out = {} /\ k'.arp = k.arp /\ k'.dns.xid = k.dns.xid
            /\ k'.gateway_ip \in {k.dhcp.reply.who, dhcp_find_option(k.dhcp.reply, "gateway")}
            /\ k'.gateway_ip # None
            /\ \/ k'.dns_server = k.dns_server
               \/ /\ k'.dns_server = dhcp_find_option(k.dhcp.reply, "dns")
                  /\ k'.dns_server # None
        BY <2>2, ConfiguredSound DEF Leased
      <3>3. \A r \in said' : r.got = k.dhcp.reply.kind /\ r.cmd = "dhcp"
        <4>1. PICK about : said' = Result("dhcp", about, k.dhcp.reply.kind)
          BY <2>2, Zenon
        <4>2. \A r \in Result("dhcp", about, k.dhcp.reply.kind) :
                 r.cmd = "dhcp" /\ r.about = about /\ r.got = k.dhcp.reply.kind
          BY ResultFields
        <4> QED
          BY <4>1, <4>2, Zenon
      <3> QED
        BY <2>2, <3>1, <3>2, <3>3, QuietGrows, Zenon DEF DhcpOn, ShellStep, Shape, DhcpSteps
    <2> QED
      BY <1>7, <2>1, <2>2, Zenon DEF DhcpAck, At, Goto, Say, Leased
  <1> QED
    BY <1>1, <1>2, <1>3, <1>4, <1>5, <1>6, <1>7

-----------------------------------------------------------------------------
(* Frames and what the other hosts answer to them *)

(* A frame of another host: its MAC is the one this host reaches it by.     *)
Foreign(f) == f.mac = MacOf(f.src) /\ f.src # "jex"

(* A reply of a DHCP server, whichever one and whatever it decided.         *)
GoodReply(x) ==
    \E s \in Servers, kind \in {"offer", "ack", "nak"} :
        /\ x.kind = kind
        /\ x.who = IF kind = "nak" THEN None ELSE "jex"
        /\ x.recs = Options(s)

(* The records of the DNS server's answer for a name.                       *)
Recs(name) == <<<<"CNAME", None>>, <<"A", AddrOf(name)>>>>

LEMMA FrameFields ==
    ASSUME NEW t, NEW op, NEW src, NEW mac, NEW dst, NEW x
    PROVE  LET f == Frame(t, op, src, mac, dst, x)
           IN  f.op = op /\ f.src = src /\ f.mac = mac /\ f.dst = dst /\ f.x = x
  BY DEF Frame

LEMMA PayloadFields ==
    ASSUME NEW xid, NEW kind, NEW who, NEW recs
    PROVE  LET x == Payload(xid, kind, who, recs)
           IN  x.xid = xid /\ x.kind = kind /\ x.who = who /\ x.recs = recs
  BY DEF Payload

LEMMA ArpAnswers ==
    ASSUME NEW ip, NEW g \in Answers(ArpRequest(ip))
    PROVE  g.op = "reply" /\ Foreign(g)
  <1> DEFINE f == ArpRequest(ip)
  <1>1. f.op = "request" /\ f.dst = ip
    BY FrameFields DEF ArpRequest
  <1> HIDE DEF f
  <1>2. g \in IF is_local_ip(f.dst) /\ f.dst # "jex"
              THEN {Frame("arp", "reply", f.dst, f.dst, "jex", Empty)} ELSE {}
    <2>1. g \in Answers(f)
      BY DEF f
    <2> QED
      BY <1>1, <2>1 DEF Answers
  <1>3. is_local_ip(ip) /\ ip # "jex" /\ g = Frame("arp", "reply", ip, ip, "jex", Empty)
    BY <1>1, <1>2
  <1>4. g.op = "reply" /\ g.mac = ip /\ g.src = ip
    BY <1>3, FrameFields
  <1> QED
    BY <1>3, <1>4 DEF Foreign, MacOf, is_local_ip

LEMMA EchoAnswers ==
    ASSUME NEW src, NEW mac, NEW dst, NEW x, NEW g \in Answers(Frame("ip", "echo", src, mac, dst, x))
    PROVE  g.op = "echoreply" /\ (mac # "jex" => Foreign(g))
  <1> DEFINE f == Frame("ip", "echo", src, mac, dst, x)
  <1>1. f.op = "echo" /\ f.mac = mac /\ f.dst = dst
    BY FrameFields
  <1>2. g \in Answers(f)
    OBVIOUS
  <1> HIDE DEF f
  <1>3. mac = MacOf(dst) /\ g = Answer("echoreply", dst, f.x)
    BY <1>1, <1>2 DEF Answers
  <1>4. g.op = "echoreply" /\ g.mac = MacOf(dst) /\ g.src = dst
    BY <1>3, FrameFields DEF Answer
  <1> QED
    BY <1>3, <1>4 DEF Foreign, MacOf

LEMMA QueryAnswers ==
    ASSUME NEW src, NEW mac, NEW dst, NEW x,
           NEW g \in Answers(Frame("ip", "query", src, mac, dst, x))
    PROVE  /\ g.op = "dns" /\ (mac # "jex" => Foreign(g))
           /\ g.x.xid = x.xid /\ g.x.who = x.who /\ g.x.recs = Recs(x.who)
  <1> DEFINE f == Frame("ip", "query", src, mac, dst, x)
             p == Payload(x.xid, "answer", x.who, Recs(x.who))
  <1>1. f.op = "query" /\ f.mac = mac /\ f.dst = dst /\ f.x = x
    BY FrameFields
  <1>2. g \in Answers(f)
    OBVIOUS
  <1> HIDE DEF f
  <1>3. Answers(f) = IF f.mac # MacOf(f.dst) THEN {}
                     ELSE {Answer("dns", f.dst, Payload(f.x.xid, "answer", f.x.who, Recs(f.x.who)))}
    BY <1>1 DEF Answers, Recs
  <1>4. mac = MacOf(dst) /\ g = Answer("dns", dst, p)
    BY <1>1, <1>2, <1>3
  <1>5. p.xid = x.xid /\ p.who = x.who /\ p.recs = Recs(x.who)
    BY PayloadFields
  <1> HIDE DEF p
  <1>6. g.op = "dns" /\ g.mac = MacOf(dst) /\ g.src = dst /\ g.x = p
    BY <1>4, FrameFields DEF Answer
  <1> QED
    BY <1>4, <1>5, <1>6 DEF Foreign, MacOf

LEMMA DhcpReplySound ==
    ASSUME NEW s \in Servers, NEW kind \in {"offer", "ack", "nak"}, NEW xid
    PROVE  LET g == DhcpReply(s, kind, xid)
           IN  g.op = "dhcp" /\ Foreign(g) /\ GoodReply(g.x)
  <1> DEFINE who == IF kind = "nak" THEN None ELSE "jex"
             p == Payload(xid, kind, who, Options(s))
             dst == IF s \in Broadcasts THEN "all" ELSE "jex"
             g == DhcpReply(s, kind, xid)
  <1>1. p.kind = kind /\ p.who = who /\ p.recs = Options(s)
    BY PayloadFields
  <1>2. g = Frame("ip", "dhcp", s, s, dst, p)
    BY Zenon DEF DhcpReply
  <1> HIDE DEF p, g, dst
  <1>3. g.op = "dhcp" /\ g.src = s /\ g.mac = s /\ g.x = p
    BY <1>2, FrameFields
  <1>4. s \in {"s1", "s2"}
    BY NetAssumption
  <1>5. Foreign(g)
    BY <1>3, <1>4 DEF Foreign, MacOf
  <1>6. GoodReply(p)
    BY <1>1, Zenon DEF GoodReply
  <1> QED
    BY <1>3, <1>5, <1>6 DEF g

LEMMA DiscoverAnswers ==
    ASSUME NEW x, NEW g \in Answers(Frame("ip", "DISCOVER", None, "all", "all", x))
    PROVE  g.op = "dhcp" /\ Foreign(g) /\ GoodReply(g.x)
  <1> DEFINE f == Frame("ip", "DISCOVER", None, "all", "all", x)
  <1>1. f.op = "DISCOVER"
    BY FrameFields
  <1>2. g \in Answers(f)
    OBVIOUS
  <1> HIDE DEF f
  <1>3. PICK s \in Servers : g = DhcpReply(s, "offer", f.x.xid)
    BY <1>1, <1>2 DEF Answers
  <1> QED
    BY <1>3, DhcpReplySound

LEMMA RequestAnswers ==
    ASSUME NEW x, x.who \in Servers,
           NEW g \in Answers(Frame("ip", "REQUEST", None, "all", "all", x))
    PROVE  g.op = "dhcp" /\ Foreign(g) /\ GoodReply(g.x)
  <1> DEFINE f == Frame("ip", "REQUEST", None, "all", "all", x)
  <1>1. f.op = "REQUEST" /\ f.x = x
    BY FrameFields
  <1>2. g \in Answers(f)
    OBVIOUS
  <1> HIDE DEF f
  <1>3. PICK kind \in {"ack", "nak"} : g = DhcpReply(x.who, kind, x.xid)
    BY <1>1, <1>2 DEF Answers
  <1> QED
    BY <1>3, DhcpReplySound

(* The replies this host sends are not answered.                            *)
LEMMA RepliesUnanswered ==
    ASSUME NEW s, NEW f, NEW g \in Replies(s, f)
    PROVE  Answers(g) = {} /\ g.mac = f.mac /\ g.dst = f.src
  <1>1. g.op \in {"reply", "echoreply"} /\ g.mac = f.mac /\ g.dst = f.src
    BY FrameFields DEF Replies
  <1>2. Answers(g) = {}
    BY <1>1 DEF Answers
  <1> QED
    BY <1>1, <1>2

(* First stops at the first of two records with the tag.                    *)
LEMMA FirstOfTwo ==
    ASSUME NEW a, NEW b, NEW c, NEW d, NEW tag
    PROVE  First(<<<<a, b>>, <<c, d>>>>, tag)
             = IF a = tag THEN b ELSE IF c = tag THEN d ELSE None
  <1> DEFINE recs == <<<<a, b>>, <<c, d>>>>
             S == {i \in 1..Len(recs) : recs[i][1] = tag}
  <1>1. /\ Len(recs) = 2 /\ recs[1][1] = a /\ recs[1][2] = b /\ recs[2][1] = c /\ recs[2][2] = d
    OBVIOUS
  <1>2. First(recs, tag) = IF S # {} THEN recs[Min(S)][2] ELSE None
    BY Zenon DEF First
  <1> HIDE DEF recs
  <1>3. S \in SUBSET Nat /\ \A i \in S : i \in {1, 2}
    BY <1>1
  <1>4. (1 \in S <=> a = tag) /\ (2 \in S <=> c = tag)
    BY <1>1
  <1> HIDE DEF S
  <1>5. S # {} => Min(S) \in S /\ \A y \in S : Min(S) <= y
    BY <1>3, MinIn
  <1>6. CASE a = tag
    <2>1. Min(S) = 1
      <3>1. 1 \in S
        BY <1>4, <1>6, Zenon
      <3>2. Min(S) \in {1, 2} /\ Min(S) <= 1
        BY <1>3, <1>5, <3>1, Zenon
      <3> QED
        BY <3>2
    <2> QED
      BY <1>1, <1>2, <1>4, <1>6, <2>1 DEF recs
  <1>7. CASE a # tag /\ c = tag
    <2>1. Min(S) = 2
      BY <1>3, <1>4, <1>5, <1>7, Zenon
    <2> QED
      BY <1>1, <1>2, <1>4, <1>7, <2>1 DEF recs
  <1>8. CASE a # tag /\ c # tag
    <2>1. S = {}
      BY <1>3, <1>4, <1>8
    <2> QED
      BY <1>2, <1>8, <2>1 DEF recs
  <1> QED
    BY <1>6, <1>7, <1>8

(* What dhcp_find_option finds among a server's options.                    *)
LEMMA OptionsSound ==
    ASSUME NEW x, GoodReply(x)
    PROVE  /\ dhcp_find_option(x, "sid") \in Servers
           /\ dhcp_find_option(x, "gateway") \in {"gw", None}
           /\ dhcp_find_option(x, "dns") \in {"far", None}
           /\ x.who \in {"jex", None} /\ x.kind \in {"offer", "ack", "nak"}
           /\ x.kind = "nak" => x.who = None
  <1>1. PICK s \in Servers, kind \in {"offer", "ack", "nak"} :
            /\ x.kind = kind
            /\ x.who = IF kind = "nak" THEN None ELSE "jex"
            /\ x.recs = Options(s)
    BY Zenon DEF GoodReply
  <1>2. CASE s = "s1"
    <2>1. x.recs = <<<<"gateway", "gw">>, <<"sid", s>>>>
      BY <1>1, <1>2, Zenon DEF Options
    <2>2. /\ First(x.recs, "sid") = s /\ First(x.recs, "gateway") = "gw"
          /\ First(x.recs, "dns") = None
      BY <2>1, FirstOfTwo
    <2> QED
      BY <1>1, <2>2 DEF dhcp_find_option
  <1>3. CASE s # "s1"
    <2>1. x.recs = <<<<"sid", s>>, <<"dns", "far">>>>
      BY <1>1, <1>3, Zenon DEF Options
    <2>2. /\ First(x.recs, "sid") = s /\ First(x.recs, "gateway") = None
          /\ First(x.recs, "dns") = "far"
      BY <2>1, FirstOfTwo
    <2> QED
      BY <1>1, <2>2 DEF dhcp_find_option
  <1> QED
    BY <1>2, <1>3

LEMMA RecsSound ==
    ASSUME NEW x, NEW name, x.recs = Recs(name)
    PROVE  dns_parse_response(x) = AddrOf(name)
  <1>1. First(Recs(name), "A") = AddrOf(name)
    BY FirstOfTwo DEF Recs
  <1> QED
    BY <1>1 DEF dns_parse_response

-----------------------------------------------------------------------------
(* An arriving frame and a typed command *)

(* The frame f is handled between two steps of the shell.                   *)
Arrives(f) ==
    /\ f \in wire /\ Shape' /\ SameConfig(k', k)
    /\ k'.arp = arp_add(k.arp, f.src, f.mac)
    /\ Filled(k'.dns, k.dns, f) /\ (f.op # "dns" => k'.dns = k.dns)
    /\ Filled(k'.dhcp, k.dhcp, f) /\ (f.op # "dhcp" => k'.dhcp = k.dhcp)
    /\ sent' \subseteq Replies(k, f)
    /\ wire' = wire /\ pc' = pc /\ said' = said /\ cmds' = cmds
    /\ odd \subseteq odd'
    /\ pc.idx > 0 /\ k'.arp[pc.idx].ip # k.arp[pc.idx].ip => "shifted" \in odd'
    /\ pc.at = "dhcp_ack" /\ f.x.kind = "offer" /\ k'.dhcp # k.dhcp => "offer_as_ack" \in odd'

LEMMA ReceiveEffect ==
    ASSUME Shape, Receive
    PROVE  \E f : Arrives(f)
  <1>1. PICK f \in wire, good \in BOOLEAN :
            LET s == net_process_packet(k, f, good)
            IN  /\ k' = [s EXCEPT !.out = {}] /\ Emit(s.out)
                /\ odd' = odd \cup Odds(f, s) /\ UNCHANGED <<pc, said, cmds>>
    BY Zenon DEF Receive
  <1> DEFINE s == net_process_packet(k, f, good)
  <1>2. /\ k' = [s EXCEPT !.out = {}] /\ Emit(s.out)
        /\ odd' = odd \cup Odds(f, s) /\ pc' = pc /\ said' = said /\ cmds' = cmds
    BY <1>1
  <1>3. Handled(s, k, f) /\ s.arp = arp_add(k.arp, f.src, f.mac)
    BY ProcessSound DEF Shape
  <1> HIDE DEF s
  <1>4. /\ Stack(k') /\ k'.out = {} /\ SameConfig(k', k) /\ k'.arp = s.arp
        /\ k'.dns = s.dns /\ k'.dhcp = s.dhcp
    BY <1>2, <1>3 DEF Handled, Stack, KFields, SameConfig
  <1>5. sent' \subseteq Replies(k, f) /\ wire' = wire
    <2>1. s.out \subseteq Replies(k, f)
      BY <1>3 DEF Handled, Shape
    <2>2. sent' = s.out /\ wire' = wire \cup UNION {Answers(g) : g \in s.out}
      BY <1>2 DEF Emit
    <2>3. \A g \in s.out : Answers(g) = {}
      BY <2>1, RepliesUnanswered
    <2> QED
      BY <2>1, <2>2, <2>3
  <1>6. pc.idx > 0 /\ s.arp[pc.idx].ip # k.arp[pc.idx].ip => "shifted" \in Odds(f, s)
    BY DEF Odds
  <1>7. pc.at = "dhcp_ack" /\ f.x.kind = "offer" /\ s.dhcp # k.dhcp => "offer_as_ack" \in Odds(f, s)
    BY DEF Odds
  <1>8. Shape'
    BY <1>2, <1>4 DEF Shape
  <1>9. /\ Filled(k'.dns, k.dns, f) /\ (f.op # "dns" => k'.dns = k.dns)
        /\ Filled(k'.dhcp, k.dhcp, f) /\ (f.op # "dhcp" => k'.dhcp = k.dhcp)
    BY <1>3, <1>4, Zenon DEF Handled
  <1>10. odd \subseteq odd'
    BY <1>2
  <1>11. Arrives(f)
    BY <1>2, <1>3, <1>4, <1>5, <1>6, <1>7, <1>8, <1>9, <1>10 DEF Arrives
  <1> QED
    BY <1>11

(* A command is typed: of the frames on the wire some stay.                 *)
Typed ==
    /\ Shape' /\ k' = k /\ odd' = odd /\ sent' = {} /\ said' = {} /\ cmds' = cmds + 1
    /\ cmds < MaxCmds /\ pc.at = "idle"
    /\ pc'.at \in {"ping", "dns", "dhcp", "tcpdump"} /\ pc'.idx = 0
    /\ wire' \subseteq wire \cup Background

LEMMA CommandEffect ==
    ASSUME Shape, NEW cmd \in Commands, Command(cmd)
    PROVE  Typed
  <1>1. PICK arg : /\ pc.at = "idle" /\ cmds < MaxCmds /\ cmds' = cmds + 1
                   /\ pc' = Begin(cmd, arg) /\ said' = {} /\ k' = k /\ odd' = odd /\ sent' = {}
                   /\ wire' = Background \cup {f \in wire : f.op \in MayBeLate(cmd)}
    BY DEF Command, At, Goto, Say
  <1>2. cmd \in {"ping", "loopback", "dns", "dhcp", "tcpdump"}
    BY NetAssumption
  <1>3. DOMAIN pc' = PcFields /\ pc'.at \in {"ping", "dns", "dhcp", "tcpdump"} /\ pc'.idx = 0
    BY <1>1, <1>2 DEF Begin, Idle, PcFields
  <1>4. wire' \subseteq wire \cup Background
    BY <1>1
  <1> QED
    BY <1>1, <1>3, <1>4 DEF Typed, Shape

LEMMA BackgroundForeign ==
    ASSUME NEW f \in Background
    PROVE  Foreign(f) /\ f.op \notin {"dns", "dhcp"}
  BY DEF Background, Frame, Foreign, MacOf

-----------------------------------------------------------------------------
(* Every step is one of these *)

PingOn ==
    /\ ShellStep /\ SameStack
    /\ pc'.at \in PingSteps
    /\ pc'.at # "ping_send" => pc'.idx \in {0, pc.idx}
    /\ pc'.at = "ping_send" => /\ pc'.arg = pc.arg /\ pc'.idx = resolve_mac(pc.arg)
                               /\ resolve_mac(pc.arg) > 0
    /\ \A r \in said' : r \in said \/ r.cmd = "ping"
    /\ \A f \in sent' :
          \/ \E ip : f = ArpRequest(ip)
          \/ /\ pc.at = "ping_send"
             /\ \E x : f = Frame("ip", "echo", k.our_ip, k.arp[pc.idx].mac, pc.arg, x)
DumpOn ==
    /\ ShellStep /\ SameStack /\ sent' = {}
    /\ pc'.at \in {"dump_arm", "dump_wait", "idle"} /\ pc'.idx \in {0, pc.idx}
    /\ \A r \in said' : r \in said \/ r.cmd = "tcpdump"
DnsBegun ==
    /\ ShellStep /\ SameConfig(k', k) /\ k'.arp = k.arp /\ sent' = {} /\ said' = said
    /\ pc.at = "dns" /\ k'.dns.xid = (k.dns.xid + 1) % XidSpace
    /\ pc'.at \in {"ping", "idle"} \/ (pc'.at = "dns_try" /\ pc'.arg = pc.arg)
    /\ pc'.idx \in {0, pc.idx}

LEMMA NextCases ==
    ASSUME Shape, Next
    PROVE  (\E f : Arrives(f)) \/ PingOn \/ DumpOn \/ DnsBegun \/ DnsOn \/ DhcpOn \/ Typed
  <1>1. CASE Receive
    BY <1>1, ReceiveEffect
  <1>2. CASE PingStart \/ PingFind \/ PingSend \/ PingArp \/ PingWait
    BY <1>2, PingEffect DEF PingOn
  <1>3. CASE DnsStart
    BY <1>3, DnsStartEffect DEF DnsBegun
  <1>4. CASE DnsTry \/ DnsFind \/ DnsArp \/ DnsSend \/ DnsWait
    BY <1>4, DnsEffect
  <1>5. CASE \/ DhcpStart \/ DhcpReset \/ DhcpDiscover \/ DhcpOffer \/ DhcpServerId
             \/ DhcpRequest \/ DhcpAck
    BY <1>5, DhcpEffect
  <1>6. CASE DumpStart \/ DumpArm \/ DumpWait
    BY <1>6, DumpEffect DEF DumpOn
  <1>7. CASE \E cmd \in Commands : Command(cmd)
    BY <1>7, CommandEffect
  <1> QED
    BY <1>1, <1>2, <1>3, <1>4, <1>5, <1>6, <1>7 DEF Next, Shell

(* The answers a step puts on the wire.                                     *)
LEMMA PingWire ==
    ASSUME PingOn, NEW g \in wire'
    PROVE  \/ g \in wire
           \/ /\ g.op \in {"reply", "echoreply"}
              /\ Foreign(g) \/ (pc.at = "ping_send" /\ k.arp[pc.idx].mac = "jex")
  <1>1. g \in wire \/ \E f \in sent' : g \in Answers(f)
    BY DEF PingOn, ShellStep, WireGrows
  <1>2. ASSUME NEW f \in sent', g \in Answers(f)
        PROVE  /\ g.op \in {"reply", "echoreply"}
               /\ Foreign(g) \/ (pc.at = "ping_send" /\ k.arp[pc.idx].mac = "jex")
    <2>1. CASE \E ip : f = ArpRequest(ip)
      <3>1. PICK ip : f = ArpRequest(ip)
        BY <2>1
      <3>2. g.op = "reply" /\ Foreign(g)
        BY <1>2, <3>1, ArpAnswers
      <3> QED
        BY <3>2
    <2>2. CASE /\ pc.at = "ping_send"
               /\ \E x : f = Frame("ip", "echo", k.our_ip, k.arp[pc.idx].mac, pc.arg, x)
      <3>1. PICK x : f = Frame("ip", "echo", k.our_ip, k.arp[pc.idx].mac, pc.arg, x)
        BY <2>2
      <3>2. g.op = "echoreply" /\ (k.arp[pc.idx].mac # "jex" => Foreign(g))
        BY <1>2, <3>1, EchoAnswers
      <3> QED
        BY <2>2, <3>2
    <2> QED
      BY <2>1, <2>2, Zenon DEF PingOn
  <1> QED
    BY <1>1, <1>2

LEMMA DnsWire ==
    ASSUME DnsOn, NEW g \in wire'
    PROVE  \/ g \in wire
           \/ g.op = "reply" /\ Foreign(g)
           \/ /\ pc.at = "dns_send" /\ g.op = "dns"
              /\ g.x.xid = k.dns.xid /\ g.x.who = pc.arg /\ g.x.recs = Recs(pc.arg)
              /\ Foreign(g) \/ k.arp[pc.idx].mac = "jex"
  <1>1. g \in wire \/ \E f \in sent' : g \in Answers(f)
    BY Zenon DEF DnsOn, ShellStep, WireGrows
  <1>2. ASSUME NEW f \in sent', g \in Answers(f)
        PROVE  \/ g.op = "reply" /\ Foreign(g)
               \/ /\ pc.at = "dns_send" /\ g.op = "dns"
                  /\ g.x.xid = k.dns.xid /\ g.x.who = pc.arg /\ g.x.recs = Recs(pc.arg)
                  /\ Foreign(g) \/ k.arp[pc.idx].mac = "jex"
    <2>1. CASE \E ip : f = ArpRequest(ip)
      <3>1. PICK ip : f = ArpRequest(ip)
        BY <2>1
      <3> QED
        BY <1>2, <3>1, ArpAnswers
    <2>2. CASE /\ pc.at = "dns_send"
               /\ f = Frame("ip", "query", k.our_ip, k.arp[pc.idx].mac, k.dns_server,
                            Payload(k.dns.xid, "", pc.arg, <<>>))
      <3> DEFINE x == Payload(k.dns.xid, "", pc.arg, <<>>)
      <3>1. x.xid = k.dns.xid /\ x.who = pc.arg
        BY DEF Payload
      <3>2. g \in Answers(Frame("ip", "query", k.our_ip, k.arp[pc.idx].mac, k.dns_server, x))
        BY <1>2, <2>2, Zenon
      <3> HIDE DEF x
      <3>3. /\ g.op = "dns" /\ (k.arp[pc.idx].mac # "jex" => Foreign(g))
            /\ g.x.xid = x.xid /\ g.x.who = x.who /\ g.x.recs = Recs(x.who)
        BY <3>2, QueryAnswers
      <3> QED
        BY <2>2, <3>1, <3>3, Zenon
    <2> QED
      BY <2>1, <2>2, Zenon DEF DnsOn
  <1> QED
    BY <1>1, <1>2

LEMMA DhcpWire ==
    ASSUME DhcpOn, pc.at = "dhcp_request" => pc.sid \in Servers, NEW g \in wire'
    PROVE  g \in wire \/ (g.op = "dhcp" /\ Foreign(g) /\ GoodReply(g.x))
  <1>1. g \in wire \/ \E f \in sent' : g \in Answers(f)
    BY Zenon DEF DhcpOn, ShellStep, WireGrows
  <1>2. ASSUME NEW f \in sent', g \in Answers(f)
        PROVE  g.op = "dhcp" /\ Foreign(g) /\ GoodReply(g.x)
    <2>1. CASE \E x : f = Frame("ip", "DISCOVER", None, "all", "all", x)
      <3>1. PICK x : f = Frame("ip", "DISCOVER", None, "all", "all", x)
        BY <2>1
      <3> QED
        BY <1>2, <3>1, DiscoverAnswers
    <2>2. CASE /\ pc.at = "dhcp_request"
               /\ f = Frame("ip", "REQUEST", None, "all", "all",
                            Payload(k.dhcp.xid, pc.ip, pc.sid, <<>>))
      <3> DEFINE x == Payload(k.dhcp.xid, pc.ip, pc.sid, <<>>)
      <3>1. x.who \in Servers
        BY <2>2, PayloadFields
      <3>2. g \in Answers(Frame("ip", "REQUEST", None, "all", "all", x))
        BY <1>2, <2>2, Zenon
      <3> HIDE DEF x
      <3> QED
        BY <3>1, <3>2, RequestAnswers
    <2> QED
      BY <2>1, <2>2, Zenon DEF DhcpOn
  <1> QED
    BY <1>1, <1>2

-----------------------------------------------------------------------------
(* DHCP: a lease is taken from a confirmation *)

DhcpFrames == \A f \in wire : f.op = "dhcp" => GoodReply(f.x)

(* Whatever dhcp_start reads from the slot is a server's reply, and after   *)
(* its request it is not an offer: except for one that came just then.      *)
DhcpReplies ==
    /\ k.dhcp.pending /\ pc.at \in {"dhcp_discover", "dhcp_offer", "dhcp_ack"}
          => GoodReply(k.dhcp.reply)
    /\ pc.at = "dhcp_sid" => GoodReply(k.dhcp.reply)
    /\ pc.at = "dhcp_request" => pc.sid \in Servers
    /\ pc.at = "dhcp_ack" /\ k.dhcp.pending /\ Inside({"offer_as_ack"})
          => k.dhcp.reply.kind # "offer"
LeaseInv == Shape /\ DhcpFrames /\ DhcpReplies /\ LeaseIsConfirmed

LEMMA InitShape == Init => Shape
  <1> SUFFICES ASSUME Init PROVE Shape
    OBVIOUS
  <1>1. DOMAIN k = KFields /\ k.out = {}
    BY DEF Init, net_init, KFields
  <1>2. DOMAIN k.dns = SlotFields /\ DOMAIN k.dhcp = SlotFields
    BY DEF Init, net_init, SlotFields
  <1>3. DOMAIN pc = PcFields
    BY DEF Init, Idle, PcFields
  <1> QED
    BY <1>1, <1>2, <1>3 DEF Shape, Stack

LEMMA LeaseInit == Init => LeaseInv
  <1> SUFFICES ASSUME Init PROVE LeaseInv
    OBVIOUS
  <1>1. DhcpFrames
    BY BackgroundForeign DEF Init, DhcpFrames
  <1>2. pc.at = "idle" /\ said = {}
    BY DEF Init, Idle
  <1> QED
    BY <1>1, <1>2, InitShape DEF LeaseInv, DhcpReplies, LeaseIsConfirmed

(* The commands other than dhcp leave DHCP replies and results alone.       *)
LEMMA LeaseElsewhere ==
    ASSUME LeaseInv, Shape', Inside({"offer_as_ack"})' => Inside({"offer_as_ack"}),
           \A f \in wire' : f \in wire \/ f.op # "dhcp",
           pc'.at \notin DhcpSteps \ {"idle"},
           \A r \in said' : r \in said \/ r.cmd # "dhcp"
    PROVE  LeaseInv'
  <1>1. DhcpFrames'
    BY DEF LeaseInv, DhcpFrames
  <1>2. DhcpReplies'
    BY DEF DhcpReplies, DhcpSteps
  <1>3. LeaseIsConfirmed'
    BY Zenon DEF LeaseInv, LeaseIsConfirmed
  <1> QED
    BY <1>1, <1>2, <1>3 DEF LeaseInv

LEMMA LeaseArrival ==
    ASSUME LeaseInv, NEW f, Arrives(f)
    PROVE  LeaseInv'
  <1> DEFINE slot == k'.dhcp
  <1>1. Shape' /\ DhcpFrames'
    BY DEF LeaseInv, Arrives, DhcpFrames
  <1>2. Inside({"offer_as_ack"})' => Inside({"offer_as_ack"})
    BY DEF Arrives, Inside
  <1>3. LeaseIsConfirmed'
    BY <1>2, Zenon DEF LeaseInv, Arrives, LeaseIsConfirmed
  <1>4. CASE slot = k.dhcp
    <2>1. DhcpReplies'
      BY <1>2, <1>4 DEF LeaseInv, Arrives, DhcpReplies
    <2> QED
      BY <1>1, <1>3, <2>1 DEF LeaseInv
  <1>5. CASE slot # k.dhcp
    <2>1. f.op = "dhcp" /\ slot.reply = f.x
      BY <1>5 DEF Arrives, Filled
    <2>2. GoodReply(slot.reply)
      BY <2>1, Zenon DEF LeaseInv, DhcpFrames, Arrives
    <2>3. pc.at = "dhcp_ack" /\ Inside({"offer_as_ack"})' => slot.reply.kind # "offer"
      BY <1>5, <2>1 DEF Arrives, Inside
    <2>4. pc' = pc
      BY DEF Arrives
    <2>5. DhcpReplies'
      <3> HIDE DEF slot
      <3>1. pc.at = "dhcp_request" => pc.sid \in Servers
        BY DEF LeaseInv, DhcpReplies
      <3> QED
        BY <2>2, <2>3, <2>4, <3>1 DEF DhcpReplies, slot
    <2> QED
      BY <1>1, <1>3, <2>5 DEF LeaseInv
  <1> QED
    BY <1>4, <1>5

LEMMA LeaseDhcp ==
    ASSUME LeaseInv, DhcpOn
    PROVE  LeaseInv'
  <1>1. Shape' /\ odd' = odd
    BY Zenon DEF DhcpOn, ShellStep
  <1>2. pc.at = "dhcp_request" => pc.sid \in Servers
    BY DEF LeaseInv, DhcpReplies
  <1>3. DhcpFrames'
    BY <1>2, DhcpWire DEF LeaseInv, DhcpFrames
  <1>4. DhcpReplies'
    <2>1. k'.dhcp.pending /\ pc'.at \in {"dhcp_discover", "dhcp_offer"} => GoodReply(k'.dhcp.reply)
      BY Zenon DEF LeaseInv, DhcpReplies, DhcpOn
    <2>2. pc'.at = "dhcp_ack" => ~k'.dhcp.pending
      BY Zenon DEF DhcpOn
    <2>3. pc'.at = "dhcp_sid" => GoodReply(k'.dhcp.reply)
      BY Zenon DEF LeaseInv, DhcpReplies, DhcpOn
    <2>4. pc'.at = "dhcp_request" => pc'.sid \in Servers
      BY OptionsSound, Zenon DEF LeaseInv, DhcpReplies, DhcpOn
    <2> QED
      BY <2>1, <2>2, <2>3, <2>4 DEF DhcpReplies
  <1>5. LeaseIsConfirmed'
    <2>1. Leased => /\ k.dhcp.reply.kind \in {"offer", "ack"}
                    /\ Inside({"offer_as_ack"}) => k.dhcp.reply.kind = "ack"
      BY OptionsSound DEF LeaseInv, DhcpReplies, Leased
    <2>2. \A r \in said' : \/ r \in said
                           \/ r.got \in {"no ack", "no server"}
                           \/ Leased /\ r.got = k.dhcp.reply.kind
      BY Zenon DEF DhcpOn
    <2>3. Inside({"offer_as_ack"})' <=> Inside({"offer_as_ack"})
      BY <1>1 DEF Inside
    <2> QED
      BY <2>1, <2>2, <2>3, Zenon DEF LeaseInv, LeaseIsConfirmed
  <1> QED
    BY <1>1, <1>3, <1>4, <1>5 DEF LeaseInv

LEMMA LeaseNext == LeaseInv /\ [Next]_vars => LeaseInv'
  <1> SUFFICES ASSUME LeaseInv, [Next]_vars PROVE LeaseInv'
    OBVIOUS
  <1>1. CASE \E f : Arrives(f)
    BY <1>1, LeaseArrival
  <1>2. CASE PingOn
    <2>1. \A g \in wire' : g \in wire \/ g.op # "dhcp"
      BY <1>2, PingWire
    <2>2. /\ Shape' /\ odd' = odd /\ pc'.at \in PingSteps
          /\ \A r \in said' : r \in said \/ r.cmd # "dhcp"
      BY <1>2 DEF PingOn, ShellStep
    <2> QED
      BY <2>1, <2>2, LeaseElsewhere DEF PingSteps, DhcpSteps, Inside
  <1>3. CASE DumpOn
    <2>1. wire' = wire
      BY <1>3 DEF DumpOn, ShellStep, WireGrows
    <2>2. /\ Shape' /\ odd' = odd /\ pc'.at \in {"dump_arm", "dump_wait", "idle"}
          /\ \A r \in said' : r \in said \/ r.cmd # "dhcp"
      BY <1>3 DEF DumpOn, ShellStep
    <2> QED
      BY <2>1, <2>2, LeaseElsewhere DEF DhcpSteps, Inside
  <1>4. CASE DnsBegun
    <2>1. wire' = wire
      BY <1>4 DEF DnsBegun, ShellStep, WireGrows
    <2>2. Shape' /\ odd' = odd /\ pc'.at \in {"ping", "idle", "dns_try"} /\ said' = said
      BY <1>4 DEF DnsBegun, ShellStep
    <2> QED
      BY <2>1, <2>2, LeaseElsewhere DEF DhcpSteps, Inside
  <1>5. CASE DnsOn
    <2>1. \A g \in wire' : g \in wire \/ g.op # "dhcp"
      BY <1>5, DnsWire
    <2>2. /\ Shape' /\ odd' = odd /\ pc'.at \in DnsSteps \cup {"ping", "idle"}
          /\ \A r \in said' : r \in said \/ r.cmd # "dhcp"
      BY <1>5, Zenon DEF DnsOn, ShellStep
    <2> QED
      BY <2>1, <2>2, LeaseElsewhere DEF DnsSteps, DhcpSteps, Inside
  <1>6. CASE DhcpOn
    BY <1>6, LeaseDhcp
  <1>7. CASE Typed
    <2>1. \A g \in wire' : g \in wire \/ g.op # "dhcp"
      BY <1>7, BackgroundForeign DEF Typed
    <2>2. /\ Shape' /\ odd' = odd /\ pc'.at \in {"ping", "dns", "dhcp", "tcpdump"} /\ said' = {}
      BY <1>7 DEF Typed
    <2> QED
      BY <2>1, <2>2, LeaseElsewhere DEF DhcpSteps, Inside
  <1>8. CASE UNCHANGED vars
    BY <1>8, Zenon DEF vars, LeaseInv, Shape, DhcpFrames, DhcpReplies, LeaseIsConfirmed, Inside
  <1>9. Shape
    BY DEF LeaseInv
  <1> QED
    BY <1>1, <1>2, <1>3, <1>4, <1>5, <1>6, <1>7, <1>8, <1>9, NextCases

(* dhcp_start configures the host from a server's confirmation and never    *)
(* from a refusal, whatever is lost, late or repeated; from an offer only   *)
(* where a second one arrives between the request and its answer.           *)
THEOREM LeaseConfirmed == Spec => []LeaseIsConfirmed
  <1>1. LeaseInv => LeaseIsConfirmed
    BY DEF LeaseInv
  <1> QED
    BY <1>1, LeaseInit, LeaseNext, PTL DEF Spec

-----------------------------------------------------------------------------
(* Routing: a unicast frame goes to its next hop *)

(* The entry i is valid, and the one of ip's next hop unless the cache was  *)
(* shifted after it had been found.                                         *)
Holds(i, ip) == /\ i \in 1..ArpSize /\ k.arp[i].valid
                /\ Inside({"shifted"}) => k.arp[i].ip = NextHop(ip)
Found == /\ pc.idx \in 0..ArpSize
         /\ pc.at = "ping_send" => Holds(pc.idx, pc.arg)
         /\ pc.at = "dns_send" => Holds(pc.idx, k.dns_server)
RouteInv ==
    /\ LeaseInv /\ Cache(k.arp) /\ (\A f \in wire : Foreign(f)) /\ Found
    /\ k.gateway_ip \in {"gw", "jex"} /\ k.dns_server \in {"dns", "far"}
    /\ FramesReachNextHop

LEMMA RouteInit == Init => RouteInv
  <1> SUFFICES ASSUME Init PROVE RouteInv
    OBVIOUS
  <1>1. Cache(k.arp)
    BY Zenon DEF Init, net_init, Cache, Free
  <1>2. \A f \in wire : Foreign(f)
    BY BackgroundForeign DEF Init
  <1>3. Found
    BY NetAssumption DEF Init, Idle, Found
  <1>4. k.gateway_ip = "gw" /\ k.dns_server = "dns" /\ sent = {}
    BY DEF Init, net_init
  <1> QED
    BY <1>1, <1>2, <1>3, <1>4, LeaseInit DEF RouteInv, FramesReachNextHop

(* The MAC copied out of such an entry.                                     *)
LEMMA HoldsMac ==
    ASSUME RouteInv, NEW i, NEW ip, Holds(i, ip)
    PROVE  /\ k.arp[i].mac # "jex"
           /\ Inside({"shifted"}) => k.arp[i].mac = MacOf(ip)
  <1>1. i \in 1..ArpSize /\ k.arp[i].mac = MacOf(k.arp[i].ip) /\ k.arp[i].ip # "jex"
    BY DEF RouteInv, Cache, Holds
  <1>2. k.arp[i].mac # "jex"
    BY <1>1 DEF MacOf
  <1>3. ASSUME Inside({"shifted"})
        PROVE  k.arp[i].mac = MacOf(ip)
    <2>1. k.arp[i].ip = IF is_local_ip(ip) THEN ip ELSE k.gateway_ip
      BY <1>3, Zenon DEF Holds, NextHop
    <2>2. k.gateway_ip \in {"gw", "jex"}
      BY DEF RouteInv
    <2> QED
      BY <1>1, <2>1, <2>2 DEF MacOf, is_local_ip
  <1> QED
    BY <1>2, <1>3

(* resolve_mac finds such an entry.                                         *)
LEMMA ResolveHolds ==
    ASSUME NEW ip, resolve_mac(ip) > 0
    PROVE  Holds(resolve_mac(ip), ip)
  <1> DEFINE i == arp_find(k.arp, NextHop(ip))
  <1>1. i \in 0..ArpSize /\ (i > 0 => k.arp[i].valid /\ k.arp[i].ip = NextHop(ip))
    BY FindSound
  <1>2. i > 0 /\ resolve_mac(ip) = i
    BY DEF resolve_mac
  <1> HIDE DEF i
  <1>3. i \in 1..ArpSize
    BY <1>1, <1>2, NetAssumption
  <1> QED
    BY <1>1, <1>2, <1>3 DEF Holds

LEMMA RouteArrival ==
    ASSUME RouteInv, NEW f, Arrives(f)
    PROVE  RouteInv'
  <1>1. LeaseInv' /\ Foreign(f)
    BY LeaseArrival, Zenon DEF RouteInv, Arrives
  <1>2. /\ Cache(k'.arp)
        /\ \A i \in 1..ArpSize : k.arp[i].valid => k'.arp[i].valid
    BY <1>1, AddSound, Zenon DEF RouteInv, Arrives, Foreign
  <1>3. /\ wire' = wire /\ pc' = pc /\ odd \subseteq odd'
        /\ k'.gateway_ip = k.gateway_ip /\ k'.dns_server = k.dns_server
        /\ pc.idx > 0 /\ k'.arp[pc.idx].ip # k.arp[pc.idx].ip => "shifted" \in odd'
        /\ sent' \subseteq Replies(k, f)
    BY Zenon DEF Arrives, SameConfig
  <1>4. ASSUME NEW ip, Holds(pc.idx, ip)
        PROVE  Holds(pc.idx, ip)'
    <2>1. pc.idx \in 1..ArpSize /\ k'.arp[pc.idx].valid
      BY <1>2, <1>4 DEF Holds
    <2>2. pc.idx > 0
      BY <2>1, NetAssumption
    <2>3. ASSUME Inside({"shifted"})'
          PROVE  k'.arp[pc.idx].ip = NextHop(ip)'
      <3>1. "shifted" \notin odd' /\ Inside({"shifted"})
        BY <1>3, <2>3 DEF Inside
      <3>2. k.arp[pc.idx].ip = NextHop(ip) /\ k'.arp[pc.idx].ip = k.arp[pc.idx].ip
        BY <1>3, <1>4, <2>2, <3>1 DEF Holds
      <3> QED
        BY <1>3, <3>2 DEF NextHop
    <2> QED
      BY <1>3, <2>1, <2>3 DEF Holds
  <1>5. Found'
    BY <1>3, <1>4 DEF RouteInv, Found
  <1>6. FramesReachNextHop'
    <2>1. \A g \in sent' : g.mac = MacOf(g.dst)
      BY <1>1, <1>3, RepliesUnanswered DEF Foreign
    <2> QED
      BY <2>1 DEF FramesReachNextHop
  <1> QED
    BY <1>1, <1>2, <1>3, <1>5, <1>6 DEF RouteInv

LEMMA RoutePing ==
    ASSUME RouteInv, PingOn, LeaseInv'
    PROVE  RouteInv'
  <1>1. /\ k'.arp = k.arp /\ k'.gateway_ip = k.gateway_ip /\ k'.dns_server = k.dns_server
        /\ odd' = odd /\ pc'.at \in PingSteps
    BY DEF PingOn, ShellStep, SameStack, SameConfig
  <1>2. pc.at = "ping_send" => Holds(pc.idx, pc.arg)
    BY DEF RouteInv, Found
  <1>3. Found'
    <2>1. CASE pc'.at = "ping_send"
      <3>1. Holds(pc'.idx, pc'.arg)
        BY <2>1, ResolveHolds DEF PingOn
      <3>2. Holds(pc.idx, pc.arg)'
        BY <1>1, <3>1 DEF Holds, NextHop, Inside
      <3>3. pc'.idx \in 0..ArpSize
        BY <3>1 DEF Holds
      <3> QED
        BY <2>1, <3>2, <3>3 DEF Found
    <2>2. CASE pc'.at # "ping_send"
      <3>1. pc'.idx \in 0..ArpSize
        BY <2>2, NetAssumption DEF PingOn, RouteInv, Found
      <3> QED
        BY <1>1, <2>2, <3>1 DEF Found, PingSteps
    <2> QED
      BY <2>1, <2>2
  <1>4. \A g \in wire' : Foreign(g)
    BY <1>2, PingWire, HoldsMac DEF RouteInv
  <1>5. FramesReachNextHop'
    <2>1. ASSUME NEW f \in sent', Inside({"shifted"})
          PROVE  f.mac \in {"all", MacOf(f.dst)}
      <3>1. CASE \E ip : f = ArpRequest(ip)
        BY <3>1 DEF ArpRequest, Frame
      <3>2. CASE /\ pc.at = "ping_send"
                 /\ \E x : f = Frame("ip", "echo", k.our_ip, k.arp[pc.idx].mac, pc.arg, x)
        <4>1. f.mac = k.arp[pc.idx].mac /\ f.dst = pc.arg
          BY <3>2 DEF Frame
        <4> QED
          BY <1>2, <2>1, <3>2, <4>1, HoldsMac, Zenon
      <3> QED
        BY <3>1, <3>2, Zenon DEF PingOn
    <2> QED
      BY <1>1, <2>1 DEF FramesReachNextHop, Inside
  <1> QED
    BY <1>1, <1>3, <1>4, <1>5 DEF RouteInv

LEMMA RouteDns ==
    ASSUME RouteInv, DnsOn, LeaseInv'
    PROVE  RouteInv'
  <1>1. /\ k'.arp = k.arp /\ k'.gateway_ip = k.gateway_ip /\ k'.dns_server = k.dns_server
        /\ odd' = odd /\ pc'.at \in DnsSteps \cup {"ping", "idle"}
    BY Zenon DEF DnsOn, ShellStep, SameConfig
  <1>2. pc.at = "dns_send" => Holds(pc.idx, k.dns_server)
    BY DEF RouteInv, Found
  <1>3. Found'
    <2>1. CASE pc'.at = "dns_send"
      <3>1. Holds(pc'.idx, k.dns_server)
        BY <2>1, ResolveHolds, Zenon DEF DnsOn
      <3>2. Holds(pc.idx, k.dns_server)'
        BY <1>1, <3>1 DEF Holds, NextHop, Inside
      <3>3. pc'.idx \in 0..ArpSize
        BY <3>1 DEF Holds
      <3> QED
        BY <2>1, <3>2, <3>3 DEF Found
    <2>2. CASE pc'.at # "dns_send"
      <3>1. pc'.idx \in 0..ArpSize
        <4>1. pc'.idx \in {0, pc.idx}
          BY <2>2, Zenon DEF DnsOn
        <4>2. pc.idx \in 0..ArpSize
          BY Zenon DEF RouteInv, Found
        <4> QED
          BY <4>1, <4>2, NetAssumption
      <3> QED
        BY <1>1, <2>2, <3>1 DEF Found, DnsSteps
    <2> QED
      BY <2>1, <2>2
  <1>4. \A g \in wire' : Foreign(g)
    BY <1>2, DnsWire, HoldsMac DEF RouteInv
  <1>5. FramesReachNextHop'
    <2>1. ASSUME NEW f \in sent', Inside({"shifted"})
          PROVE  f.mac \in {"all", MacOf(f.dst)}
      <3>1. CASE \E ip : f = ArpRequest(ip)
        BY <3>1 DEF ArpRequest, Frame
      <3>2. CASE /\ pc.at = "dns_send"
                 /\ f = Frame("ip", "query", k.our_ip, k.arp[pc.idx].mac, k.dns_server,
                              Payload(k.dns.xid, "", pc.arg, <<>>))
        <4>1. f.mac = k.arp[pc.idx].mac /\ f.dst = k.dns_server
          <5>1. PICK x : f = Frame("ip", "query", k.our_ip, k.arp[pc.idx].mac, k.dns_server, x)
            BY <3>2, Zenon
          <5> QED
            BY <5>1, FrameFields
        <4> QED
          BY <1>2, <2>1, <3>2, <4>1, HoldsMac, Zenon
      <3> QED
        BY <3>1, <3>2, Zenon DEF DnsOn
    <2> QED
      BY <1>1, <2>1 DEF FramesReachNextHop, Inside
  <1> QED
    BY <1>1, <1>3, <1>4, <1>5 DEF RouteInv

LEMMA RouteDhcp ==
    ASSUME RouteInv, DhcpOn, LeaseInv'
    PROVE  RouteInv'
  <1>1. /\ k'.arp = k.arp /\ pc'.at \in DhcpSteps /\ pc'.idx \in {0, pc.idx}
    BY Zenon DEF DhcpOn
  <1>2. Found'
    BY <1>1, NetAssumption DEF RouteInv, Found, DhcpSteps
  <1>3. \A g \in wire' : Foreign(g)
    <2>1. pc.at = "dhcp_request" => pc.sid \in Servers
      BY DEF RouteInv, LeaseInv, DhcpReplies
    <2> QED
      BY <2>1, DhcpWire DEF RouteInv
  <1>4. k'.gateway_ip \in {"gw", "jex"} /\ k'.dns_server \in {"dns", "far"}
    <2>1. Leased => /\ k.dhcp.reply.who \in {"jex", None}
                    /\ dhcp_find_option(k.dhcp.reply, "gateway") \in {"gw", None}
                    /\ dhcp_find_option(k.dhcp.reply, "dns") \in {"far", None}
      BY OptionsSound, Zenon DEF RouteInv, LeaseInv, DhcpReplies, Leased
    <2>2. k.gateway_ip \in {"gw", "jex"} /\ k.dns_server \in {"dns", "far"}
      BY DEF RouteInv
    <2> QED
      BY <2>1, <2>2, Zenon DEF DhcpOn
  <1>5. FramesReachNextHop'
    <2>1. \A f \in sent' : f.mac = "all"
      <3>1. \A f \in sent' : \E op, x : f = Frame("ip", op, None, "all", "all", x)
        BY Zenon DEF DhcpOn
      <3> QED
        BY <3>1, FrameFields
    <2> QED
      BY <2>1 DEF FramesReachNextHop
  <1> QED
    BY <1>1, <1>2, <1>3, <1>4, <1>5 DEF RouteInv

(* A step that sends nothing, finds nothing and keeps the configuration.    *)
LEMMA RouteQuiet ==
    ASSUME RouteInv, LeaseInv', sent' = {}, k'.arp = k.arp, SameConfig(k', k),
           \A g \in wire' : g \in wire \/ Foreign(g),
           pc'.idx \in {0, pc.idx}, pc'.at \notin {"ping_send", "dns_send"}
    PROVE  RouteInv'
  <1>1. Found'
    BY NetAssumption DEF RouteInv, Found
  <1>2. FramesReachNextHop'
    BY DEF FramesReachNextHop
  <1> QED
    BY <1>1, <1>2 DEF RouteInv, SameConfig

LEMMA RouteNext == RouteInv /\ [Next]_vars => RouteInv'
  <1> SUFFICES ASSUME RouteInv, [Next]_vars PROVE RouteInv'
    OBVIOUS
  <1>0. LeaseInv'
    BY LeaseNext DEF RouteInv
  <1>1. CASE \E f : Arrives(f)
    BY <1>1, RouteArrival
  <1>2. CASE PingOn
    BY <1>0, <1>2, RoutePing
  <1>3. CASE DumpOn
    <2>1. wire' = wire /\ sent' = {} /\ k'.arp = k.arp /\ SameConfig(k', k)
      BY <1>3 DEF DumpOn, ShellStep, WireGrows, SameStack
    <2>2. pc'.idx \in {0, pc.idx} /\ pc'.at \notin {"ping_send", "dns_send"}
      BY <1>3 DEF DumpOn
    <2> QED
      BY <1>0, <2>1, <2>2, RouteQuiet
  <1>4. CASE DnsBegun
    <2>1. wire' = wire /\ sent' = {} /\ k'.arp = k.arp /\ SameConfig(k', k)
      BY <1>4 DEF DnsBegun, ShellStep, WireGrows
    <2>2. pc'.idx \in {0, pc.idx} /\ pc'.at \notin {"ping_send", "dns_send"}
      BY <1>4 DEF DnsBegun
    <2> QED
      BY <1>0, <2>1, <2>2, RouteQuiet
  <1>5. CASE DnsOn
    BY <1>0, <1>5, RouteDns
  <1>6. CASE DhcpOn
    BY <1>0, <1>6, RouteDhcp
  <1>7. CASE Typed
    <2>1. sent' = {} /\ k'.arp = k.arp /\ SameConfig(k', k)
      BY <1>7 DEF Typed, SameConfig
    <2>2. pc'.idx \in {0, pc.idx} /\ pc'.at \notin {"ping_send", "dns_send"}
      BY <1>7 DEF Typed
    <2>3. \A g \in wire' : g \in wire \/ Foreign(g)
      BY <1>7, BackgroundForeign DEF Typed
    <2> QED
      BY <1>0, <2>1, <2>2, <2>3, RouteQuiet
  <1>8. CASE UNCHANGED vars
    BY <1>0, <1>8, Zenon DEF vars, RouteInv, Found, Holds, NextHop, FramesReachNextHop, Inside
  <1>9. Shape
    BY DEF RouteInv, LeaseInv
  <1> QED
    BY <1>1, <1>2, <1>3, <1>4, <1>5, <1>6, <1>7, <1>8, <1>9, NextCases

(* A unicast frame of ping, of the resolver or of the receive path carries  *)
(* the MAC of its next hop, whatever arrives between resolve_mac's lookup   *)
(* and the copy, as long as no eviction shifts the cache just then.         *)
THEOREM FramesRouted == Spec => []FramesReachNextHop
  <1>1. RouteInv => FramesReachNextHop
    BY DEF RouteInv
  <1> QED
    BY <1>1, RouteInit, RouteNext, PTL DEF Spec

-----------------------------------------------------------------------------
(* DNS: a name gets its own address *)

(* Transaction IDs are counted up by each resolution, so that an answer on  *)
(* the wire carries the current one only if it answers the current name.    *)
DnsFrame(f) ==
    /\ f.x.recs = Recs(f.x.who) /\ f.x.xid \in 0..k.dns.xid
    /\ f.x.xid = k.dns.xid /\ pc.at \in DnsSteps => f.x.who = pc.arg
DnsInv ==
    /\ LeaseInv /\ cmds \in 0..MaxCmds
    /\ k.dns.xid \in 0..cmds /\ (pc.at = "dns" => k.dns.xid < cmds)
    /\ \A f \in wire : f.op = "dns" => DnsFrame(f)
    /\ k.dns.pending /\ pc.at \in DnsOpen => k.dns.reply.recs = Recs(pc.arg)
    /\ DnsAnswersTheName

LEMMA DnsInit == Init => DnsInv
  <1> SUFFICES ASSUME Init PROVE DnsInv
    OBVIOUS
  <1>1. \A f \in wire : f.op # "dns"
    BY BackgroundForeign DEF Init
  <1>2. k.dns.xid = 0 /\ cmds = 0 /\ pc.at = "idle" /\ said = {} /\ k.dns.pending = FALSE
    BY Zenon DEF Init, net_init, Idle
  <1>3. 0 \in 0..MaxCmds /\ 0 \in 0..0
    BY NetAssumption
  <1> QED
    BY <1>1, <1>2, <1>3, LeaseInit DEF DnsInv, DnsAnswersTheName

(* A step outside the resolver.                                             *)
LEMMA DnsElsewhere ==
    ASSUME DnsInv, LeaseInv', k'.dns.xid = k.dns.xid, cmds' = cmds,
           \A g \in wire' : g \in wire \/ g.op # "dns",
           pc'.at \notin DnsSteps \cup {"dns"},
           \A r \in said' : r \in said \/ r.cmd # "dns"
    PROVE  DnsInv'
  <1>1. \A f \in wire' : f.op = "dns" => DnsFrame(f)'
    BY DEF DnsInv, DnsFrame
  <1>2. pc'.at \notin DnsOpen
    BY DEF DnsOpen, DnsSteps
  <1>3. DnsAnswersTheName'
    BY DEF DnsInv, DnsAnswersTheName
  <1> QED
    BY <1>1, <1>2, <1>3, Zenon DEF DnsInv

LEMMA DnsArrival ==
    ASSUME DnsInv, LeaseInv', NEW f, Arrives(f)
    PROVE  DnsInv'
  <1>1. f \in wire /\ wire' = wire /\ pc' = pc /\ said' = said /\ cmds' = cmds
    BY Zenon DEF Arrives
  <1>2. \/ k'.dns = k.dns
        \/ f.op = "dns" /\ f.x.xid = k.dns.xid /\ k'.dns.xid = k.dns.xid /\ k'.dns.reply = f.x
    BY Zenon DEF Arrives, Filled
  <1>3. k'.dns.xid = k.dns.xid
    BY <1>2
  <1>4. \A g \in wire' : g.op = "dns" => DnsFrame(g)'
    BY <1>1, <1>3 DEF DnsInv, DnsFrame
  <1>5. k'.dns.pending /\ pc.at \in DnsOpen => k'.dns.reply.recs = Recs(pc.arg)
    <2>1. CASE k'.dns = k.dns
      BY <2>1 DEF DnsInv
    <2>2. CASE f.op = "dns" /\ f.x.xid = k.dns.xid /\ k'.dns.reply = f.x
      <3>1. DnsFrame(f)
        BY <1>1, <2>2 DEF DnsInv
      <3>2. pc.at \in DnsOpen => f.x.recs = Recs(pc.arg)
        BY <2>2, <3>1 DEF DnsFrame, DnsOpen, DnsSteps
      <3> QED
        BY <2>2, <3>2
    <2> QED
      BY <1>2, <2>1, <2>2
  <1>6. DnsAnswersTheName'
    BY <1>1 DEF DnsInv, DnsAnswersTheName
  <1> QED
    BY <1>1, <1>3, <1>4, <1>5, <1>6 DEF DnsInv

(* net_dns_resolve takes the next transaction ID.                           *)
LEMMA DnsNewName ==
    ASSUME DnsInv, LeaseInv', DnsBegun, MaxCmds < XidSpace
    PROVE  DnsInv'
  <1>1. /\ wire' = wire /\ cmds' = cmds /\ said' = said /\ pc.at = "dns"
        /\ pc'.at \in {"ping", "idle", "dns_try"} /\ k'.dns.xid = (k.dns.xid + 1) % XidSpace
    BY DEF DnsBegun, ShellStep, WireGrows
  <1>2. /\ cmds \in 0..MaxCmds /\ k.dns.xid \in 0..cmds /\ k.dns.xid < cmds
        /\ MaxCmds \in Nat /\ XidSpace \in Nat \ {0}
    BY <1>1, NetAssumption DEF DnsInv
  <1>3. k'.dns.xid = k.dns.xid + 1 /\ k'.dns.xid \in 0..cmds
    BY <1>1, <1>2
  <1>4. ASSUME NEW f \in wire', f.op = "dns"
        PROVE  DnsFrame(f)'
    <2>1. f.x.recs = Recs(f.x.who) /\ f.x.xid \in 0..k.dns.xid
      BY <1>1, <1>4 DEF DnsInv, DnsFrame
    <2>2. f.x.xid \in 0..k'.dns.xid /\ f.x.xid # k'.dns.xid
      BY <1>2, <1>3, <2>1
    <2> QED
      BY <2>1, <2>2 DEF DnsFrame
  <1>5. pc'.at \notin DnsOpen \cup {"dns"}
    BY <1>1 DEF DnsOpen
  <1>6. DnsAnswersTheName'
    BY <1>1 DEF DnsInv, DnsAnswersTheName
  <1> QED
    BY <1>1, <1>2, <1>3, <1>4, <1>5, <1>6 DEF DnsInv

LEMMA DnsGoesOn ==
    ASSUME DnsInv, LeaseInv', DnsOn
    PROVE  DnsInv'
  <1>1. /\ k'.dns.xid = k.dns.xid /\ cmds' = cmds /\ pc.at \in DnsSteps
        /\ pc'.at \in {"ping", "idle"} \/ (pc'.at \in DnsSteps /\ pc'.arg = pc.arg)
    BY Zenon DEF DnsOn, ShellStep
  <1>2. ASSUME NEW g \in wire', g.op = "dns"
        PROVE  DnsFrame(g)'
    <2>1. CASE g \in wire
      BY <1>1, <1>2, <2>1 DEF DnsInv, DnsFrame, DnsSteps
    <2>2. CASE g.x.xid = k.dns.xid /\ g.x.who = pc.arg /\ g.x.recs = Recs(pc.arg)
      <3>1. k.dns.xid \in 0..k.dns.xid
        BY NetAssumption DEF DnsInv
      <3> QED
        BY <1>1, <2>2, <3>1 DEF DnsFrame, DnsSteps
    <2> QED
      BY <1>2, <2>1, <2>2, DnsWire, Zenon
  <1>3. k'.dns.pending /\ pc'.at \in DnsOpen => k'.dns.reply.recs = Recs(pc'.arg)
    BY <1>1, Zenon DEF DnsInv, DnsOn, DnsOpen
  <1>4. DnsAnswersTheName'
    <2>1. pc.at = "dns_wait" /\ k.dns.pending => dns_parse_response(k.dns.reply) = AddrOf(pc.arg)
      BY RecsSound, Zenon DEF DnsInv, DnsOpen
    <2>2. \A r \in said' : \/ r \in said
                           \/ r.about = pc.arg /\ r.got = AddrOf(pc.arg)
      BY <2>1, Zenon DEF DnsOn
    <2> QED
      BY <2>2 DEF DnsInv, DnsAnswersTheName
  <1>5. pc'.at # "dns"
    BY <1>1 DEF DnsSteps
  <1> QED
    BY <1>1, <1>2, <1>3, <1>4, <1>5, Zenon DEF DnsInv

LEMMA DnsNext == MaxCmds < XidSpace /\ DnsInv /\ [Next]_vars => DnsInv'
  <1> SUFFICES ASSUME MaxCmds < XidSpace, DnsInv, [Next]_vars PROVE DnsInv'
    OBVIOUS
  <1>0. LeaseInv'
    BY LeaseNext DEF DnsInv
  <1>1. CASE \E f : Arrives(f)
    BY <1>0, <1>1, DnsArrival
  <1>2. CASE PingOn
    <2>1. \A g \in wire' : g \in wire \/ g.op # "dns"
      BY <1>2, PingWire
    <2>2. /\ k'.dns.xid = k.dns.xid /\ cmds' = cmds /\ pc'.at \in PingSteps
          /\ \A r \in said' : r \in said \/ r.cmd # "dns"
      BY <1>2, Zenon DEF PingOn, ShellStep, SameStack
    <2> QED
      BY <1>0, <2>1, <2>2, DnsElsewhere DEF PingSteps, DnsSteps
  <1>3. CASE DumpOn
    <2>1. wire' = wire
      BY <1>3 DEF DumpOn, ShellStep, WireGrows
    <2>2. /\ k'.dns.xid = k.dns.xid /\ cmds' = cmds
          /\ pc'.at \in {"dump_arm", "dump_wait", "idle"}
          /\ \A r \in said' : r \in said \/ r.cmd # "dns"
      BY <1>3 DEF DumpOn, ShellStep, SameStack
    <2> QED
      BY <1>0, <2>1, <2>2, DnsElsewhere DEF DnsSteps
  <1>4. CASE DnsBegun
    BY <1>0, <1>4, DnsNewName
  <1>5. CASE DnsOn
    BY <1>0, <1>5, DnsGoesOn
  <1>6. CASE DhcpOn
    <2>1. \A g \in wire' : g \in wire \/ g.op # "dns"
      <3>1. pc.at = "dhcp_request" => pc.sid \in Servers
        BY DEF DnsInv, LeaseInv, DhcpReplies
      <3> QED
        BY <1>6, <3>1, DhcpWire
    <2>2. /\ k'.dns.xid = k.dns.xid /\ cmds' = cmds /\ pc'.at \in DhcpSteps
          /\ \A r \in said' : r \in said \/ r.cmd # "dns"
      BY <1>6, Zenon DEF DhcpOn, ShellStep
    <2> QED
      BY <1>0, <2>1, <2>2, DnsElsewhere DEF DhcpSteps, DnsSteps
  <1>7. CASE Typed
    <2>1. \A g \in wire' : g \in wire \/ g.op # "dns"
      BY <1>7, BackgroundForeign DEF Typed
    <2>2. /\ k' = k /\ cmds' = cmds + 1 /\ cmds < MaxCmds /\ said' = {}
          /\ pc'.at \in {"ping", "dns", "dhcp", "tcpdump"}
      BY <1>7 DEF Typed
    <2>3. cmds' \in 0..MaxCmds /\ k'.dns.xid \in 0..cmds' /\ k'.dns.xid < cmds'
      BY <2>2, NetAssumption DEF DnsInv
    <2>4. pc'.at \notin DnsSteps \cup DnsOpen
      BY <2>2 DEF DnsSteps, DnsOpen
    <2>5. \A g \in wire' : g.op = "dns" => DnsFrame(g)'
      BY <2>1, <2>2, <2>4 DEF DnsInv, DnsFrame
    <2> QED
      BY <1>0, <2>2, <2>3, <2>4, <2>5, Zenon DEF DnsInv, DnsAnswersTheName
  <1>8. CASE UNCHANGED vars
    BY <1>0, <1>8, Zenon DEF vars, DnsInv, DnsFrame, DnsAnswersTheName
  <1>9. Shape
    BY DEF DnsInv, LeaseInv
  <1> QED
    BY <1>1, <1>2, <1>3, <1>4, <1>5, <1>6, <1>7, <1>8, <1>9, NextCases

(* The address net_dns_resolve returns for a name is one the server gave    *)
(* for that name, however late answers to earlier names and attempts come,  *)
(* until as many names have been resolved as there are transaction IDs      *)
(* (65536 in the code).                                                     *)
THEOREM NameGetsItsAddress ==
    ASSUME MaxCmds < XidSpace
    PROVE  Spec => []DnsAnswersTheName
  <1>1. DnsInv => DnsAnswersTheName
    BY DEF DnsInv
  <1>2. DnsInv /\ [Next]_vars => DnsInv'
    BY DnsNext
  <1> QED
    BY <1>1, <1>2, DnsInit, PTL DEF Spec

=============================================================================
