------------------------------ MODULE RTL8139 ------------------------------
(***************************************************************************)
(* The RTL8139 driver (src/src/drivers/rtl8139.c) between the card and the *)
(* network stack: the receive ring the card fills and rtl8139_handler and  *)
(* rtl8139_poll_rx drain, and the transmit descriptors that                *)
(* rtl8139_send_packet uses in turn, from the shell and from interrupts.   *)
(*                                                                         *)
(* There is one processor.  `stack' holds the calls under way, innermost   *)
(* first, and only the innermost one runs; an interrupt puts a handler on  *)
(* top of whatever runs while `intr' (the IF flag) is set.  What the       *)
(* network stack does with one frame is the sequence of its effects on the *)
(* driver (Work): the buffers it sends, the sti of handle_tcp, the polling *)
(* and the hlt of send_tcp_segment while it has no MAC address.            *)
(*                                                                         *)
(* `odd' names what the driver does not guard against.  What it does next  *)
(* is not what it should be, and but for `again' a behaviour ends there:     *)
(*   nested    a drain starts while an interrupted one has not stored      *)
(*             rx_offset: it takes the same frames again (102, 273)        *)
(*   stale     a leftover of an earlier lap round the ring is taken for a  *)
(*             header: nothing clears them, CR_BUFE is not read (114, 301) *)
(*   preempted rtl8139_send_packet is entered while an interrupted call    *)
(*             has not moved on to the next descriptor (355-377)           *)
(*   reused    a packet is built in a buffer the card has yet to read      *)
(*   again     a handler polls the ring (tcp.c:92): the poll takes the     *)
(*             frame being handled again; the behaviour goes on without    *)
(*             new frames or calls, to the hlt and out of the drains       *)
(*   hang      hlt with interrupts off (tcp.c:100)                         *)
(***************************************************************************)
EXTENDS Integers, Sequences

CONSTANTS RX_BUF_SIZE,  \* bytes of the receive ring
          RX_CAPR_GAP,  \* bytes CAPR is kept behind rx_offset
          Lens,         \* the lengths of frames, CRC included
          NDesc,        \* transmit descriptors; 4 in the code
          MaxFrames,    \* bound on frames that arrive
          MaxCalls      \* bound on calls the shell makes

(* The ring is a whole number of cells and longer than any frame; a frame  *)
(* has its CRC (32 KB in the code; an Ethernet frame has up to 1522 bytes). *)
ASSUME SizesAssumption ==
    /\ RX_BUF_SIZE \in Nat /\ RX_BUF_SIZE % 4 = 0
    /\ RX_CAPR_GAP \in 1..(RX_BUF_SIZE - 1) /\ RX_CAPR_GAP % 4 = 0
    /\ Lens \subseteq 4..(RX_BUF_SIZE - 8)
    /\ NDesc \in Nat \ {0}
    /\ MaxFrames \in Nat /\ MaxCalls \in Nat

VARIABLES ring,      \* the receive ring, a cell for each 4 bytes
          wptr,      \* where the card writes the next frame
          capr,      \* the CAPR register
          stored,    \* the frames the card has put in the ring
          missed,    \* how many it had no room for
          pending,   \* the interrupt status register
          rx_offset, used, current_tx_desc,  \* the driver's variables
          tsd, tsad, \* the descriptors' status and address registers
          next_tx,   \* the descriptor the card transmits from next
          memory,    \* the packet in each transmit buffer
          handed,    \* packets passed to rtl8139_send_packet, in order
          wire,      \* packets the card transmitted, in order
          handled,   \* frames passed to net_process_packet, in order
          stack, intr, calls, odd

rx == <<ring, wptr, capr, stored, missed, rx_offset, handled>>
tx == <<used, current_tx_desc, tsd, tsad, next_tx, memory, handed, wire>>
vars == <<rx, tx, pending, stack, intr, calls, odd>>

Buffers == {"send_buf", "reply_buf", "pkt_buf"}

(* What the network stack has the driver do for one frame: nothing, an ARP *)
(* or echo reply, the ACK of data (copied between cli and sti), and the    *)
(* duplicate ACK of data out of order to a peer without a cached address.  *)
Work == {<<>>, <<"reply_buf">>, <<"sti", "pkt_buf">>,
         <<"send_buf", "poll", "hlt", "pkt_buf">>}

(* And what a shell command has it do between two points where it waits. *)
ShellWork == {<<"send_buf">>, <<"pkt_buf">>, <<"poll">>}

Aligned(n) == ((n + 3) \div 4) * 4

(* A frame takes a header of 4 bytes and its own bytes, rounded up. *)
Advance(offset, len) ==
    LET end == Aligned(offset + len + 4)
    IN  IF end >= RX_BUF_SIZE THEN end - RX_BUF_SIZE ELSE end

Extent(from, to) == (to - from) % RX_BUF_SIZE

(* Cells: part 0 of a frame is its header, the others its bytes. *)
Empty == [id |-> 0, part |-> 0]
CellsOf(len) == Aligned(len + 4) \div 4
CellAt(at, k) == ((at \div 4) + k) % (RX_BUF_SIZE \div 4)

Halted == odd \ {"again"} # {}

(***************************************************************************)
(* The card.                                                               *)
(***************************************************************************)
Fits(len) ==
    LET avail == Extent(wptr, capr)
    IN  avail = 0 \/ Aligned(len + 4) < avail

Store(len) ==
    LET id == Len(stored) + 1
        part(c) == CHOOSE k \in 0..(CellsOf(len) - 1) : CellAt(wptr, k) = c
        fresh == {CellAt(wptr, k) : k \in 0..(CellsOf(len) - 1)}
    IN  /\ ring' = [c \in DOMAIN ring |->
                      IF c \in fresh THEN [id |-> id, part |-> part(c)] ELSE ring[c]]
        /\ stored' = Append(stored, [len |-> len, at |-> wptr])
        /\ wptr' = (wptr + Aligned(len + 4)) % RX_BUF_SIZE
        /\ pending' = pending \cup {"ROK"}
        /\ UNCHANGED missed

Arrive(len) ==
    /\ odd = {}
    /\ Len(stored) + missed < MaxFrames
    /\ \/ Fits(len) /\ Store(len)
       \/ /\ ~Fits(len)
          /\ missed' = missed + 1
          /\ UNCHANGED <<ring, stored, wptr, pending>>
    /\ UNCHANGED <<capr, rx_offset, handled, tx, stack, intr, calls, odd>>

(* The card reads the buffer when it gets to it, and then reports TOK. *)
Transmit ==
    /\ ~Halted
    /\ tsd[next_tx] = "busy"
    /\ wire' = Append(wire, memory[tsad[next_tx]])
    /\ tsd' = [tsd EXCEPT ![next_tx] = "TOK"]
    /\ next_tx' = (next_tx + 1) % NDesc
    /\ pending' = pending \cup {"TOK"}
    /\ UNCHANGED <<rx, used, current_tx_desc, tsad, memory, handed,
                   stack, intr, calls, odd>>

(***************************************************************************)
(* Calls under way.  A drain is at "look" before it reads a header and at  *)
(* "frame" while the frame's work is done; `open' records that this work   *)
(* has executed sti since the drain began.                                 *)
(***************************************************************************)
IsDrain(call) == call.op \in {"isr", "poll"}
Drain(op) == [op |-> op, at |-> "look", off |-> rx_offset, id |-> 0,
              todo |-> <<>>, saved |-> intr, open |-> FALSE]
Shell(todo) == [op |-> "shell", todo |-> todo]
Send(buf) == [op |-> "send", at |-> "call", buf |-> buf, port |-> 0]

Draining == \E i \in DOMAIN stack : IsDrain(stack[i])

Top == stack[1]
Replace(call) == stack' = <<call>> \o Tail(stack)
Return == stack' = Tail(stack)
Call(callee) == stack' = <<callee, [Top EXCEPT !.todo = Tail(@)]>> \o Tail(stack)

(***************************************************************************)
(* rtl8139_handler: status is read and acknowledged; without ROK the       *)
(* handler does nothing more.                                              *)
(***************************************************************************)
Interrupt ==
    /\ ~Halted /\ intr /\ pending # {}
    /\ pending' = {}
    /\ \/ /\ "ROK" \in pending
          /\ stack' = <<Drain("isr")>> \o stack
          /\ intr' = FALSE
          /\ odd' = odd \cup {o \in {"nested"} : Draining}
       \/ /\ "ROK" \notin pending
          /\ UNCHANGED <<stack, intr, odd>>
    /\ UNCHANGED <<rx, tx, calls>>

(* The cell at the drain's offset, where the card has put nothing since    *)
(* the last lap when the offset is the card's own: bytes of an old frame   *)
(* may or may not look like a header.                                      *)
Cell == ring[Top.off \div 4]
IsHeader == Cell # Empty /\ Cell.part = 0 /\ Top.off # wptr
Leftover == Cell # Empty /\ ~IsHeader
NoHeader == Cell = Empty \/ (Leftover /\ Cell.part # 0)

Take_capr_first(work) ==
    /\ IsHeader
    /\ "again" \in odd => work = <<>>
    /\ handled' = Append(handled, Cell.id)
    /\ Replace([Top EXCEPT !.at = "frame", !.id = Cell.id, !.todo = work])
    /\ capr' = (Advance(Top.off, stored[Cell.id].len) - RX_CAPR_GAP) % RX_BUF_SIZE
    /\ UNCHANGED <<ring, wptr, stored, missed, rx_offset, intr, odd>>

Take(work) ==
    /\ IsHeader
    /\ "again" \in odd => work = <<>>
    /\ handled' = Append(handled, Cell.id)
    /\ Replace([Top EXCEPT !.at = "frame", !.id = Cell.id,
                           !.todo = work])
    /\ UNCHANGED <<ring, wptr, capr, stored, missed, rx_offset, intr, odd>>

Misread ==
    /\ Leftover
    /\ odd' = odd \cup {"stale"}
    /\ UNCHANGED <<rx, stack, intr>>

Finish_offset_kept ==
    /\ NoHeader
    /\ rx_offset' = rx_offset
    /\ capr' = (Top.off - RX_CAPR_GAP) % RX_BUF_SIZE
    /\ intr' = (Top.op = "isr" \/ intr \/ Top.saved)
    /\ Return
    /\ UNCHANGED <<ring, wptr, stored, missed, handled, odd>>

Finish_sti ==
    /\ NoHeader
    /\ rx_offset' = Top.off
    /\ capr' = (Top.off - RX_CAPR_GAP) % RX_BUF_SIZE
    /\ intr' = TRUE
    /\ Return
    /\ UNCHANGED <<ring, wptr, stored, missed, handled, odd>>

(* The end of a drain: how far it read is stored and told to the card, and *)
(* IF is as it was (iret in the handler, sti if it was set in poll_rx).    *)
Finish ==
    /\ NoHeader
    /\ rx_offset' = Top.off
    /\ capr' = (Top.off - RX_CAPR_GAP) % RX_BUF_SIZE
    /\ intr' = (Top.op = "isr" \/ intr \/ Top.saved)
    /\ Return
    /\ UNCHANGED <<ring, wptr, stored, missed, handled, odd>>

Look ==
    /\ ~Halted /\ stack # <<>> /\ IsDrain(Top) /\ Top.at = "look"
    /\ (\E work \in Work : Take(work)) \/ Misread \/ Finish
    /\ UNCHANGED <<tx, pending, calls>>

Step_single ==
    /\ ~Halted /\ stack # <<>> /\ IsDrain(Top) /\ Top.at = "frame"
    /\ Top.todo = <<>>
    /\ rx_offset' = Advance(Top.off, stored[Top.id].len)
    /\ capr' = (rx_offset' - RX_CAPR_GAP) % RX_BUF_SIZE
    /\ intr' = (Top.op = "isr" \/ intr \/ Top.saved)
    /\ Return
    /\ UNCHANGED <<ring, wptr, stored, missed, handled, tx, pending, calls, odd>>

Step ==
    /\ ~Halted /\ stack # <<>> /\ IsDrain(Top) /\ Top.at = "frame"
    /\ Top.todo = <<>>
    /\ Replace([Top EXCEPT !.at = "look",
                           !.off = Advance(@, stored[Top.id].len)])
    /\ UNCHANGED <<rx, tx, pending, intr, calls, odd>>

(***************************************************************************)
(* What a frame or a shell command has the driver do.                      *)
(***************************************************************************)
Busy(call) == "todo" \in DOMAIN call /\ call.todo # <<>>
Doing(what) == ~Halted /\ stack # <<>> /\ Busy(Top) /\ Head(Top.todo) = what

(* A packet is built in the buffer and rtl8139_send_packet called. *)
StartSend(buf) ==
    /\ Doing(buf)
    /\ handed' = Append(handed, Len(handed) + 1)
    /\ memory' = [memory EXCEPT ![buf] = Len(handed) + 1]
    /\ Call(Send(buf))
    /\ odd' = odd
         \cup {o \in {"preempted"} : \E i \in DOMAIN stack : stack[i].op = "send"}
         \cup {o \in {"reused"} :
                \/ \E d \in DOMAIN tsd : tsd[d] = "busy" /\ tsad[d] = buf
                \/ \E i \in DOMAIN stack : stack[i].op = "send" /\ stack[i].buf = buf}
    /\ UNCHANGED <<rx, used, current_tx_desc, tsd, tsad, next_tx, wire,
                   pending, intr, calls>>

StartPoll ==
    /\ Doing("poll")
    /\ Call(Drain("poll"))
    /\ intr' = FALSE
    /\ odd' = odd \cup {o \in {"again"} : Draining}
    /\ UNCHANGED <<rx, tx, pending, calls>>

(* Every drain on the stack goes on with interrupts enabled. *)
Sti ==
    /\ Doing("sti")
    /\ intr' = TRUE
    /\ stack' = [i \in DOMAIN stack |->
                   LET c == IF i = 1 THEN [Top EXCEPT !.todo = Tail(@)] ELSE stack[i]
                   IN  IF IsDrain(c) THEN [c EXCEPT !.open = TRUE] ELSE c]
    /\ UNCHANGED <<rx, tx, pending, calls, odd>>

(* The timer ends a hlt, unless interrupts are off. *)
Hlt ==
    /\ Doing("hlt")
    /\ IF intr THEN Replace([Top EXCEPT !.todo = Tail(@)]) /\ UNCHANGED odd
               ELSE odd' = odd \cup {"hang"} /\ UNCHANGED stack
    /\ UNCHANGED <<rx, tx, pending, intr, calls>>

(***************************************************************************)
(* rtl8139_send_packet.  current_tx_desc is read anew by every statement,  *)
(* the port whose TOK is awaited only once.                                *)
(***************************************************************************)
Sending(at) == ~Halted /\ stack # <<>> /\ Top.op = "send" /\ Top.at = at
Goto(at) == Replace([Top EXCEPT !.at = at])

SendCall_no_wait ==
    /\ Sending("call")
    /\ Replace([Top EXCEPT !.port = current_tx_desc, !.at = "mark"])
    /\ UNCHANGED tx

SendCall ==
    /\ Sending("call")
    /\ Replace([Top EXCEPT !.port = current_tx_desc,
                           !.at = IF used[current_tx_desc] THEN "spin" ELSE "mark"])
    /\ UNCHANGED tx

SendSpin ==
    /\ Sending("spin")
    /\ tsd[Top.port] = "TOK"
    /\ Goto("mark")
    /\ UNCHANGED tx

SendMark ==
    /\ Sending("mark")
    /\ used' = [used EXCEPT ![current_tx_desc] = TRUE]
    /\ tsad' = [tsad EXCEPT ![current_tx_desc] = Top.buf]
    /\ Goto("start")
    /\ UNCHANGED <<current_tx_desc, tsd, next_tx, memory, handed, wire>>

SendStart ==
    /\ Sending("start")
    /\ tsd' = [tsd EXCEPT ![current_tx_desc] = "busy"]
    /\ Goto("move")
    /\ UNCHANGED <<used, current_tx_desc, tsad, next_tx, memory, handed, wire>>

SendMove ==
    /\ Sending("move")
    /\ current_tx_desc' = (current_tx_desc + 1) % NDesc
    /\ Return
    /\ UNCHANGED <<used, tsd, tsad, next_tx, memory, handed, wire>>

SendPacket ==
    /\ \/ SendCall \/ SendSpin \/ SendMark
       \/ SendStart \/ SendMove
    /\ UNCHANGED <<rx, pending, intr, calls, odd>>

(***************************************************************************)
(* The shell.                                                              *)
(***************************************************************************)
Command(todo) ==
    /\ odd = {} /\ stack = <<>> /\ calls < MaxCalls
    /\ calls' = calls + 1
    /\ stack' = <<Shell(todo)>>
    /\ UNCHANGED <<rx, tx, pending, intr, odd>>

CommandEnd ==
    /\ ~Halted /\ stack # <<>> /\ Top.op = "shell" /\ Top.todo = <<>>
    /\ Return
    /\ UNCHANGED <<rx, tx, pending, intr, calls, odd>>

(* After init_rtl8139. *)
Init ==
    /\ ring = [c \in 0..((RX_BUF_SIZE \div 4) - 1) |-> Empty]
    /\ wptr = 0 /\ capr = 0 /\ rx_offset = 0
    /\ stored = <<>> /\ missed = 0 /\ handled = <<>>
    /\ pending = {}
    /\ used = [d \in 0..(NDesc - 1) |-> FALSE]
    /\ current_tx_desc = 0 /\ next_tx = 0
    /\ tsd = [d \in 0..(NDesc - 1) |-> "reset"]
    /\ tsad = [d \in 0..(NDesc - 1) |-> "none"]
    /\ memory = [b \in Buffers \cup {"none"} |-> 0]
    /\ handed = <<>> /\ wire = <<>>
    /\ stack = <<>> /\ intr = TRUE /\ calls = 0 /\ odd = {}

(* The processor runs the innermost call. *)
Run == \/ Look \/ Step \/ StartPoll \/ Sti \/ Hlt \/ SendPacket \/ CommandEnd
       \/ \E buf \in Buffers : StartSend(buf)

(* Frames and calls have ended, the driver is lost, or it executes pause. *)
Quiet ==
    /\ \/ Halted
       \/ Sending("spin")
       \/ /\ stack = <<>> /\ pending = {}
          /\ \/ odd # {}
             \/ calls = MaxCalls /\ Len(stored) + missed = MaxFrames
    /\ UNCHANGED vars

Next == \/ Run \/ Interrupt \/ Transmit \/ Quiet
        \/ \E len \in Lens : Arrive(len)
        \/ \E todo \in ShellWork : Command(todo)

(* The processor and the card go on, and a pending interrupt is taken.     *)
(* Frames need not arrive and the shell need not call.                     *)
Spec == Init /\ [][Next]_vars /\ WF_vars(Run) /\ WF_vars(Interrupt) /\ WF_vars(Transmit)

(***************************************************************************)
(* Properties.                                                             *)
(***************************************************************************)
(* The variables have their types: offsets in the ring are inside it and   *)
(* at a multiple of 4, wherever a frame of odd length ended.               *)
TypeOK ==
    /\ \A c \in DOMAIN ring : ring[c].id \in 0..Len(stored)
    /\ {wptr, capr, rx_offset} \subseteq {4 * n : n \in 0..((RX_BUF_SIZE \div 4) - 1)}
    /\ pending \subseteq {"ROK", "TOK"}
    /\ {current_tx_desc, next_tx} \subseteq 0..(NDesc - 1)
    /\ used \in [0..(NDesc - 1) -> BOOLEAN]
    /\ tsd \in [0..(NDesc - 1) -> {"reset", "busy", "TOK"}]
    /\ intr \in BOOLEAN
    /\ odd \subseteq {"nested", "stale", "preempted", "reused", "hang", "again"}

(* rtl8139_handler and rtl8139_poll_rx pass every frame the card stored to *)
(* net_process_packet once, in the order of arrival, whichever of the two  *)
(* gets to it and however often the ring wraps.                            *)
HandledOnce ==
    "again" \notin odd => handled = [i \in 1..Len(handled) |-> i]

(* The CAPR a drain writes never lets the card overwrite a frame that has  *)
(* not been handled, or the one being handled in place in the ring.        *)
FramesIntact ==
    "again" \notin odd =>
    LET beingHandled == \E i \in DOMAIN stack : IsDrain(stack[i]) /\ stack[i].at = "frame"
        first == IF beingHandled THEN Len(handled) ELSE Len(handled) + 1
    IN  \A id \in first..Len(stored) : \A k \in 0..(CellsOf(stored[id].len) - 1) :
          ring[CellAt(stored[id].at, k)] = [id |-> id, part |-> k]

(* A drain runs with interrupts off unless the handling of a frame itself  *)
(* enabled them: poll_rx inside a handler does not enable them on its way  *)
(* out, so the handler is not entered a second time.                       *)
DrainsMasked ==
    \A i \in DOMAIN stack : IsDrain(stack[i]) /\ ~stack[i].open => ~intr

(* What the card transmits is what was passed to rtl8139_send_packet, once *)
(* each, in that order and unaltered, although descriptors are reused and  *)
(* the function returns before the card has read the buffer.               *)
SentInOrder ==
    Len(wire) <= Len(handed) /\ \A i \in 1..Len(wire) : wire[i] = handed[i]

(* In the end every frame stored has been handled, every packet            *)
(* transmitted and every call has returned: the interrupt acknowledged     *)
(* before the drain is raised again by a frame the drain did not see, and  *)
(* waiting for TOK on a descriptor ends, also the first time it is used.   *)
AllDone ==
    <>[](Halted \/ (/\ stack = <<>> /\ wire = handed
                    /\ "again" \in odd \/ Len(handled) = Len(stored)))

=============================================================================
