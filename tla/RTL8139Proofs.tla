--------------------------- MODULE RTL8139Proofs ---------------------------
(***************************************************************************)
(* What holds of the driver of the RTL8139 (module RTL8139) for a ring of   *)
(* any size, any lengths of frames and any number of descriptors.           *)
(***************************************************************************)
EXTENDS RTL8139, TLAPS

(***************************************************************************)
(* Arithmetic of the ring: what % does to a number at most one lap away,    *)
(* and rounding up to cells of 4 bytes.                                     *)
(***************************************************************************)
(* A number inside the ring, or of a descriptor, is its own remainder.      *)
LEMMA ModInside ==
    ASSUME NEW n \in Nat \ {0}, NEW x \in 0..(n - 1)
    PROVE  x % n = x
  OBVIOUS

(* One lap on.                                                              *)
LEMMA ModAbove ==
    ASSUME NEW n \in Nat \ {0}, NEW x \in n..(2 * n - 1)
    PROVE  x % n = x - n
  OBVIOUS

(* One lap back.                                                            *)
LEMMA ModBelow ==
    ASSUME NEW n \in Nat \ {0}, NEW x \in (-n)..(-1)
    PROVE  x % n = x + n
  OBVIOUS

(* Both in one, for a sum.                                                  *)
LEMMA ModSum ==
    ASSUME NEW n \in Nat \ {0}, NEW a \in Nat, NEW s \in Nat, a + s < 2 * n
    PROVE  (a + s) % n = IF a + s >= n THEN a + s - n ELSE a + s
  <1> DEFINE x == a + s
  <1>1. x \in Nat /\ x < 2 * n
    OBVIOUS
  <1> HIDE DEF x
  <1>2. CASE x >= n
    <2>1. x % n = x - n
      BY <1>1, <1>2, ModAbove
    <2> QED BY <1>2, <2>1 DEF x
  <1>3. CASE ~(x >= n)
    <2>1. x % n = x
      BY <1>1, <1>3, ModInside
    <2> QED BY <1>3, <2>1 DEF x
  <1> QED BY <1>2, <1>3

(* Rounding up reaches the next multiple of 4.                              *)
LEMMA AlignedFacts ==
    ASSUME NEW n \in Nat
    PROVE  /\ Aligned(n) \in Nat
           /\ Aligned(n) % 4 = 0
           /\ n <= Aligned(n) /\ Aligned(n) <= n + 3
  BY DEF Aligned

(* Rounding up from an offset that is itself a multiple of 4.               *)
LEMMA AlignedFrom ==
    ASSUME NEW n \in Nat, NEW o \in Nat, o % 4 = 0
    PROVE  Aligned(o + n) = o + Aligned(n)
  BY DEF Aligned

Offsets == {o \in 0..(RX_BUF_SIZE - 1) : o % 4 = 0}
Descs == 0..(NDesc - 1)

(* What a frame takes of the ring is less than the ring.                    *)
LEMMA FrameSize ==
    ASSUME NEW len \in Lens
    PROVE  /\ len \in Nat
           /\ Aligned(len + 4) \in 8..(RX_BUF_SIZE - 4) /\ Aligned(len + 4) \in Nat
           /\ Aligned(len + 4) % 4 = 0
           /\ CellsOf(len) \in 2..((RX_BUF_SIZE \div 4) - 1) /\ CellsOf(len) \in Nat
           /\ 4 * CellsOf(len) = Aligned(len + 4)
  <1>1. len \in Nat /\ len >= 4 /\ len <= RX_BUF_SIZE - 8
    BY SizesAssumption
  <1>2. RX_BUF_SIZE \in Nat /\ RX_BUF_SIZE % 4 = 0
    BY SizesAssumption
  <1> QED BY <1>1, <1>2 DEF Aligned, CellsOf

(* The card and the driver agree where the next frame begins: one lap is    *)
(* all that Advance can be over the end of the ring.                        *)
LEMMA AdvanceWraps ==
    ASSUME NEW off \in Offsets, NEW len \in Lens
    PROVE  /\ Advance(off, len) \in Offsets
           /\ Advance(off, len) = (off + Aligned(len + 4)) % RX_BUF_SIZE
  <1>1. /\ len \in Nat /\ Aligned(len + 4) \in 8..(RX_BUF_SIZE - 4)
        /\ Aligned(len + 4) % 4 = 0
    BY FrameSize
  <1>2. off \in 0..(RX_BUF_SIZE - 1) /\ off % 4 = 0
    BY DEF Offsets
  <1>3. RX_BUF_SIZE \in Nat \ {0} /\ RX_BUF_SIZE % 4 = 0
    BY SizesAssumption
  <1>4. Aligned(off + len + 4) = off + Aligned(len + 4)
    <2>1. off + len + 4 = off + (len + 4) /\ off \in Nat /\ len + 4 \in Nat
      BY <1>1, <1>2
    <2>2. Aligned(off + (len + 4)) = off + Aligned(len + 4)
      BY <2>1, <1>2, AlignedFrom, Zenon
    <2> QED BY <2>1, <2>2
  <1> DEFINE end == off + Aligned(len + 4)
  <1>5. end \in 0..(2 * RX_BUF_SIZE - 1) /\ end % 4 = 0
    BY <1>1, <1>2, <1>3
  <1>6. Advance(off, len) = IF end >= RX_BUF_SIZE THEN end - RX_BUF_SIZE ELSE end
    BY <1>4 DEF Advance
  <1> HIDE DEF end
  <1>7. CASE end >= RX_BUF_SIZE
    <2>1. end % RX_BUF_SIZE = end - RX_BUF_SIZE
      BY <1>3, <1>5, <1>7, ModAbove
    <2> QED BY <2>1, <1>3, <1>5, <1>6, <1>7 DEF Offsets, end
  <1>8. CASE ~(end >= RX_BUF_SIZE)
    <2>1. end % RX_BUF_SIZE = end
      BY <1>3, <1>5, <1>8, ModInside
    <2> QED BY <2>1, <1>3, <1>5, <1>6, <1>8 DEF Offsets, end
  <1> QED BY <1>7, <1>8

(* The CAPR a drain writes is an offset of the ring.                        *)
LEMMA CaprInside ==
    ASSUME NEW off \in Offsets
    PROVE  (off - RX_CAPR_GAP) % RX_BUF_SIZE \in Offsets
  <1>1. off \in 0..(RX_BUF_SIZE - 1) /\ off % 4 = 0
    BY DEF Offsets
  <1>2. /\ RX_BUF_SIZE \in Nat \ {0} /\ RX_BUF_SIZE % 4 = 0
        /\ RX_CAPR_GAP \in 1..(RX_BUF_SIZE - 1) /\ RX_CAPR_GAP % 4 = 0
    BY SizesAssumption
  <1> DEFINE x == off - RX_CAPR_GAP
  <1>3. x \in (-RX_BUF_SIZE)..(RX_BUF_SIZE - 1) /\ x % 4 = 0
    BY <1>1, <1>2
  <1> HIDE DEF x
  <1>4. CASE x >= 0
    <2>1. x % RX_BUF_SIZE = x
      BY <1>2, <1>3, <1>4, ModInside
    <2> QED BY <2>1, <1>3, <1>4 DEF Offsets, x
  <1>5. CASE x < 0
    <2>1. x % RX_BUF_SIZE = x + RX_BUF_SIZE
      BY <1>2, <1>3, <1>5, ModBelow
    <2> QED BY <2>1, <1>2, <1>3, <1>5 DEF Offsets, x
  <1> QED BY <1>3, <1>4, <1>5

(* The next descriptor is a descriptor.                                     *)
LEMMA NextDesc ==
    ASSUME NEW d \in Descs
    PROVE  /\ (d + 1) % NDesc \in Descs
           /\ (d + 1) % NDesc = IF d + 1 = NDesc THEN 0 ELSE d + 1
  <1>1. NDesc \in Nat \ {0} /\ d \in 0..(NDesc - 1)
    BY SizesAssumption DEF Descs
  <1>2. CASE d + 1 = NDesc
    <2>1. (d + 1) % NDesc = d + 1 - NDesc
      BY <1>1, <1>2, ModAbove
    <2> QED BY <2>1, <1>1, <1>2 DEF Descs
  <1>3. CASE d + 1 # NDesc
    <2>1. (d + 1) % NDesc = d + 1
      BY <1>1, <1>3, ModInside
    <2> QED BY <2>1, <1>1, <1>3 DEF Descs
  <1> QED BY <1>2, <1>3

(***************************************************************************)
(* The calls under way.                                                     *)
(***************************************************************************)
Words == Buffers \cup {"poll", "sti", "hlt"}
Drains == [op : {"isr", "poll"}, at : {"look", "frame"}, off : Offsets, id : Nat,
           todo : Seq(Words), saved : BOOLEAN, open : BOOLEAN]
Shells == [op : {"shell"}, todo : Seq(Words)]
Sends == [op : {"send"}, at : {"call", "spin", "mark", "start", "move"},
          buf : Buffers, port : Descs]
Calls == Drains \cup Shells \cup Sends

IsSend(call) == call.op = "send"

(* The three kinds of calls are told apart by op.                           *)
LEMMA CallKinds ==
    ASSUME NEW c \in Calls
    PROVE  /\ IsDrain(c) <=> c \in Drains
           /\ IsSend(c) <=> c \in Sends
           /\ c.op = "shell" <=> c \in Shells
           /\ IsDrain(c) => ~IsSend(c)
           /\ "todo" \in DOMAIN c => c \in Drains \cup Shells
  BY DEF Calls, Drains, Shells, Sends, IsDrain, IsSend

(* An element of a sequence.                                                *)
LEMMA ElementOf ==
    ASSUME NEW S, NEW s \in Seq(S), NEW i \in 1..Len(s)
    PROVE  s[i] \in S
  OBVIOUS

(* Sequences over a set are sequences over a larger one.                    *)
LEMMA SeqSubset ==
    ASSUME NEW S, NEW T, S \subseteq T, NEW s \in Seq(S)
    PROVE  s \in Seq(T)
  OBVIOUS

(* A call put on top of the others.                                         *)
IsPush(s, t, c) ==
    /\ Len(t) = Len(s) + 1 /\ t[1] = c
    /\ \A i \in 1..Len(s) : i + 1 \in 2..Len(t) /\ t[i + 1] = s[i]
    /\ \A i \in 1..Len(t) : \/ i = 1 /\ t[i] = c
                            \/ i - 1 \in 1..Len(s) /\ t[i] = s[i - 1]

LEMMA Pushed ==
    ASSUME NEW S, NEW s \in Seq(S), NEW c \in S
    PROVE  <<c>> \o s \in Seq(S) /\ IsPush(s, <<c>> \o s, c)
  BY DEF IsPush

(* The innermost call replaced.                                             *)
IsReplace(s, t, c) ==
    /\ Len(t) = Len(s) /\ t[1] = c /\ 1 \in 1..Len(t)
    /\ \A i \in 2..Len(s) : i \in 1..Len(t) /\ t[i] = s[i]
    /\ \A i \in 1..Len(t) : \/ i = 1 /\ t[i] = c
                            \/ i \in 2..Len(s) /\ i \in 1..Len(s) /\ t[i] = s[i]

LEMMA Replaced ==
    ASSUME NEW S, NEW s \in Seq(S), s # <<>>, NEW c \in S
    PROVE  <<c>> \o Tail(s) \in Seq(S) /\ IsReplace(s, <<c>> \o Tail(s), c)
  BY DEF IsReplace

(* The innermost call returns.                                              *)
IsReturn(s, t) ==
    /\ Len(t) = Len(s) - 1
    /\ \A i \in 2..Len(s) : i - 1 \in 1..Len(t) /\ t[i - 1] = s[i]
    /\ \A i \in 1..Len(t) : i + 1 \in 2..Len(s) /\ i + 1 \in 1..Len(s) /\ t[i] = s[i + 1]

LEMMA Returned ==
    ASSUME NEW S, NEW s \in Seq(S), s # <<>>
    PROVE  Tail(s) \in Seq(S) /\ IsReturn(s, Tail(s))
  BY DEF IsReturn

(* The innermost call d calls c.                                            *)
IsCall(s, t, c, d) ==
    /\ Len(t) = Len(s) + 1 /\ t[1] = c /\ t[2] = d /\ 2 \in 1..Len(t)
    /\ \A i \in 2..Len(s) : i + 1 \in 1..Len(t) /\ t[i + 1] = s[i]
    /\ \A i \in 1..Len(t) : \/ i = 1 /\ t[i] = c
                            \/ i = 2 /\ t[i] = d
                            \/ i - 1 \in 2..Len(s) /\ i - 1 \in 1..Len(s) /\ t[i] = s[i - 1]

LEMMA CalledTwo ==
    ASSUME NEW S, NEW s \in Seq(S), s # <<>>, NEW c \in S, NEW d \in S
    PROVE  <<c, d>> \o Tail(s) \in Seq(S) /\ IsCall(s, <<c, d>> \o Tail(s), c, d)
  BY DEF IsCall

(***************************************************************************)
(* Types, in more detail than TypeOK: offsets are multiples of 4 inside the *)
(* ring, and a drain that handles a frame handles one the card stored.      *)
(***************************************************************************)
Cells == 0..((RX_BUF_SIZE \div 4) - 1)
FrameAtHand(call) == IsDrain(call) /\ call.at = "frame"

RxTypes ==
    /\ ring \in [Cells -> [id : Nat, part : Nat]]
    /\ \A c \in Cells : ring[c].id <= Len(stored)
    /\ wptr \in Offsets /\ capr \in Offsets /\ rx_offset \in Offsets
    /\ stored \in Seq([len : Lens, at : Offsets])
    /\ handled \in Seq(Nat)

TxTypes ==
    /\ used \in [Descs -> BOOLEAN]
    /\ tsd \in [Descs -> {"reset", "busy", "TOK"}]
    /\ tsad \in [Descs -> Buffers \cup {"none"}]
    /\ current_tx_desc \in Descs /\ next_tx \in Descs
    /\ memory \in [Buffers \cup {"none"} -> Nat]
    /\ handed \in Seq(Nat) /\ wire \in Seq(Nat)

CallsNow == {c \in Calls : FrameAtHand(c) => c.id \in 1..Len(stored)}
StackTypes == stack \in Seq(CallsNow)

TypeInv ==
    /\ RxTypes /\ TxTypes /\ StackTypes
    /\ intr \in BOOLEAN
    /\ pending \subseteq {"ROK", "TOK"}
    /\ odd \subseteq {"nested", "stale", "preempted", "reused", "hang", "again"}

(* A frame the card stored has a length and a place in the ring.            *)
LEMMA StoredFrame ==
    ASSUME RxTypes, NEW id \in 1..Len(stored)
    PROVE  stored[id].len \in Lens /\ stored[id].at \in Offsets
  <1>1. stored \in Seq([len : Lens, at : Offsets])
    BY DEF RxTypes
  <1>2. stored[id] \in [len : Lens, at : Offsets]
    BY <1>1, ElementOf, Zenon
  <1> QED BY <1>2

(* The innermost call is one of the three kinds.                            *)
LEMMA TopIsCall ==
    ASSUME StackTypes, stack # <<>>
    PROVE  /\ Top \in CallsNow /\ Top \in Calls
           /\ 1 \in 1..Len(stack) /\ Len(stack) \in Nat
           /\ DOMAIN stack = 1..Len(stack)
  <1>1. /\ Top \in CallsNow /\ 1 \in 1..Len(stack) /\ Len(stack) \in Nat
        /\ DOMAIN stack = 1..Len(stack)
    BY DEF StackTypes, Top
  <1> QED BY <1>1 DEF CallsNow

(* Every call under way is one.                                             *)
LEMMA StackCalls ==
    ASSUME StackTypes
    PROVE  /\ Len(stack) \in Nat /\ DOMAIN stack = 1..Len(stack)
           /\ \A i \in 1..Len(stack) : stack[i] \in CallsNow /\ stack[i] \in Calls
  <1>1. /\ \A i \in 1..Len(stack) : stack[i] \in CallsNow
        /\ Len(stack) \in Nat /\ DOMAIN stack = 1..Len(stack)
    BY DEF StackTypes
  <1> QED BY <1>1 DEF CallsNow

(* The call that does one thing of its work has the rest left.              *)
LEMMA TopDoesOne ==
    ASSUME StackTypes, NEW what, Doing(what)
    PROVE  LET c == [Top EXCEPT !.todo = Tail(@)]
           IN  /\ stack # <<>>
               /\ Top \in Drains \cup Shells
               /\ c \in CallsNow
               /\ FrameAtHand(c) <=> FrameAtHand(Top)
               /\ IsDrain(c) <=> IsDrain(Top)
               /\ ~IsSend(c) /\ ~IsSend(Top)
               /\ IsDrain(Top) => /\ c.op = Top.op /\ c.at = Top.at /\ c.off = Top.off
                                  /\ c.id = Top.id /\ c.saved = Top.saved
                                  /\ c.open = Top.open
  <1>1. stack # <<>> /\ "todo" \in DOMAIN Top /\ Top.todo # <<>>
    BY DEF Doing, Busy
  <1>2. Top \in Drains \cup Shells
    BY <1>1, TopIsCall, CallKinds
  <1>3. CASE Top \in Drains
    <2>1. /\ [Top EXCEPT !.todo = Tail(@)] \in Drains
          /\ [Top EXCEPT !.todo = Tail(@)].op = Top.op
          /\ [Top EXCEPT !.todo = Tail(@)].at = Top.at
          /\ [Top EXCEPT !.todo = Tail(@)].off = Top.off
          /\ [Top EXCEPT !.todo = Tail(@)].id = Top.id
          /\ [Top EXCEPT !.todo = Tail(@)].saved = Top.saved
          /\ [Top EXCEPT !.todo = Tail(@)].open = Top.open
      BY <1>1, <1>3 DEF Drains
    <2>2. Top \in CallsNow /\ Top.op # "send"
      BY <1>1, <1>3, TopIsCall DEF Drains
    <2> QED BY <1>1, <1>2, <2>1, <2>2, Zenon DEF CallsNow, Calls, IsDrain, IsSend, FrameAtHand
  <1>4. CASE Top \in Shells
    <2>1. ~IsDrain(Top) /\ ~IsSend(Top)
      BY <1>4 DEF Shells, IsDrain, IsSend
    <2>2. [Top EXCEPT !.todo = Tail(@)] \in Shells
      BY <1>1, <1>4 DEF Shells
    <2>3. /\ ~IsDrain([Top EXCEPT !.todo = Tail(@)])
          /\ ~IsSend([Top EXCEPT !.todo = Tail(@)])
      BY <2>2 DEF Shells, IsDrain, IsSend
    <2> QED BY <1>1, <1>2, <2>1, <2>2, <2>3 DEF CallsNow, Calls, FrameAtHand
  <1> QED BY <1>1, <1>2, <1>3, <1>4

(* What the work of a frame and of a shell command is made of.              *)
LEMMA WorkIsSeq ==
    /\ \A work \in Work : work \in Seq(Words)
    /\ \A todo \in ShellWork : todo \in Seq(Words)
  BY DEF Work, ShellWork, Words, Buffers

(* A drain starts as a call.                                                *)
LEMMA DrainIsCall ==
    ASSUME TypeInv, NEW op \in {"isr", "poll"}
    PROVE  /\ Drain(op) \in Drains
           /\ Drain(op) \in CallsNow
           /\ Drain(op).op = op /\ Drain(op).at = "look" /\ Drain(op).off = rx_offset
           /\ Drain(op).saved = intr /\ Drain(op).open = FALSE
           /\ IsDrain(Drain(op)) /\ ~IsSend(Drain(op)) /\ ~FrameAtHand(Drain(op))
  <1>1. <<>> \in Seq(Words)
    OBVIOUS
  <1> QED BY <1>1 DEF TypeInv, RxTypes, Drain, Drains, CallsNow, Calls,
                        IsDrain, IsSend, FrameAtHand

(* A call of rtl8139_send_packet starts as a call.                          *)
LEMMA SendIsCall ==
    ASSUME NEW buf \in Buffers
    PROVE  /\ Send(buf) \in Sends
           /\ Send(buf) \in CallsNow
           /\ Send(buf).at = "call" /\ Send(buf).buf = buf
           /\ ~IsDrain(Send(buf)) /\ IsSend(Send(buf)) /\ ~FrameAtHand(Send(buf))
  <1>1. 0 \in Descs
    BY SizesAssumption DEF Descs
  <1> QED BY <1>1 DEF Send, Sends, CallsNow, Calls, IsDrain, IsSend, FrameAtHand

(* And so does a command of the shell.                                      *)
LEMMA ShellIsCall ==
    ASSUME NEW todo \in ShellWork
    PROVE  /\ Shell(todo) \in CallsNow
           /\ ~IsDrain(Shell(todo)) /\ ~IsSend(Shell(todo)) /\ ~FrameAtHand(Shell(todo))
  BY WorkIsSeq DEF Shell, Shells, CallsNow, Calls, IsDrain, IsSend, FrameAtHand

(***************************************************************************)
(* What becomes of the innermost call in each step.                         *)
(***************************************************************************)
(* A drain that finds a header goes on to the frame the card put there.     *)
LEMMA TakenTop ==
    ASSUME TypeInv, stack # <<>>, IsDrain(Top), IsHeader, NEW work \in Work
    PROVE  LET c == [Top EXCEPT !.at = "frame", !.id = Cell.id, !.todo = work]
           IN  /\ Top \in Drains /\ Top.off \in Offsets /\ Top.off \div 4 \in Cells
               /\ Cell.id \in 1..Len(stored)
               /\ c \in CallsNow /\ IsDrain(c) /\ ~IsSend(c) /\ FrameAtHand(c)
               /\ c.op = Top.op /\ c.off = Top.off /\ c.id = Cell.id
               /\ c.saved = Top.saved /\ c.open = Top.open
  <1>1. Top \in Drains /\ Top.off \in Offsets
    BY TopIsCall, CallKinds DEF TypeInv, Drains
  <1>2. Top.off \div 4 \in Cells
    BY <1>1, SizesAssumption DEF Offsets, Cells
  <1>3. Cell.id \in 1..Len(stored)
    <2>1. Cell \in [id : Nat, part : Nat] /\ Cell.id <= Len(stored)
      BY <1>2 DEF TypeInv, RxTypes, Cell
    <2>2. Cell # Empty /\ Cell.part = 0
      BY DEF IsHeader
    <2>3. Cell.id # 0
      BY <2>1, <2>2 DEF Empty
    <2> QED BY <2>1, <2>3 DEF TypeInv, RxTypes
  <1>4. Cell.id \in Nat /\ work \in Seq(Words)
    BY <1>3, WorkIsSeq DEF TypeInv, RxTypes
  <1> DEFINE c == [Top EXCEPT !.at = "frame", !.id = Cell.id, !.todo = work]
  <1>5. /\ c \in Drains /\ c.at = "frame" /\ c.op = Top.op /\ c.off = Top.off
        /\ c.id = Cell.id /\ c.saved = Top.saved /\ c.open = Top.open
    BY <1>1, <1>4, Zenon DEF Drains
  <1> HIDE DEF c
  <1>6. c \in CallsNow /\ IsDrain(c) /\ ~IsSend(c) /\ FrameAtHand(c)
    BY <1>3, <1>5 DEF CallsNow, Calls, Drains, IsDrain, IsSend, FrameAtHand
  <1> QED BY <1>1, <1>2, <1>3, <1>5, <1>6 DEF c

(* A drain done with a frame goes on to look behind it.                     *)
LEMMA SteppedTop ==
    ASSUME TypeInv, Step
    PROVE  LET c == [Top EXCEPT !.at = "look", !.off = Advance(@, stored[Top.id].len)]
           IN  /\ stack # <<>> /\ Top \in Drains /\ IsDrain(Top) /\ Top.at = "frame"
               /\ Top.id \in 1..Len(stored) /\ stored[Top.id].len \in Lens
               /\ c \in CallsNow /\ IsDrain(c) /\ ~IsSend(c) /\ ~FrameAtHand(c)
               /\ c.at = "look" /\ c.op = Top.op
               /\ c.off = Advance(Top.off, stored[Top.id].len)
               /\ c.saved = Top.saved /\ c.open = Top.open
  <1>1. stack # <<>> /\ IsDrain(Top) /\ Top.at = "frame"
    BY DEF Step
  <1>2. Top \in Drains /\ Top.off \in Offsets
    BY <1>1, TopIsCall, CallKinds DEF TypeInv, Drains
  <1>3. Top.id \in 1..Len(stored)
    BY <1>1, TopIsCall DEF TypeInv, CallsNow, FrameAtHand
  <1>4. stored[Top.id].len \in Lens
    BY <1>3, StoredFrame DEF TypeInv
  <1>5. Advance(Top.off, stored[Top.id].len) \in Offsets
    BY <1>2, <1>4, AdvanceWraps
  <1> DEFINE c == [Top EXCEPT !.at = "look", !.off = Advance(@, stored[Top.id].len)]
  <1>6. /\ c \in Drains /\ c.at = "look" /\ c.op = Top.op
        /\ c.off = Advance(Top.off, stored[Top.id].len)
        /\ c.saved = Top.saved /\ c.open = Top.open
    BY <1>2, <1>5, Zenon DEF Drains
  <1> HIDE DEF c
  <1>7. c \in CallsNow /\ IsDrain(c) /\ ~IsSend(c) /\ ~FrameAtHand(c)
    BY <1>6 DEF CallsNow, Calls, Drains, IsDrain, IsSend, FrameAtHand
  <1> QED BY <1>1, <1>2, <1>3, <1>4, <1>6, <1>7 DEF c

(* A call of rtl8139_send_packet goes on.                                   *)
LEMMA SendingTop ==
    ASSUME TypeInv, NEW from, Sending(from)
    PROVE  /\ stack # <<>> /\ Top \in Sends /\ IsSend(Top) /\ Top.at = from /\ ~IsDrain(Top)
           /\ Top.buf \in Buffers /\ Top.port \in Descs
           /\ \A to \in {"spin", "mark", "start", "move"} :
                LET c == [Top EXCEPT !.at = to]
                IN  /\ c \in CallsNow /\ IsSend(c) /\ ~IsDrain(c) /\ ~FrameAtHand(c)
                    /\ c.at = to /\ c.buf = Top.buf /\ c.port = Top.port
  <1>1. stack # <<>> /\ IsSend(Top) /\ Top.at = from
    BY DEF Sending, IsSend
  <1>2. Top \in Sends /\ ~IsDrain(Top)
    BY <1>1, TopIsCall, CallKinds DEF TypeInv
  <1>3. ASSUME NEW to \in {"spin", "mark", "start", "move"}
        PROVE  LET c == [Top EXCEPT !.at = to]
               IN  /\ c \in CallsNow /\ IsSend(c) /\ ~IsDrain(c) /\ ~FrameAtHand(c)
                   /\ c.at = to /\ c.buf = Top.buf /\ c.port = Top.port
    BY <1>2 DEF Sends, CallsNow, Calls, IsSend, IsDrain, FrameAtHand
  <1>4. Top.buf \in Buffers /\ Top.port \in Descs
    BY <1>2 DEF Sends
  <1> QED BY <1>1, <1>2, <1>3, <1>4

(* It reads which descriptor it is to wait for.                             *)
LEMMA CalledTop ==
    ASSUME TypeInv, SendCall
    PROVE  LET to == IF used[current_tx_desc] THEN "spin" ELSE "mark"
               c == [Top EXCEPT !.port = current_tx_desc, !.at = to]
           IN  /\ c \in CallsNow /\ IsSend(c) /\ ~IsDrain(c) /\ ~FrameAtHand(c)
               /\ c.at = to /\ c.buf = Top.buf /\ c.port = current_tx_desc
  <1>1. Top \in Sends
    BY SendingTop DEF SendCall
  <1>2. current_tx_desc \in Descs
    BY DEF TypeInv, TxTypes
  <1>3. ASSUME NEW to \in {"spin", "mark"}
        PROVE  LET c == [Top EXCEPT !.port = current_tx_desc, !.at = to]
               IN  /\ c \in CallsNow /\ IsSend(c) /\ ~IsDrain(c) /\ ~FrameAtHand(c)
                   /\ c.at = to /\ c.buf = Top.buf /\ c.port = current_tx_desc
    BY <1>1, <1>2, Zenon DEF Sends, CallsNow, Calls, IsSend, IsDrain, FrameAtHand
  <1>4. (IF used[current_tx_desc] THEN "spin" ELSE "mark") \in {"spin", "mark"}
    OBVIOUS
  <1> QED BY <1>3, <1>4, Zenon

(***************************************************************************)
(* The types hold.                                                          *)
(***************************************************************************)
(* What the card writes into the ring is cells of the frame it stores.      *)
LEMMA StoredCells ==
    ASSUME RxTypes, NEW len \in Lens, Store(len)
    PROVE  RxTypes' \/ ~(UNCHANGED <<capr, rx_offset, handled>>)
  <1> SUFFICES ASSUME UNCHANGED <<capr, rx_offset, handled>>
               PROVE  RxTypes'
    OBVIOUS
  <1> DEFINE id == Len(stored) + 1
             ks == 0..(CellsOf(len) - 1)
             part(c) == CHOOSE k \in ks : CellAt(wptr, k) = c
             fresh == {CellAt(wptr, k) : k \in ks}
  <1>1. /\ ring' = [c \in DOMAIN ring |->
                      IF c \in fresh THEN [id |-> id, part |-> part(c)] ELSE ring[c]]
        /\ stored' = Append(stored, [len |-> len, at |-> wptr])
        /\ wptr' = (wptr + Aligned(len + 4)) % RX_BUF_SIZE
    BY DEF Store
  <1>2. ASSUME NEW c \in fresh
        PROVE  part(c) \in Nat
    <2>1. \E k \in ks : CellAt(wptr, k) = c
      OBVIOUS
    <2>2. part(c) \in ks
      BY <2>1
    <2>3. ks \subseteq Nat
      BY FrameSize
    <2> QED BY <2>2, <2>3
  <1>3. stored' \in Seq([len : Lens, at : Offsets]) /\ Len(stored') = id /\ id \in Nat
    BY <1>1 DEF RxTypes
  <1> HIDE DEF part, fresh, ks
  <1>4. ring' \in [Cells -> [id : Nat, part : Nat]]
    BY <1>1, <1>2, <1>3 DEF RxTypes
  <1>5. \A c \in Cells : ring'[c].id <= Len(stored')
    BY <1>1, <1>2, <1>3 DEF RxTypes
  <1>6. wptr' \in Offsets
    BY <1>1, AdvanceWraps DEF RxTypes
  <1> QED BY <1>3, <1>4, <1>5, <1>6 DEF RxTypes

(* The card.                                                                *)
LEMMA TypeCard ==
    ASSUME TypeInv, (\E len \in Lens : Arrive(len)) \/ Transmit
    PROVE  TypeInv'
  <1>1. ASSUME NEW len \in Lens, Arrive(len), Fits(len) /\ Store(len)
        PROVE  TypeInv'
    <2>1. /\ UNCHANGED <<capr, rx_offset, handled>> /\ UNCHANGED <<tx, stack, intr, odd>>
          /\ pending' = pending \cup {"ROK"}
          /\ stored' = Append(stored, [len |-> len, at |-> wptr])
      BY <1>1 DEF Arrive, Store
    <2>2. RxTypes'
      BY <1>1, <2>1, StoredCells DEF TypeInv
    <2>3. TxTypes'
      BY <2>1 DEF TypeInv, TxTypes, tx
    <2>4. Len(stored') = Len(stored) + 1 /\ Len(stored) \in Nat
      BY <2>1 DEF TypeInv, RxTypes
    <2>5. CallsNow \subseteq CallsNow'
      BY <2>4 DEF CallsNow, FrameAtHand, IsDrain
    <2>6. StackTypes'
      BY <2>1, <2>5, SeqSubset DEF TypeInv, StackTypes
    <2> QED BY <2>1, <2>2, <2>3, <2>6 DEF TypeInv
  <1>2. ASSUME NEW len \in Lens, Arrive(len), ~Fits(len)
        PROVE  TypeInv'
    <2>1. UNCHANGED <<ring, stored, wptr, pending, capr, rx_offset, handled, stack, intr, odd>>
          /\ UNCHANGED tx
      BY <1>2 DEF Arrive
    <2> QED BY <2>1 DEF TypeInv, RxTypes, TxTypes, StackTypes, CallsNow, tx, FrameAtHand, IsDrain
  <1>3. ASSUME Transmit
        PROVE  TypeInv'
    <2>1. /\ UNCHANGED <<rx, used, current_tx_desc, tsad, memory, handed, stack, intr, odd>>
          /\ wire' = Append(wire, memory[tsad[next_tx]])
          /\ tsd' = [tsd EXCEPT ![next_tx] = "TOK"]
          /\ next_tx' = (next_tx + 1) % NDesc
          /\ pending' = pending \cup {"TOK"}
      BY <1>3 DEF Transmit
    <2>2. RxTypes' /\ StackTypes'
      BY <2>1 DEF TypeInv, RxTypes, StackTypes, CallsNow, rx, FrameAtHand, IsDrain
    <2>3. next_tx' \in Descs
      BY <2>1, NextDesc DEF TypeInv, TxTypes
    <2>4. memory[tsad[next_tx]] \in Nat
      BY DEF TypeInv, TxTypes
    <2>5. TxTypes'
      BY <2>1, <2>3, <2>4 DEF TypeInv, TxTypes
    <2> QED BY <2>1, <2>2, <2>5 DEF TypeInv
  <1> QED BY <1>1, <1>2, <1>3 DEF Arrive

(* When no frame arrives, what may be on the stack stays the same.          *)
LEMMA CallsStay ==
    ASSUME stored' = stored
    PROVE  CallsNow' = CallsNow
  BY DEF CallsNow, FrameAtHand, IsDrain

(* The drains.                                                              *)
LEMMA TypeDrain ==
    ASSUME TypeInv, Look \/ Step \/ Interrupt \/ StartPoll
    PROVE  TypeInv'
  <1> USE DEF TypeInv
  <1>1. ASSUME NEW work \in Work, Look, Take(work)
        PROVE  TypeInv'
    <2> DEFINE c == [Top EXCEPT !.at = "frame", !.id = Cell.id, !.todo = work]
    <2>1. /\ stack # <<>> /\ IsDrain(Top) /\ IsHeader
          /\ UNCHANGED <<ring, wptr, capr, stored, rx_offset, intr, odd, pending>>
          /\ UNCHANGED tx
          /\ handled' = Append(handled, Cell.id)
          /\ stack' = <<c>> \o Tail(stack)
      BY <1>1, Zenon DEF Look, Take, Replace
    <2>2. Cell.id \in 1..Len(stored) /\ c \in CallsNow
      BY <2>1, TakenTop, Zenon
    <2>3. RxTypes' /\ TxTypes'
      BY <2>1, <2>2 DEF RxTypes, TxTypes, tx
    <2> HIDE DEF c
    <2>4. StackTypes'
      BY <2>1, <2>2, Replaced, CallsStay DEF StackTypes
    <2> QED BY <2>1, <2>3, <2>4
  <1>2. ASSUME Look, Misread
        PROVE  TypeInv'
    <2>1. UNCHANGED <<rx, tx, stack, intr, pending>> /\ odd' = odd \cup {"stale"}
      BY <1>2 DEF Look, Misread
    <2> QED BY <2>1, CallsStay DEF RxTypes, TxTypes, StackTypes, rx, tx
  <1>3. ASSUME Look, Finish
        PROVE  TypeInv'
    <2>1. /\ stack # <<>> /\ IsDrain(Top)
          /\ rx_offset' = Top.off
          /\ capr' = (Top.off - RX_CAPR_GAP) % RX_BUF_SIZE
          /\ intr' = (Top.op = "isr" \/ intr \/ Top.saved)
          /\ stack' = Tail(stack)
          /\ UNCHANGED <<ring, wptr, stored, handled, odd, pending>> /\ UNCHANGED tx
      BY <1>3 DEF Look, Finish, Return
    <2>2. Top \in Drains /\ Top.off \in Offsets /\ Top.saved \in BOOLEAN
      BY <2>1, TopIsCall, CallKinds DEF Drains
    <2>3. capr' \in Offsets
      BY <2>1, <2>2, CaprInside
    <2>4. RxTypes' /\ TxTypes'
      BY <2>1, <2>2, <2>3 DEF RxTypes, TxTypes, tx
    <2>5. StackTypes'
      BY <2>1, Returned, CallsStay DEF StackTypes
    <2>6. intr' \in BOOLEAN
      BY <2>1, Zenon
    <2> QED BY <2>1, <2>4, <2>5, <2>6
  <1>4. ASSUME Step
        PROVE  TypeInv'
    <2> DEFINE c == [Top EXCEPT !.at = "look", !.off = Advance(@, stored[Top.id].len)]
    <2>1. stack' = <<c>> \o Tail(stack) /\ UNCHANGED <<rx, tx, pending, intr, odd>>
      BY <1>4 DEF Step, Replace
    <2>2. stack # <<>> /\ c \in CallsNow
      BY <1>4, SteppedTop
    <2> HIDE DEF c
    <2>3. RxTypes' /\ TxTypes' /\ stored' = stored
      BY <2>1 DEF RxTypes, TxTypes, rx, tx
    <2>4. StackTypes'
      BY <2>1, <2>2, <2>3, Replaced, CallsStay DEF StackTypes
    <2> QED BY <2>1, <2>3, <2>4
  <1>5. ASSUME Interrupt, "ROK" \in pending
        PROVE  TypeInv'
    <2>1. /\ pending' = {} /\ stack' = <<Drain("isr")>> \o stack /\ intr' = FALSE
          /\ odd' = odd \cup {o \in {"nested"} : Draining}
          /\ UNCHANGED <<rx, tx>>
      BY <1>5, Zenon DEF Interrupt
    <2>2. Drain("isr") \in CallsNow
      BY DrainIsCall, Zenon
    <2>3. RxTypes' /\ TxTypes' /\ stored' = stored
      BY <2>1 DEF RxTypes, TxTypes, rx, tx
    <2>4. StackTypes'
      BY <2>1, <2>2, <2>3, Pushed, CallsStay DEF StackTypes
    <2> QED BY <2>1, <2>3, <2>4, Zenon
  <1>6. ASSUME Interrupt, "ROK" \notin pending
        PROVE  TypeInv'
    <2>1. UNCHANGED <<rx, tx, stack, intr, odd>> /\ pending' = {}
      BY <1>6, Zenon DEF Interrupt
    <2> QED BY <2>1, CallsStay DEF RxTypes, TxTypes, StackTypes, rx, tx
  <1>7. ASSUME StartPoll
        PROVE  TypeInv'
    <2> DEFINE c == [Top EXCEPT !.todo = Tail(@)]
    <2>1. /\ stack' = <<Drain("poll"), c>> \o Tail(stack) /\ intr' = FALSE
          /\ odd' = odd \cup {o \in {"again"} : Draining}
          /\ UNCHANGED <<rx, tx, pending>>
      BY <1>7 DEF StartPoll, Call
    <2>2. Drain("poll") \in CallsNow
      BY DrainIsCall, Zenon
    <2>3. stack # <<>> /\ c \in CallsNow
      BY <1>7, TopDoesOne, Zenon DEF StartPoll
    <2> HIDE DEF c
    <2>4. RxTypes' /\ TxTypes' /\ stored' = stored
      BY <2>1 DEF RxTypes, TxTypes, rx, tx
    <2>5. StackTypes'
      BY <2>1, <2>2, <2>3, <2>4, CalledTwo, CallsStay DEF StackTypes
    <2> QED BY <2>1, <2>4, <2>5, Zenon
  <1> QED BY <1>1, <1>2, <1>3, <1>4, <1>5, <1>6, <1>7 DEF Look

(* The work of frames and of the shell.                                     *)
LEMMA TypeWork ==
    ASSUME TypeInv, \/ \E buf \in Buffers : StartSend(buf)
                    \/ Sti \/ Hlt \/ CommandEnd
                    \/ \E todo \in ShellWork : Command(todo)
    PROVE  TypeInv'
  <1> USE DEF TypeInv
  <1> DEFINE c == [Top EXCEPT !.todo = Tail(@)]
  <1>1. ASSUME NEW buf \in Buffers, StartSend(buf)
        PROVE  TypeInv'
    <2>1. /\ stack' = <<Send(buf), c>> \o Tail(stack)
          /\ handed' = Append(handed, Len(handed) + 1)
          /\ memory' = [memory EXCEPT ![buf] = Len(handed) + 1]
          /\ UNCHANGED <<rx, used, current_tx_desc, tsd, tsad, next_tx, wire, pending, intr>>
      BY <1>1 DEF StartSend, Call
    <2>2. odd' \subseteq odd \cup {"preempted", "reused"}
      BY <1>1, Zenon DEF StartSend
    <2>3. Send(buf) \in CallsNow
      BY SendIsCall
    <2>4. stack # <<>> /\ c \in CallsNow
      BY <1>1, TopDoesOne, Zenon DEF StartSend
    <2> HIDE DEF c
    <2>5. RxTypes' /\ TxTypes' /\ stored' = stored
      BY <2>1 DEF RxTypes, TxTypes, rx
    <2>6. StackTypes'
      BY <2>1, <2>3, <2>4, <2>5, CalledTwo, CallsStay DEF StackTypes
    <2> QED BY <2>1, <2>2, <2>5, <2>6
  <1>2. ASSUME Sti
        PROVE  TypeInv'
    <2> DEFINE d(i) == IF i = 1 THEN c ELSE stack[i]
               e(i) == IF IsDrain(d(i)) THEN [d(i) EXCEPT !.open = TRUE] ELSE d(i)
    <2>1. /\ intr' = TRUE /\ stack' = [i \in DOMAIN stack |-> e(i)]
          /\ UNCHANGED <<rx, tx, pending, odd>>
      BY <1>2 DEF Sti
    <2>2. c \in CallsNow
      BY <1>2, TopDoesOne, Zenon DEF Sti
    <2>3. \A i \in 1..Len(stack) : d(i) \in CallsNow
      BY <2>2, StackCalls
    <2> HIDE DEF c, d
    <2>4. ASSUME NEW i \in 1..Len(stack)
          PROVE  e(i) \in CallsNow
      <3>1. CASE IsDrain(d(i))
        <4>1. d(i) \in Drains /\ d(i) \in CallsNow
          BY <2>3, <3>1, CallKinds DEF CallsNow
        <4>2. /\ [d(i) EXCEPT !.open = TRUE] \in Drains
              /\ [d(i) EXCEPT !.open = TRUE].at = d(i).at
              /\ [d(i) EXCEPT !.open = TRUE].id = d(i).id
          BY <4>1, Zenon DEF Drains
        <4> QED BY <3>1, <4>1, <4>2, Zenon DEF CallsNow, Calls, FrameAtHand
      <3> QED BY <2>3, <3>1
    <2> HIDE DEF e
    <2>5. RxTypes' /\ TxTypes' /\ stored' = stored
      BY <2>1 DEF RxTypes, TxTypes, rx, tx
    <2>6. stack' \in Seq(CallsNow)
      BY <2>1, <2>4, StackCalls
    <2> QED BY <2>1, <2>5, <2>6, CallsStay DEF StackTypes
  <1>3. ASSUME Hlt
        PROVE  TypeInv'
    <2>1. UNCHANGED <<rx, tx, pending, intr>> /\ odd' \subseteq odd \cup {"hang"}
      BY <1>3 DEF Hlt
    <2>2. stack' = stack \/ stack' = <<c>> \o Tail(stack)
      BY <1>3, Zenon DEF Hlt, Replace
    <2>3. stack # <<>> /\ c \in CallsNow
      BY <1>3, TopDoesOne, Zenon DEF Hlt
    <2> HIDE DEF c
    <2>4. RxTypes' /\ TxTypes' /\ stored' = stored
      BY <2>1 DEF RxTypes, TxTypes, rx, tx
    <2>5. StackTypes'
      BY <2>2, <2>3, <2>4, Replaced, CallsStay DEF StackTypes
    <2> QED BY <2>1, <2>4, <2>5
  <1>4. ASSUME CommandEnd
        PROVE  TypeInv'
    <2>1. UNCHANGED <<rx, tx, pending, intr, odd>> /\ stack # <<>> /\ stack' = Tail(stack)
      BY <1>4 DEF CommandEnd, Return
    <2>2. RxTypes' /\ TxTypes' /\ stored' = stored
      BY <2>1 DEF RxTypes, TxTypes, rx, tx
    <2>3. StackTypes'
      BY <2>1, <2>2, Returned, CallsStay DEF StackTypes
    <2> QED BY <2>1, <2>2, <2>3
  <1>5. ASSUME NEW todo \in ShellWork, Command(todo)
        PROVE  TypeInv'
    <2>1. UNCHANGED <<rx, tx, pending, intr, odd>> /\ stack' = <<Shell(todo)>>
      BY <1>5 DEF Command
    <2>2. RxTypes' /\ TxTypes' /\ stored' = stored
      BY <2>1 DEF RxTypes, TxTypes, rx, tx
    <2>3. Shell(todo) \in CallsNow
      BY ShellIsCall
    <2>4. StackTypes'
      BY <2>1, <2>2, <2>3, CallsStay DEF StackTypes
    <2> QED BY <2>1, <2>2, <2>4
  <1> QED BY <1>1, <1>2, <1>3, <1>4, <1>5

(* rtl8139_send_packet.                                                     *)
LEMMA TypeSend ==
    ASSUME TypeInv, SendPacket
    PROVE  TypeInv'
  <1> USE DEF TypeInv
  <1>1. UNCHANGED <<rx, pending, intr, odd>>
    BY DEF SendPacket
  <1>2. RxTypes' /\ stored' = stored
    BY <1>1 DEF RxTypes, rx
  <1>3. ASSUME NEW c \in CallsNow, stack # <<>>, stack' = <<c>> \o Tail(stack)
        PROVE  StackTypes'
    BY <1>2, <1>3, Replaced, CallsStay DEF StackTypes
  <1>4. CASE SendCall
    <2>1. StackTypes'
      BY <1>3, <1>4, SendingTop, CalledTop DEF SendCall, Replace
    <2> QED BY <1>1, <1>2, <1>4, <2>1 DEF SendCall, TxTypes, tx
  <1>5. CASE SendSpin
    <2>1. StackTypes'
      BY <1>3, <1>5, SendingTop, Zenon DEF SendSpin, Goto, Replace
    <2> QED BY <1>1, <1>2, <1>5, <2>1 DEF SendSpin, TxTypes, tx
  <1>6. CASE SendMark
    <2>1. StackTypes' /\ Top.buf \in Buffers
      BY <1>3, <1>6, SendingTop, Zenon DEF SendMark, Goto, Replace
    <2> QED BY <1>1, <1>2, <1>6, <2>1 DEF SendMark, TxTypes
  <1>7. CASE SendStart
    <2>1. StackTypes'
      BY <1>3, <1>7, SendingTop, Zenon DEF SendStart, Goto, Replace
    <2> QED BY <1>1, <1>2, <1>7, <2>1 DEF SendStart, TxTypes
  <1>8. CASE SendMove
    <2>1. stack # <<>> /\ stack' = Tail(stack)
      BY <1>8, SendingTop DEF SendMove, Return
    <2>2. StackTypes'
      BY <1>2, <2>1, Returned, CallsStay DEF StackTypes
    <2>3. current_tx_desc' \in Descs
      BY <1>8, NextDesc DEF SendMove, TxTypes
    <2> QED BY <1>1, <1>2, <1>8, <2>2, <2>3 DEF SendMove, TxTypes
  <1> QED BY <1>4, <1>5, <1>6, <1>7, <1>8 DEF SendPacket

LEMMA TypeInit ==
    ASSUME Init
    PROVE  TypeInv
  <1>1. /\ RX_BUF_SIZE \in Nat \ {0} /\ NDesc \in Nat \ {0} /\ 0 \in Offsets /\ 0 \in Descs
    BY SizesAssumption DEF Offsets, Descs
  <1>2. RxTypes
    BY <1>1 DEF Init, RxTypes, Empty, Cells
  <1>3. TxTypes
    BY <1>1 DEF Init, TxTypes, Descs
  <1>4. StackTypes
    BY DEF Init, StackTypes
  <1> QED BY <1>2, <1>3, <1>4 DEF Init, TypeInv

LEMMA TypeNext ==
    ASSUME TypeInv, [Next]_vars
    PROVE  TypeInv'
  <1>1. CASE UNCHANGED vars
    BY <1>1, CallsStay DEF vars, TypeInv, RxTypes, TxTypes, StackTypes, rx, tx
  <1>2. CASE Quiet
    BY <1>1, <1>2 DEF Quiet
  <1> QED BY <1>1, <1>2, TypeCard, TypeDrain, TypeWork, TypeSend DEF Next, Run

(* The variables of the driver and of the card keep their types: in         *)
(* particular rx_offset and CAPR stay multiples of 4 inside the ring        *)
(* whatever the lengths of frames, and descriptor numbers in range.         *)
THEOREM TypeCorrect == Spec => []TypeOK
  <1>1. Init => TypeInv
    BY TypeInit
  <1>2. TypeInv /\ [Next]_vars => TypeInv'
    BY TypeNext
  <1>3. TypeInv => TypeOK
    <2> SUFFICES ASSUME TypeInv PROVE TypeOK
      OBVIOUS
    <2>1. ASSUME NEW o \in Offsets
          PROVE  o \in {4 * n : n \in 0..((RX_BUF_SIZE \div 4) - 1)}
      <3>1. o \div 4 \in 0..((RX_BUF_SIZE \div 4) - 1) /\ o = 4 * (o \div 4)
        BY SizesAssumption DEF Offsets
      <3> QED BY <3>1
    <2>2. {wptr, capr, rx_offset} \subseteq {4 * n : n \in 0..((RX_BUF_SIZE \div 4) - 1)}
      BY <2>1 DEF TypeInv, RxTypes
    <2>3. \A c \in DOMAIN ring : ring[c].id \in 0..Len(stored)
      <3>1. ASSUME NEW c \in Cells
            PROVE  ring[c].id \in Nat /\ ring[c].id <= Len(stored)
        BY DEF TypeInv, RxTypes
      <3> QED BY <3>1 DEF TypeInv, RxTypes
    <2> QED BY <2>2, <2>3 DEF TypeInv, TxTypes, TypeOK, Descs
  <1> QED BY <1>1, <1>2, <1>3, PTL DEF Spec

(***************************************************************************)
(* Interrupts and drains.  DrainsMasked alone is not inductive: a poll that *)
(* ends enables interrupts when they were on at its start, and so does the  *)
(* end of the handler.  Below a drain that will do so every other drain has *)
(* been opened by sti already.                                              *)
(***************************************************************************)
Reopens(call) == call.op = "isr" \/ call.saved

MaskInv ==
    /\ \A i \in 1..Len(stack) : IsDrain(stack[i]) /\ ~stack[i].open => ~intr
    /\ \A i, j \in 1..Len(stack) :
          i < j /\ IsDrain(stack[i]) /\ IsDrain(stack[j]) /\ Reopens(stack[i])
             => stack[j].open

(* A step that leaves intr alone keeps the invariant when each drain on the *)
(* stack after it is one from before, in the same order: i was f[i].        *)
LEMMA MaskKept ==
    ASSUME TypeInv, MaskInv, StackTypes', intr' = intr,
           NEW f \in [1..Len(stack') -> Nat],
           \A i \in 1..Len(stack') : IsDrain(stack'[i]) =>
              /\ f[i] \in 1..Len(stack)
              /\ IsDrain(stack[f[i]])
              /\ stack'[i].open = stack[f[i]].open
              /\ Reopens(stack'[i]) = Reopens(stack[f[i]]),
           \A i, j \in 1..Len(stack') : i < j => f[i] < f[j]
    PROVE  MaskInv'
  <1>1. ASSUME NEW i \in 1..Len(stack'), NEW j \in 1..Len(stack'), i < j,
               IsDrain(stack'[i]), IsDrain(stack'[j]), Reopens(stack'[i])
        PROVE  stack'[j].open
    <2>1. /\ f[i] \in 1..Len(stack) /\ IsDrain(stack[f[i]]) /\ Reopens(stack[f[i]])
          /\ f[j] \in 1..Len(stack) /\ IsDrain(stack[f[j]]) /\ f[i] < f[j]
      BY <1>1, Zenon
    <2>2. stack[f[j]].open
      BY <2>1, Zenon DEF MaskInv
    <2> QED BY <1>1, <2>2, Zenon
  <1>2. ASSUME NEW i \in 1..Len(stack'), IsDrain(stack'[i])
        PROVE  f[i] \in 1..Len(stack) /\ IsDrain(stack[f[i]]) /\ stack'[i].open = stack[f[i]].open
    BY <1>2, Zenon
  <1> QED BY <1>1, <1>2, Zenon DEF MaskInv

(* The innermost call goes on, and is a drain only if it was one.           *)
LEMMA MaskReplaced ==
    ASSUME TypeInv, MaskInv, StackTypes', intr' = intr, stack # <<>>,
           NEW c, stack' = <<c>> \o Tail(stack), c \in CallsNow,
           IsDrain(c) => /\ IsDrain(Top) /\ c.open = Top.open
                         /\ c.op = Top.op /\ c.saved = Top.saved
    PROVE  MaskInv'
  <1>1. IsReplace(stack, stack', c)
    BY Replaced DEF TypeInv, StackTypes
  <1> DEFINE f == [i \in 1..Len(stack') |-> i]
  <1>2. f \in [1..Len(stack') -> Nat] /\ \A i, j \in 1..Len(stack') : i < j => f[i] < f[j]
    OBVIOUS
  <1>3. ASSUME NEW i \in 1..Len(stack'), IsDrain(stack'[i])
        PROVE  /\ f[i] \in 1..Len(stack)
               /\ IsDrain(stack[f[i]])
               /\ stack'[i].open = stack[f[i]].open
               /\ Reopens(stack'[i]) = Reopens(stack[f[i]])
    BY <1>1, <1>3 DEF IsReplace, Reopens, Top
  <1> HIDE DEF f
  <1> QED BY <1>2, <1>3, MaskKept, Zenon

(* The innermost call, no drain, returns.                                   *)
LEMMA MaskReturned ==
    ASSUME TypeInv, MaskInv, StackTypes', intr' = intr, stack # <<>>, stack' = Tail(stack)
    PROVE  MaskInv'
  <1>1. IsReturn(stack, stack')
    BY Returned DEF TypeInv, StackTypes
  <1> DEFINE f == [i \in 1..Len(stack') |-> i + 1]
  <1>2. f \in [1..Len(stack') -> Nat] /\ \A i, j \in 1..Len(stack') : i < j => f[i] < f[j]
    OBVIOUS
  <1>3. ASSUME NEW i \in 1..Len(stack'), IsDrain(stack'[i])
        PROVE  /\ f[i] \in 1..Len(stack)
               /\ IsDrain(stack[f[i]])
               /\ stack'[i].open = stack[f[i]].open
               /\ Reopens(stack'[i]) = Reopens(stack[f[i]])
    BY <1>1, <1>3 DEF IsReturn, Reopens
  <1> HIDE DEF f
  <1> QED BY <1>2, <1>3, MaskKept

(* The end of a drain.                                                      *)
LEMMA MaskFinish ==
    ASSUME TypeInv, MaskInv, TypeInv', Look, Finish
    PROVE  MaskInv'
  <1>1. /\ stack # <<>> /\ IsDrain(Top) /\ stack' = Tail(stack)
        /\ intr' = (Top.op = "isr" \/ intr \/ Top.saved)
    BY DEF Look, Finish, Return
  <1>2. IsReturn(stack, stack')
    BY <1>1, Returned DEF TypeInv, StackTypes
  <1>3. CASE Reopens(Top) \/ intr
    <2>1. ASSUME NEW j \in 2..Len(stack), IsDrain(stack[j])
          PROVE  stack[j].open
      <3>1. j \in 1..Len(stack) /\ 1 < j /\ 1 \in 1..Len(stack)
        BY <1>1, TopIsCall DEF TypeInv
      <3> QED BY <1>1, <1>3, <2>1, <3>1 DEF MaskInv, Top
    <2>2. \A i \in 1..Len(stack') : IsDrain(stack'[i]) => stack'[i].open
      BY <1>2, <2>1 DEF IsReturn
    <2> QED BY <2>2 DEF MaskInv
  <1>4. CASE ~(Reopens(Top) \/ intr)
    <2>1. ~intr /\ ~intr'
      BY <1>1, <1>4, Zenon DEF Reopens
    <2>2. intr \in BOOLEAN /\ intr' \in BOOLEAN
      BY DEF TypeInv
    <2>3. intr' = intr
      BY <2>1, <2>2
    <2> QED BY <1>1, <2>3, MaskReturned DEF TypeInv
  <1> QED BY <1>3, <1>4

(* A drain starts.                                                          *)
LEMMA MaskStart ==
    ASSUME TypeInv, MaskInv, TypeInv', StartPoll \/ (Interrupt /\ "ROK" \in pending)
    PROVE  MaskInv'
  <1>1. CASE Interrupt /\ "ROK" \in pending
    <2>1. intr /\ ~intr' /\ stack' = <<Drain("isr")>> \o stack
      BY <1>1, Zenon DEF Interrupt
    <2>2. IsPush(stack, stack', Drain("isr"))
      BY <2>1, Pushed, DrainIsCall DEF TypeInv, StackTypes
    <2>3. \A i \in 1..Len(stack) : IsDrain(stack[i]) => stack[i].open
      BY <2>1 DEF MaskInv
    <2>4. ASSUME NEW i \in 1..Len(stack'), NEW j \in 1..Len(stack'), i < j, IsDrain(stack'[j])
          PROVE  stack'[j].open
      <3>1. j # 1
        BY <2>4
      <3> QED BY <2>2, <2>3, <2>4, <3>1, Zenon DEF IsPush
    <2> QED BY <2>1, <2>4 DEF MaskInv
  <1>2. CASE StartPoll
    <2> DEFINE c == [Top EXCEPT !.todo = Tail(@)]
    <2>1. ~intr' /\ stack' = <<Drain("poll"), c>> \o Tail(stack)
      BY <1>2 DEF StartPoll, Call
    <2>2. /\ stack # <<>> /\ c \in CallsNow
          /\ IsDrain(c) => /\ IsDrain(Top) /\ c.open = Top.open
                           /\ c.op = Top.op /\ c.saved = Top.saved
      BY <1>2, TopDoesOne, Zenon DEF StartPoll, TypeInv
    <2> HIDE DEF c
    <2>3. Drain("poll") \in CallsNow /\ Drain("poll").saved = intr /\ Drain("poll").op = "poll"
      BY DrainIsCall
    <2>4. IsCall(stack, stack', Drain("poll"), c)
      BY <2>1, <2>2, <2>3, CalledTwo DEF TypeInv, StackTypes
    <2>5. 1 \in 1..Len(stack) /\ Len(stack) \in Nat
      BY <2>2, TopIsCall DEF TypeInv
    <2>6. ASSUME NEW i \in 1..Len(stack'), i # 1, IsDrain(stack'[i])
          PROVE  /\ i - 1 \in 1..Len(stack) /\ IsDrain(stack[i - 1])
                 /\ stack'[i].open = stack[i - 1].open
                 /\ Reopens(stack'[i]) = Reopens(stack[i - 1])
      <3>1. CASE i = 2 /\ stack'[i] = c
        <4>1. stack[i - 1] = Top /\ i - 1 = 1
          BY <3>1 DEF Top
        <4> QED BY <2>2, <2>5, <2>6, <3>1, <4>1 DEF Reopens
      <3>2. CASE i - 1 \in 1..Len(stack) /\ stack'[i] = stack[i - 1]
        BY <2>6, <3>2
      <3> QED BY <2>4, <2>6, <3>1, <3>2, Zenon DEF IsCall
    <2>7. ASSUME NEW i \in 1..Len(stack'), NEW j \in 1..Len(stack'), i < j,
                 IsDrain(stack'[i]), IsDrain(stack'[j]), Reopens(stack'[i])
          PROVE  stack'[j].open
      <3>1. /\ j # 1 /\ j - 1 \in 1..Len(stack) /\ IsDrain(stack[j - 1])
            /\ stack'[j].open = stack[j - 1].open
        BY <2>6, <2>7
      <3>2. CASE i = 1
        <4>1. intr
          BY <2>3, <2>4, <2>7, <3>2 DEF IsCall, Reopens
        <4> QED BY <3>1, <4>1 DEF MaskInv
      <3>3. CASE i # 1
        <4>1. /\ i - 1 \in 1..Len(stack) /\ IsDrain(stack[i - 1])
              /\ Reopens(stack[i - 1]) /\ i - 1 < j - 1
          BY <2>6, <2>7, <3>3
        <4> QED BY <3>1, <4>1 DEF MaskInv
      <3> QED BY <3>2, <3>3
    <2> QED BY <2>1, <2>7, Zenon DEF MaskInv
  <1> QED BY <1>1, <1>2

(* Every step keeps it.                                                     *)
LEMMA MaskNext ==
    ASSUME TypeInv, MaskInv, TypeInv', [Next]_vars
    PROVE  MaskInv'
  <1> DEFINE c == [Top EXCEPT !.todo = Tail(@)]
  <1>1. ASSUME stack' = stack, intr' = intr
        PROVE  MaskInv'
    BY <1>1 DEF MaskInv
  <1>2. CASE UNCHANGED vars \/ Quiet \/ Transmit \/ \E len \in Lens : Arrive(len)
    BY <1>1, <1>2 DEF vars, Quiet, Transmit, Arrive
  <1>3. ASSUME Look
        PROVE  MaskInv'
    <2>1. ASSUME NEW work \in Work, Take(work)
          PROVE  MaskInv'
      <3>1. /\ stack # <<>> /\ IsDrain(Top) /\ IsHeader /\ intr' = intr
            /\ stack' = <<[Top EXCEPT !.at = "frame", !.id = Cell.id, !.todo = work]>>
                          \o Tail(stack)
        BY <1>3, <2>1, Zenon DEF Look, Take, Replace
      <3> QED BY <3>1, TakenTop, MaskReplaced, Zenon DEF TypeInv
    <2>2. CASE Misread
      BY <1>1, <2>2 DEF Misread
    <2> QED BY <1>3, <2>1, <2>2, MaskFinish DEF Look
  <1>4. CASE Step
    <2>1. /\ stack # <<>> /\ intr' = intr
          /\ stack' = <<[Top EXCEPT !.at = "look", !.off = Advance(@, stored[Top.id].len)]>>
                        \o Tail(stack)
      BY <1>4 DEF Step, Replace
    <2> QED BY <1>4, <2>1, SteppedTop, MaskReplaced, Zenon DEF TypeInv
  <1>5. CASE Interrupt /\ "ROK" \notin pending
    BY <1>1, <1>5, Zenon DEF Interrupt
  <1>6. ASSUME NEW buf \in Buffers, StartSend(buf)
        PROVE  MaskInv'
    <2>1. intr' = intr /\ stack' = <<Send(buf), c>> \o Tail(stack)
      BY <1>6 DEF StartSend, Call
    <2>2. /\ stack # <<>> /\ c \in CallsNow
          /\ IsDrain(c) => /\ IsDrain(Top) /\ c.open = Top.open
                           /\ c.op = Top.op /\ c.saved = Top.saved
      BY <1>6, TopDoesOne, Zenon DEF StartSend, TypeInv
    <2> HIDE DEF c
    <2>3. Send(buf) \in CallsNow /\ ~IsDrain(Send(buf))
      BY SendIsCall
    <2>4. IsCall(stack, stack', Send(buf), c)
      BY <2>1, <2>2, <2>3, CalledTwo DEF TypeInv, StackTypes
    <2>5. 1 \in 1..Len(stack) /\ Len(stack) \in Nat
      BY <2>2, TopIsCall DEF TypeInv
    <2> DEFINE f == [i \in 1..Len(stack') |-> i - 1]
    <2>6. f \in [1..Len(stack') -> Nat] /\ \A i, j \in 1..Len(stack') : i < j => f[i] < f[j]
      OBVIOUS
    <2>7. ASSUME NEW i \in 1..Len(stack'), IsDrain(stack'[i])
          PROVE  /\ f[i] \in 1..Len(stack)
                 /\ IsDrain(stack[f[i]])
                 /\ stack'[i].open = stack[f[i]].open
                 /\ Reopens(stack'[i]) = Reopens(stack[f[i]])
      <3>1. CASE i = 2 /\ stack'[i] = c
        BY <2>2, <2>5, <2>7, <3>1 DEF Reopens, Top
      <3>2. CASE i - 1 \in 1..Len(stack) /\ stack'[i] = stack[i - 1]
        BY <2>7, <3>2
      <3> QED BY <2>3, <2>4, <2>7, <3>1, <3>2, Zenon DEF IsCall
    <2> HIDE DEF f
    <2> QED BY <2>1, <2>6, <2>7, MaskKept, Zenon DEF TypeInv
  <1>7. CASE Sti
    <2> DEFINE d(i) == IF i = 1 THEN c ELSE stack[i]
               e(i) == IF IsDrain(d(i)) THEN [d(i) EXCEPT !.open = TRUE] ELSE d(i)
    <2>1. stack' = [i \in DOMAIN stack |-> e(i)]
      BY <1>7 DEF Sti
    <2>2. c \in CallsNow
      BY <1>7, TopDoesOne, Zenon DEF Sti, TypeInv
    <2>3. \A i \in 1..Len(stack) : d(i) \in Calls
      BY <2>2, StackCalls DEF TypeInv, CallsNow
    <2> HIDE DEF c, d
    <2>4. ASSUME NEW i \in 1..Len(stack), IsDrain(e(i))
          PROVE  e(i).open
      <3>1. CASE IsDrain(d(i))
        <4>1. d(i) \in Drains
          BY <2>3, <3>1, CallKinds
        <4>2. [d(i) EXCEPT !.open = TRUE].open = TRUE
          BY <4>1 DEF Drains
        <4> QED BY <3>1, <4>2
      <3> QED BY <2>4, <3>1
    <2> HIDE DEF e
    <2>5. Len(stack') = Len(stack) /\ \A i \in 1..Len(stack) : stack'[i] = e(i)
      BY <2>1, StackCalls DEF TypeInv
    <2> QED BY <2>4, <2>5 DEF MaskInv
  <1>8. CASE Hlt
    <2>1. intr' = intr /\ (stack' = stack \/ stack' = <<c>> \o Tail(stack))
      BY <1>8, Zenon DEF Hlt, Replace
    <2>2. /\ stack # <<>> /\ c \in CallsNow
          /\ IsDrain(c) => /\ IsDrain(Top) /\ c.open = Top.open
                           /\ c.op = Top.op /\ c.saved = Top.saved
      BY <1>8, TopDoesOne, Zenon DEF Hlt, TypeInv
    <2> HIDE DEF c
    <2> QED BY <1>1, <2>1, <2>2, MaskReplaced DEF TypeInv
  <1>9. CASE SendPacket
    <2>1. intr' = intr
      BY <1>9 DEF SendPacket
    <2>2. ASSUME NEW d \in CallsNow, ~IsDrain(d), stack # <<>>, stack' = <<d>> \o Tail(stack)
          PROVE  MaskInv'
      BY <2>1, <2>2, MaskReplaced DEF TypeInv
    <2>3. CASE SendCall
      BY <2>2, <2>3, SendingTop, CalledTop DEF SendCall, Replace
    <2>4. CASE SendSpin
      BY <2>2, <2>4, SendingTop, Zenon DEF SendSpin, Goto, Replace
    <2>5. CASE SendMark
      BY <2>2, <2>5, SendingTop, Zenon DEF SendMark, Goto, Replace
    <2>6. CASE SendStart
      BY <2>2, <2>6, SendingTop, Zenon DEF SendStart, Goto, Replace
    <2>7. CASE SendMove
      BY <2>1, <2>7, SendingTop, MaskReturned DEF SendMove, Return, TypeInv
    <2> QED BY <1>9, <2>3, <2>4, <2>5, <2>6, <2>7 DEF SendPacket
  <1>10. CASE CommandEnd
    BY <1>10, MaskReturned DEF CommandEnd, Return, TypeInv
  <1>11. ASSUME NEW todo \in ShellWork, Command(todo)
         PROVE  MaskInv'
    <2>1. stack' = <<Shell(todo)>> /\ ~IsDrain(Shell(todo))
      BY <1>11, ShellIsCall DEF Command
    <2>2. \A i \in 1..Len(stack') : ~IsDrain(stack'[i])
      BY <2>1
    <2> QED BY <2>2 DEF MaskInv
  <1> HIDE DEF c
  <1> QED BY <1>2, <1>3, <1>4, <1>5, <1>6, <1>7, <1>8, <1>9, <1>10, <1>11, MaskStart
          DEF Next, Run

(* rtl8139_handler and rtl8139_poll_rx run with interrupts off until the    *)
(* work of a frame enables them: a poll inside a handler leaves IF as it    *)
(* found it.                                                                *)
THEOREM DrainsStayMasked == Spec => []DrainsMasked
  <1>1. Init => TypeInv /\ MaskInv
    <2>1. ASSUME Init PROVE MaskInv
      BY <2>1 DEF Init, MaskInv
    <2> QED BY <2>1, TypeInit
  <1>2. TypeInv /\ MaskInv /\ [Next]_vars => (TypeInv /\ MaskInv)'
    BY TypeNext, MaskNext
  <1>3. TypeInv /\ MaskInv => DrainsMasked
    BY StackCalls DEF TypeInv, MaskInv, DrainsMasked
  <1> QED BY <1>1, <1>2, <1>3, PTL DEF Spec

(***************************************************************************)
(* Transmission.  From next_tx on, InCard descriptors in a row hold the     *)
(* packets that follow those on the wire, each in a buffer of its own, and  *)
(* the next one to be filled is the one behind them.                        *)
(***************************************************************************)
Cyc(d, n) == IF d + n >= NDesc THEN d + n - NDesc ELSE d + n
Dist(from, d) == IF d >= from THEN d - from ELSE d - from + NDesc

(* A call has not started the card, or has and not moved on.                *)
Unstarted == \E i \in 1..Len(stack) : IsSend(stack[i]) /\ stack[i].at # "move"
Moving == \E i \in 1..Len(stack) : IsSend(stack[i]) /\ stack[i].at = "move"

InCard == Len(handed) - Len(wire) - (IF Unstarted THEN 1 ELSE 0)
Upcoming == IF Moving THEN Cyc(current_tx_desc, 1) ELSE current_tx_desc

TxRing ==
    /\ InCard \in 0..NDesc
    /\ Upcoming = Cyc(next_tx, InCard)
    /\ \A d \in Descs :
          /\ tsd[d] = "busy" <=> Dist(next_tx, d) < InCard
          /\ tsd[d] = "busy" => /\ used[d]
                                /\ memory[tsad[d]] = Len(wire) + 1 + Dist(next_tx, d)

(* What a call of rtl8139_send_packet knows: before it starts the card its  *)
(* packet is the last one handed over, and once it has seen TOK or a fresh  *)
(* descriptor, the current descriptor is free.                              *)
TxCalls ==
    \A i \in 1..Len(stack) : IsSend(stack[i]) =>
        /\ stack[i].at # "move" => memory[stack[i].buf] = Len(handed)
        /\ stack[i].at = "spin" => stack[i].port = current_tx_desc
        /\ stack[i].at \in {"mark", "start"} => tsd[current_tx_desc] # "busy"
        /\ stack[i].at = "start" => /\ tsad[current_tx_desc] = stack[i].buf
                                    /\ used[current_tx_desc]

OneSend == \A i, j \in 1..Len(stack) : IsSend(stack[i]) /\ IsSend(stack[j]) => i = j
Numbered(seq) == \A i \in 1..Len(seq) : seq[i] = i

TxNumbers == Numbered(handed) /\ Numbered(wire) /\ Len(wire) <= Len(handed)

TxInv ==
    /\ TxNumbers
    /\ ~Halted => OneSend /\ TxRing /\ TxCalls

(* Round the descriptors.                                                   *)
LEMMA CycFacts ==
    ASSUME NEW from \in Descs, NEW n \in 0..NDesc
    PROVE  /\ Cyc(from, n) \in Descs
           /\ n < NDesc => Dist(from, Cyc(from, n)) = n
           /\ n = NDesc => Dist(from, Cyc(from, n)) = 0
           /\ n < NDesc => Cyc(Cyc(from, n), 1) = Cyc(from, n + 1)
           /\ n > 0 => Cyc(Cyc(from, 1), n - 1) = Cyc(from, n)
           /\ Cyc(from, 1) = (from + 1) % NDesc
  <1>1. (from + 1) % NDesc = IF from + 1 = NDesc THEN 0 ELSE from + 1
    BY NextDesc
  <1> QED BY <1>1, SizesAssumption DEF Descs, Cyc, Dist

LEMMA DistFacts ==
    ASSUME NEW from \in Descs, NEW d \in Descs
    PROVE  /\ Dist(from, d) \in 0..(NDesc - 1)
           /\ Dist(from, from) = 0
           /\ \A e \in Descs : Dist(from, d) = Dist(from, e) => d = e
           /\ Dist(Cyc(from, 1), d) = IF d = from THEN NDesc - 1 ELSE Dist(from, d) - 1
  BY SizesAssumption DEF Descs, Cyc, Dist

(* Numbers go on when the next one is appended.                             *)
LEMMA NumberedOn ==
    ASSUME NEW q \in Seq(Nat), Numbered(q)
    PROVE  /\ Len(Append(q, Len(q) + 1)) = Len(q) + 1
           /\ Numbered(Append(q, Len(q) + 1))
  BY DEF Numbered

(* A step that changes nothing of the transmitter and leaves the calls of   *)
(* rtl8139_send_packet on the stack: i was f[i], and each is still there.   *)
LEMMA TxKept ==
    ASSUME TypeInv, TxInv, UNCHANGED tx, odd \subseteq odd',
           NEW f \in [1..Len(stack') -> Int],
           \A i \in 1..Len(stack') : IsSend(stack'[i]) =>
              f[i] \in 1..Len(stack) /\ stack'[i] = stack[f[i]],
           \A i, j \in 1..Len(stack') : f[i] = f[j] => i = j,
           \A i \in 1..Len(stack) : IsSend(stack[i]) =>
              \E k \in 1..Len(stack') : stack'[k] = stack[i]
    PROVE  TxInv'
  <1>1. /\ UNCHANGED <<next_tx, tsd, used, memory, tsad, wire>>
        /\ handed' = handed /\ current_tx_desc' = current_tx_desc
    BY DEF tx
  <1>2. TxNumbers'
    BY <1>1 DEF TxInv, TxNumbers, Numbered
  <1>3. CASE Halted'
    BY <1>2, <1>3 DEF TxInv
  <1>4. CASE ~Halted'
    <2>1. ~Halted
      BY <1>4 DEF Halted
    <2>2. OneSend /\ TxRing /\ TxCalls
      BY <2>1 DEF TxInv
    <2>3. ASSUME NEW i \in 1..Len(stack'), NEW j \in 1..Len(stack'),
                 IsSend(stack'[i]), IsSend(stack'[j])
          PROVE  i = j
      <3>1. /\ f[i] \in 1..Len(stack) /\ f[j] \in 1..Len(stack)
            /\ IsSend(stack[f[i]]) /\ IsSend(stack[f[j]])
        BY <2>3
      <3>2. f[i] = f[j]
        BY <2>2, <3>1 DEF OneSend
      <3> QED BY <3>2
    <2>4. OneSend'
      BY <2>3 DEF OneSend
    <2>5. (Unstarted' <=> Unstarted) /\ (Moving' <=> Moving)
      <3>1. ASSUME NEW i \in 1..Len(stack'), IsSend(stack'[i])
            PROVE  \E j \in 1..Len(stack) : stack[j] = stack'[i]
        BY <3>1, Zenon
      <3>2. ASSUME NEW i \in 1..Len(stack), IsSend(stack[i])
            PROVE  \E j \in 1..Len(stack') : stack'[j] = stack[i]
        BY <3>2, Zenon
      <3>3. Unstarted' <=> Unstarted
        <4>1. ASSUME Unstarted'
              PROVE  Unstarted
          <5>1. PICK i \in 1..Len(stack') : IsSend(stack'[i]) /\ stack'[i].at # "move"
            BY <4>1, Zenon DEF Unstarted
          <5>2. PICK j \in 1..Len(stack) : stack[j] = stack'[i]
            BY <3>1, <5>1, Zenon
          <5> QED BY <5>1, <5>2, Zenon DEF Unstarted
        <4>2. ASSUME Unstarted
              PROVE  Unstarted'
          <5>1. PICK i \in 1..Len(stack) : IsSend(stack[i]) /\ stack[i].at # "move"
            BY <4>2, Zenon DEF Unstarted
          <5>2. PICK j \in 1..Len(stack') : stack'[j] = stack[i]
            BY <3>2, <5>1, Zenon
          <5> QED BY <5>1, <5>2, Zenon DEF Unstarted
        <4> QED BY <4>1, <4>2
      <3>4. Moving' <=> Moving
        <4>1. ASSUME Moving'
              PROVE  Moving
          <5>1. PICK i \in 1..Len(stack') : IsSend(stack'[i]) /\ stack'[i].at = "move"
            BY <4>1, Zenon DEF Moving
          <5>2. PICK j \in 1..Len(stack) : stack[j] = stack'[i]
            BY <3>1, <5>1, Zenon
          <5> QED BY <5>1, <5>2, Zenon DEF Moving
        <4>2. ASSUME Moving
              PROVE  Moving'
          <5>1. PICK i \in 1..Len(stack) : IsSend(stack[i]) /\ stack[i].at = "move"
            BY <4>2, Zenon DEF Moving
          <5>2. PICK j \in 1..Len(stack') : stack'[j] = stack[i]
            BY <3>2, <5>1, Zenon
          <5> QED BY <5>1, <5>2, Zenon DEF Moving
        <4> QED BY <4>1, <4>2
      <3> QED BY <3>3, <3>4
    <2>6. TxRing'
      BY <1>1, <2>2, <2>5, Zenon DEF TxRing, InCard, Upcoming
    <2>7. TxCalls'
      BY <1>1, <2>2 DEF TxCalls
    <2> QED BY <1>2, <2>4, <2>6, <2>7 DEF TxInv
  <1> QED BY <1>3, <1>4

(* The steps of calls that are not of rtl8139_send_packet.                  *)
LEMMA TxReplaced ==
    ASSUME TypeInv, TxInv, UNCHANGED tx, odd \subseteq odd', stack # <<>>,
           NEW c \in CallsNow, stack' = <<c>> \o Tail(stack), ~IsSend(c), ~IsSend(Top)
    PROVE  TxInv'
  <1>1. IsReplace(stack, stack', c) /\ Len(stack) \in Nat
    BY Replaced, TopIsCall DEF TypeInv, StackTypes
  <1> DEFINE f == [i \in 1..Len(stack') |-> i]
  <1>2. f \in [1..Len(stack') -> Int] /\ \A i, j \in 1..Len(stack') : f[i] = f[j] => i = j
    OBVIOUS
  <1>3. ASSUME NEW i \in 1..Len(stack'), IsSend(stack'[i])
        PROVE  f[i] \in 1..Len(stack) /\ stack'[i] = stack[f[i]]
    BY <1>1, <1>3 DEF IsReplace
  <1>4. ASSUME NEW i \in 1..Len(stack), IsSend(stack[i])
        PROVE  \E k \in 1..Len(stack') : stack'[k] = stack[i]
    <2>1. i \in 2..Len(stack)
      BY <1>1, <1>4 DEF Top
    <2> QED BY <1>1, <2>1 DEF IsReplace
  <1> HIDE DEF f
  <1> QED BY <1>2, <1>3, <1>4, TxKept, Zenon

LEMMA TxReturned ==
    ASSUME TypeInv, TxInv, UNCHANGED tx, odd \subseteq odd', stack # <<>>,
           stack' = Tail(stack), ~IsSend(Top)
    PROVE  TxInv'
  <1>1. IsReturn(stack, stack') /\ Len(stack) \in Nat
    BY Returned, TopIsCall DEF TypeInv, StackTypes
  <1> DEFINE f == [i \in 1..Len(stack') |-> i + 1]
  <1>2. f \in [1..Len(stack') -> Int] /\ \A i, j \in 1..Len(stack') : f[i] = f[j] => i = j
    OBVIOUS
  <1>3. ASSUME NEW i \in 1..Len(stack'), IsSend(stack'[i])
        PROVE  f[i] \in 1..Len(stack) /\ stack'[i] = stack[f[i]]
    BY <1>1 DEF IsReturn
  <1>4. ASSUME NEW i \in 1..Len(stack), IsSend(stack[i])
        PROVE  \E k \in 1..Len(stack') : stack'[k] = stack[i]
    <2>1. i \in 2..Len(stack)
      BY <1>1, <1>4 DEF Top
    <2> QED BY <1>1, <2>1, Zenon DEF IsReturn
  <1> HIDE DEF f
  <1> QED BY <1>2, <1>3, <1>4, TxKept, Zenon

LEMMA TxStarted ==
    ASSUME TypeInv, TxInv, StartPoll \/ (Interrupt /\ "ROK" \in pending)
    PROVE  TxInv'
  <1> DEFINE f == [i \in 1..Len(stack') |-> i - 1]
  <1>1. f \in [1..Len(stack') -> Int] /\ \A i, j \in 1..Len(stack') : f[i] = f[j] => i = j
    OBVIOUS
  <1>2. UNCHANGED tx /\ odd \subseteq odd'
    BY DEF StartPoll, Interrupt
  <1>3. CASE Interrupt /\ "ROK" \in pending
    <2>1. stack' = <<Drain("isr")>> \o stack
      BY <1>3, Zenon DEF Interrupt
    <2>2. IsPush(stack, stack', Drain("isr")) /\ ~IsSend(Drain("isr"))
      BY <2>1, Pushed, DrainIsCall, Zenon DEF TypeInv, StackTypes
    <2>3. ASSUME NEW i \in 1..Len(stack'), IsSend(stack'[i])
          PROVE  f[i] \in 1..Len(stack) /\ stack'[i] = stack[f[i]]
      BY <2>2, <2>3 DEF IsPush
    <2>4. ASSUME NEW i \in 1..Len(stack), IsSend(stack[i])
          PROVE  \E k \in 1..Len(stack') : stack'[k] = stack[i]
      <3>1. i + 1 \in 1..Len(stack') /\ stack'[i + 1] = stack[i]
        BY <2>2 DEF IsPush
      <3> QED BY <3>1
    <2> HIDE DEF f
    <2> QED BY <1>1, <1>2, <2>3, <2>4, TxKept
  <1>4. CASE StartPoll
    <2> DEFINE c == [Top EXCEPT !.todo = Tail(@)]
    <2>1. stack' = <<Drain("poll"), c>> \o Tail(stack)
      BY <1>4 DEF StartPoll, Call
    <2>2. stack # <<>> /\ c \in CallsNow /\ ~IsSend(c) /\ ~IsSend(Top)
      BY <1>4, TopDoesOne, Zenon DEF StartPoll, TypeInv
    <2> HIDE DEF c
    <2>3. IsCall(stack, stack', Drain("poll"), c) /\ ~IsSend(Drain("poll"))
      BY <2>1, <2>2, DrainIsCall, CalledTwo, Zenon DEF TypeInv, StackTypes
    <2>4. ASSUME NEW i \in 1..Len(stack'), IsSend(stack'[i])
          PROVE  f[i] \in 1..Len(stack) /\ stack'[i] = stack[f[i]]
      BY <2>2, <2>3, <2>4 DEF IsCall
    <2>5. ASSUME NEW i \in 1..Len(stack), IsSend(stack[i])
          PROVE  \E k \in 1..Len(stack') : stack'[k] = stack[i]
      <3>1. i \in 2..Len(stack)
        BY <2>2, <2>5, TopIsCall DEF Top, TypeInv
      <3>2. i + 1 \in 1..Len(stack') /\ stack'[i + 1] = stack[i]
        BY <2>3, <3>1 DEF IsCall
      <3> QED BY <3>2
    <2> HIDE DEF f
    <2> QED BY <1>1, <1>2, <2>4, <2>5, TxKept
  <1> QED BY <1>3, <1>4

(* sti changes no call of rtl8139_send_packet.                              *)
LEMMA TxSti ==
    ASSUME TypeInv, TxInv, Sti
    PROVE  TxInv'
  <1> DEFINE c == [Top EXCEPT !.todo = Tail(@)]
             d(i) == IF i = 1 THEN c ELSE stack[i]
             e(i) == IF IsDrain(d(i)) THEN [d(i) EXCEPT !.open = TRUE] ELSE d(i)
  <1>1. stack' = [i \in DOMAIN stack |-> e(i)] /\ UNCHANGED tx /\ odd' = odd
    BY DEF Sti
  <1>2. c \in CallsNow /\ ~IsSend(c) /\ ~IsSend(Top) /\ stack # <<>>
    BY TopDoesOne, Zenon DEF Sti, TypeInv
  <1>3. \A i \in 1..Len(stack) : d(i) \in Calls
    BY <1>2, StackCalls DEF TypeInv, CallsNow
  <1>4. \A i \in 1..Len(stack) : /\ IsSend(d(i)) => i # 1
                                 /\ i # 1 => d(i) = stack[i]
    BY <1>2
  <1> HIDE DEF c, d
  <1>5. ASSUME NEW i \in 1..Len(stack)
        PROVE  /\ IsSend(e(i)) => e(i) = stack[i]
               /\ IsSend(stack[i]) => e(i) = stack[i]
    <2>1. CASE IsDrain(d(i))
      <3>1. d(i) \in Drains /\ ~IsSend(d(i))
        BY <1>3, <2>1, CallKinds
      <3>2. [d(i) EXCEPT !.open = TRUE].op = d(i).op
        BY <3>1 DEF Drains
      <3>3. ~IsSend(e(i))
        BY <2>1, <3>1, <3>2 DEF IsSend
      <3>4. ~IsSend(stack[i])
        BY <1>2, <1>4, <3>1 DEF Top
      <3> QED BY <3>3, <3>4
    <2>2. CASE ~IsDrain(d(i))
      BY <1>2, <1>4, <2>2 DEF Top
    <2> QED BY <2>1, <2>2
  <1> HIDE DEF e
  <1>6. Len(stack') = Len(stack) /\ \A i \in 1..Len(stack) : stack'[i] = e(i)
    BY <1>1, StackCalls DEF TypeInv
  <1> DEFINE f == [i \in 1..Len(stack') |-> i]
  <1>7. f \in [1..Len(stack') -> Int] /\ \A i, j \in 1..Len(stack') : f[i] = f[j] => i = j
    OBVIOUS
  <1>8. ASSUME NEW i \in 1..Len(stack'), IsSend(stack'[i])
        PROVE  f[i] \in 1..Len(stack) /\ stack'[i] = stack[f[i]]
    BY <1>5, <1>6, <1>8
  <1>9. ASSUME NEW i \in 1..Len(stack), IsSend(stack[i])
        PROVE  \E k \in 1..Len(stack') : stack'[k] = stack[i]
    BY <1>5, <1>6, <1>9
  <1> HIDE DEF f
  <1> QED BY <1>1, <1>7, <1>8, <1>9, TxKept, Zenon

(* A step that leaves the stack alone as well.                              *)
LEMMA TxStack ==
    ASSUME TypeInv, TxInv, UNCHANGED tx, odd \subseteq odd', stack' = stack
    PROVE  TxInv'
  <1> DEFINE f == [i \in 1..Len(stack') |-> i]
  <1>1. f \in [1..Len(stack') -> Int] /\ \A i, j \in 1..Len(stack') : f[i] = f[j] => i = j
    OBVIOUS
  <1>2. \A i \in 1..Len(stack') : f[i] \in 1..Len(stack) /\ stack'[i] = stack[f[i]]
    OBVIOUS
  <1> HIDE DEF f
  <1> QED BY <1>1, <1>2, TxKept, Zenon

(* The card transmits the packet that is next.                              *)
LEMMA TxTransmit ==
    ASSUME TypeInv, TxInv, Transmit
    PROVE  TxInv'
  <1>1. /\ ~Halted /\ tsd[next_tx] = "busy"
        /\ wire' = Append(wire, memory[tsad[next_tx]])
        /\ tsd' = [tsd EXCEPT ![next_tx] = "TOK"]
        /\ next_tx' = (next_tx + 1) % NDesc
        /\ UNCHANGED <<used, current_tx_desc, tsad, memory, handed, stack, odd>>
    BY DEF Transmit
  <1>2. TxNumbers /\ OneSend /\ TxRing /\ TxCalls
    BY <1>1 DEF TxInv
  <1>3. /\ next_tx \in Descs /\ current_tx_desc \in Descs
        /\ tsd \in [Descs -> {"reset", "busy", "TOK"}]
        /\ Len(wire) \in Nat /\ Len(handed) \in Nat
        /\ wire \in Seq(Nat) /\ NDesc \in Nat \ {0}
    BY SizesAssumption DEF TypeInv, TxTypes
  <1>4. Dist(next_tx, next_tx) = 0
    BY <1>3, DistFacts
  <1>5. memory[tsad[next_tx]] = Len(wire) + 1 /\ InCard \in 1..NDesc
    <2>1. /\ InCard \in 0..NDesc
          /\ tsd[next_tx] = "busy" => /\ Dist(next_tx, next_tx) < InCard
                                     /\ memory[tsad[next_tx]] = Len(wire) + 1 + Dist(next_tx, next_tx)
      BY <1>2, <1>3, Zenon DEF TxRing
    <2>2. 0 < InCard /\ memory[tsad[next_tx]] = Len(wire) + 1 + 0
      BY <1>1, <1>4, <2>1, Zenon
    <2> QED BY <1>3, <2>1, <2>2
  <1>6. Len(wire') = Len(wire) + 1 /\ Numbered(wire')
    <2>1. Numbered(wire) /\ wire' = Append(wire, Len(wire) + 1)
      BY <1>1, <1>2, <1>5, Zenon DEF TxNumbers
    <2> QED BY <1>3, <2>1, NumberedOn, Zenon
  <1>7. /\ (Unstarted' <=> Unstarted) /\ (Moving' <=> Moving)
        /\ InCard' = InCard - 1
    <2>1. (Unstarted' <=> Unstarted) /\ (Moving' <=> Moving)
      BY <1>1 DEF Unstarted, Moving
    <2> QED BY <1>1, <1>3, <1>6, <2>1 DEF InCard
  <1>8. TxNumbers'
    <2>1. Len(wire') <= Len(handed)
      BY <1>3, <1>5, <1>6 DEF InCard
    <2> QED BY <1>1, <1>2, <1>6, <2>1 DEF TxNumbers, Numbered
  <1>9. next_tx' = Cyc(next_tx, 1)
    BY <1>1, <1>3, <1>5, CycFacts
  <1>10. Upcoming' = Cyc(next_tx', InCard')
    <2>1. Upcoming' = Upcoming
      BY <1>1, <1>7 DEF Upcoming
    <2>2. InCard \in 0..NDesc /\ InCard > 0
      BY <1>5
    <2>3. Cyc(Cyc(next_tx, 1), InCard - 1) = Cyc(next_tx, InCard)
      BY <1>3, <2>2, CycFacts
    <2> QED BY <1>2, <1>7, <1>9, <2>1, <2>3 DEF TxRing
  <1>11. ASSUME NEW d \in Descs
         PROVE  /\ tsd'[d] = "busy" <=> Dist(next_tx', d) < InCard'
                /\ tsd'[d] = "busy" =>
                     /\ used'[d]
                     /\ memory'[tsad'[d]] = Len(wire') + 1 + Dist(next_tx', d)
    <2>1. /\ Dist(next_tx, d) \in 0..(NDesc - 1)
          /\ Dist(next_tx', d) = IF d = next_tx THEN NDesc - 1 ELSE Dist(next_tx, d) - 1
      BY <1>3, <1>9, DistFacts
    <2>2. /\ tsd[d] = "busy" <=> Dist(next_tx, d) < InCard
          /\ tsd[d] = "busy" => used[d] /\ memory[tsad[d]] = Len(wire) + 1 + Dist(next_tx, d)
      BY <1>2 DEF TxRing
    <2>3. CASE d = next_tx
      <3>1. tsd'[d] = "TOK"
        BY <1>1, <1>3, <2>3
      <3>2. ~(Dist(next_tx', d) < InCard')
        BY <1>3, <1>5, <1>7, <2>1, <2>3
      <3> QED BY <3>1, <3>2
    <2>4. CASE d # next_tx
      <3>1. tsd'[d] = tsd[d] /\ Dist(next_tx', d) = Dist(next_tx, d) - 1
        BY <1>1, <1>3, <2>1, <2>4
      <3> QED BY <1>1, <1>3, <1>5, <1>6, <1>7, <2>1, <2>2, <3>1
    <2> QED BY <2>3, <2>4, Zenon
  <1>12. TxRing'
    <2>1. InCard' \in 0..NDesc
      BY <1>3, <1>5, <1>7
    <2> QED BY <1>10, <1>11, <2>1, Zenon DEF TxRing
  <1>13. TxCalls' /\ OneSend'
    <2>1. tsd[current_tx_desc] # "busy" => tsd'[current_tx_desc] # "busy"
      BY <1>1, <1>3
    <2> QED BY <1>1, <1>2, <2>1, Zenon DEF TxCalls, OneSend
  <1> QED BY <1>8, <1>12, <1>13 DEF TxInv

(* A packet is built in a buffer the card has read and handed over.         *)
LEMMA TxStartSend ==
    ASSUME TypeInv, TxInv, NEW buf \in Buffers, StartSend(buf)
    PROVE  TxInv'
  <1> DEFINE c == [Top EXCEPT !.todo = Tail(@)]
  <1>1. /\ stack' = <<Send(buf), c>> \o Tail(stack)
        /\ handed' = Append(handed, Len(handed) + 1)
        /\ memory' = [memory EXCEPT ![buf] = Len(handed) + 1]
        /\ UNCHANGED <<used, current_tx_desc, tsd, tsad, next_tx, wire>>
        /\ odd \subseteq odd' /\ ~Halted
    BY Zenon DEF StartSend, Call, Doing
  <1>2. stack # <<>> /\ c \in CallsNow /\ ~IsSend(c) /\ ~IsSend(Top)
    BY TopDoesOne, Zenon DEF StartSend, TypeInv
  <1> HIDE DEF c
  <1>3. /\ IsCall(stack, stack', Send(buf), c)
        /\ IsSend(Send(buf)) /\ Send(buf).at = "call" /\ Send(buf).buf = buf
    BY <1>1, <1>2, SendIsCall, CalledTwo DEF TypeInv, StackTypes
  <1>4. /\ handed \in Seq(Nat) /\ wire \in Seq(Nat)
        /\ Len(wire) \in Nat /\ Len(handed) \in Nat
        /\ memory \in [Buffers \cup {"none"} -> Nat]
        /\ tsad \in [Descs -> Buffers \cup {"none"}]
        /\ 1 \in 1..Len(stack) /\ Len(stack) \in Nat
        /\ DOMAIN stack = 1..Len(stack) /\ DOMAIN tsd = Descs
    BY <1>2, TopIsCall DEF TypeInv, TxTypes
  <1>5. TxNumbers /\ OneSend /\ TxRing /\ TxCalls
    BY <1>1 DEF TxInv
  <1>6. Len(handed') = Len(handed) + 1 /\ Numbered(handed')
    <2>1. Numbered(handed)
      BY <1>5, Zenon DEF TxNumbers
    <2> QED BY <1>1, <1>4, <2>1, NumberedOn, Zenon
  <1>7. TxNumbers'
    BY <1>1, <1>4, <1>5, <1>6 DEF TxNumbers, Numbered
  <1>8. ASSUME ~Halted'
        PROVE  OneSend' /\ TxRing' /\ TxCalls'
    <2>1. "preempted" \notin odd' /\ "reused" \notin odd'
      BY <1>8 DEF Halted
    <2>2. \A i \in 1..Len(stack) : ~IsSend(stack[i])
      BY <1>4, <2>1, Zenon DEF StartSend, IsSend
    <2>3. \A d \in Descs : tsd[d] = "busy" => tsad[d] # buf
      BY <1>4, <2>1, Zenon DEF StartSend
    <2>4. ASSUME NEW i \in 1..Len(stack'), IsSend(stack'[i])
          PROVE  i = 1 /\ stack'[i] = Send(buf)
      BY <1>2, <1>3, <2>2, <2>4 DEF IsCall
    <2>5. OneSend'
      BY <2>4 DEF OneSend
    <2>6. 1 \in 1..Len(stack') /\ stack'[1] = Send(buf)
      BY <1>3, <1>4 DEF IsCall
    <2>7. ~Unstarted /\ ~Moving /\ Unstarted' /\ ~Moving'
      BY <1>3, <2>2, <2>4, <2>6, Zenon DEF Unstarted, Moving
    <2>8. InCard' = InCard /\ Upcoming' = Upcoming
      BY <1>1, <1>4, <1>6, <2>7 DEF InCard, Upcoming
    <2>9. \A d \in Descs : tsd[d] = "busy" => memory'[tsad[d]] = memory[tsad[d]]
      BY <1>1, <1>4, <2>3
    <2>10. TxRing'
      BY <1>1, <1>5, <2>8, <2>9, Zenon DEF TxRing
    <2>11. memory'[buf] = Len(handed')
      BY <1>1, <1>4, <1>6
    <2>12. TxCalls'
      BY <1>3, <2>4, <2>11, Zenon DEF TxCalls
    <2> QED BY <2>5, <2>10, <2>12
  <1> QED BY <1>7, <1>8 DEF TxInv

(* Only the call that runs is in rtl8139_send_packet.                       *)
LEMMA SendAlone ==
    ASSUME TypeInv, TxInv, NEW from, Sending(from)
    PROVE  /\ ~Halted /\ TxNumbers /\ OneSend /\ TxRing /\ TxCalls
           /\ \A i \in 1..Len(stack) : IsSend(stack[i]) => i = 1
           /\ Unstarted <=> from # "move"
           /\ Moving <=> from = "move"
           /\ from # "move" => memory[Top.buf] = Len(handed)
           /\ from = "spin" => Top.port = current_tx_desc
           /\ from \in {"mark", "start"} => tsd[current_tx_desc] # "busy"
           /\ from = "start" => tsad[current_tx_desc] = Top.buf /\ used[current_tx_desc]
  <1>1. ~Halted /\ stack # <<>> /\ IsSend(Top) /\ Top.at = from
    BY SendingTop DEF Sending
  <1>2. TxNumbers /\ OneSend /\ TxRing /\ TxCalls
    BY <1>1 DEF TxInv
  <1>3. 1 \in 1..Len(stack) /\ IsSend(stack[1]) /\ stack[1].at = from
    BY <1>1, TopIsCall DEF TypeInv, Top
  <1>4. \A i \in 1..Len(stack) : IsSend(stack[i]) => i = 1
    BY <1>2, <1>3 DEF OneSend
  <1>5. (Unstarted <=> from # "move") /\ (Moving <=> from = "move")
    BY <1>3, <1>4 DEF Unstarted, Moving
  <1> QED BY <1>1, <1>2, <1>3, <1>4, <1>5, Zenon DEF TxCalls, Top

(* It is still alone when it has gone on to c.                              *)
LEMMA SendGoesOn ==
    ASSUME TypeInv, TxInv, NEW from, Sending(from),
           NEW c \in CallsNow, IsSend(c), stack' = <<c>> \o Tail(stack)
    PROVE  /\ OneSend'
           /\ \A i \in 1..Len(stack') : IsSend(stack'[i]) => i = 1 /\ stack'[i] = c
           /\ Unstarted' <=> c.at # "move"
           /\ Moving' <=> c.at = "move"
  <1>1. stack # <<>> /\ \A i \in 1..Len(stack) : IsSend(stack[i]) => i = 1
    BY SendAlone, SendingTop
  <1>2. IsReplace(stack, stack', c)
    BY <1>1, Replaced DEF TypeInv, StackTypes
  <1>3. ASSUME NEW i \in 1..Len(stack'), IsSend(stack'[i])
        PROVE  i = 1 /\ stack'[i] = c
    BY <1>1, <1>2, <1>3 DEF IsReplace
  <1>4. 1 \in 1..Len(stack') /\ stack'[1] = c
    BY <1>2 DEF IsReplace
  <1>5. OneSend'
    BY <1>3 DEF OneSend
  <1> QED BY <1>3, <1>4, <1>5 DEF Unstarted, Moving

(* rtl8139_send_packet: it waits until the current descriptor is free, then *)
(* fills it, starts it and moves on.                                        *)
LEMMA TxSend ==
    ASSUME TypeInv, TxInv, SendPacket
    PROVE  TxInv'
  <1>1. odd' = odd
    BY DEF SendPacket
  <1>2. /\ current_tx_desc \in Descs /\ next_tx \in Descs
        /\ tsd \in [Descs -> {"reset", "busy", "TOK"}]
        /\ used \in [Descs -> BOOLEAN] /\ tsad \in [Descs -> Buffers \cup {"none"}]
        /\ Len(wire) \in Nat /\ Len(handed) \in Nat
    BY DEF TypeInv, TxTypes
  <1>3. CASE SendCall
    <2> DEFINE to == IF used[current_tx_desc] THEN "spin" ELSE "mark"
               c == [Top EXCEPT !.port = current_tx_desc, !.at = to]
    <2>1. Sending("call") /\ stack' = <<c>> \o Tail(stack) /\ UNCHANGED tx
      BY <1>3 DEF SendCall, Replace
    <2>2. /\ c \in CallsNow /\ IsSend(c) /\ c.at = to
          /\ c.buf = Top.buf /\ c.port = current_tx_desc
      BY <1>3, CalledTop
    <2>3. to \in {"spin", "mark"} /\ (to = "mark" => ~used[current_tx_desc])
      OBVIOUS
    <2> HIDE DEF c, to
    <2>4. /\ TxNumbers /\ TxRing /\ Unstarted /\ ~Moving
          /\ memory[Top.buf] = Len(handed)
      <3>1. Sending("call")
        BY <2>1
      <3> QED BY <3>1, SendAlone
    <2>5. /\ OneSend' /\ Unstarted' /\ ~Moving'
          /\ \A i \in 1..Len(stack') : IsSend(stack'[i]) => i = 1 /\ stack'[i] = c
      BY <2>1, <2>2, <2>3, SendGoesOn
    <2>6. TxNumbers'
      BY <2>1, <2>4 DEF TxNumbers, Numbered, tx
    <2>7. TxRing'
      BY <2>1, <2>4, <2>5, Zenon DEF TxRing, InCard, Upcoming, tx
    <2>8. c.at = "mark" => tsd[current_tx_desc] # "busy"
      BY <1>2, <2>2, <2>3, <2>4 DEF TxRing
    <2>9. TxCalls'
      BY <2>1, <2>2, <2>3, <2>4, <2>5, <2>8, Zenon DEF TxCalls, tx
    <2> QED BY <2>5, <2>6, <2>7, <2>9 DEF TxInv
  <1>4. CASE SendSpin
    <2> DEFINE c == [Top EXCEPT !.at = "mark"]
    <2>1. /\ Sending("spin") /\ stack' = <<c>> \o Tail(stack) /\ UNCHANGED tx
          /\ tsd[Top.port] = "TOK"
      BY <1>4 DEF SendSpin, Goto, Replace
    <2>2. c \in CallsNow /\ IsSend(c) /\ c.at = "mark" /\ c.buf = Top.buf
      BY <2>1, SendingTop
    <2> HIDE DEF c
    <2>3. /\ TxNumbers /\ TxRing /\ Unstarted /\ ~Moving
          /\ memory[Top.buf] = Len(handed) /\ Top.port = current_tx_desc
      <3>1. Sending("spin")
        BY <2>1
      <3> QED BY <3>1, SendAlone
    <2>4. /\ OneSend' /\ Unstarted' /\ ~Moving'
          /\ \A i \in 1..Len(stack') : IsSend(stack'[i]) => i = 1 /\ stack'[i] = c
      BY <2>1, <2>2, SendGoesOn
    <2>5. TxNumbers'
      BY <2>1, <2>3 DEF TxNumbers, Numbered, tx
    <2>6. TxRing'
      BY <2>1, <2>3, <2>4, Zenon DEF TxRing, InCard, Upcoming, tx
    <2>7. TxCalls'
      BY <2>1, <2>2, <2>3, <2>4, Zenon DEF TxCalls, tx
    <2> QED BY <2>4, <2>5, <2>6, <2>7 DEF TxInv
  <1>5. CASE SendMark
    <2> DEFINE c == [Top EXCEPT !.at = "start"]
    <2>1. /\ Sending("mark") /\ stack' = <<c>> \o Tail(stack)
          /\ used' = [used EXCEPT ![current_tx_desc] = TRUE]
          /\ tsad' = [tsad EXCEPT ![current_tx_desc] = Top.buf]
          /\ UNCHANGED <<current_tx_desc, tsd, next_tx, memory, handed, wire>>
      BY <1>5 DEF SendMark, Goto, Replace
    <2>2. c \in CallsNow /\ IsSend(c) /\ c.at = "start" /\ c.buf = Top.buf
      BY <2>1, SendingTop, Zenon
    <2> HIDE DEF c
    <2>3. /\ TxNumbers /\ TxRing /\ Unstarted /\ ~Moving
          /\ memory[Top.buf] = Len(handed) /\ tsd[current_tx_desc] # "busy"
      <3>1. Sending("mark")
        BY <2>1
      <3> QED BY <3>1, SendAlone
    <2>4. /\ OneSend' /\ Unstarted' /\ ~Moving'
          /\ \A i \in 1..Len(stack') : IsSend(stack'[i]) => i = 1 /\ stack'[i] = c
      BY <2>1, <2>2, SendGoesOn
    <2>5. TxNumbers'
      BY <2>1, <2>3 DEF TxNumbers, Numbered
    <2>6. InCard' = InCard /\ Upcoming' = Upcoming
      BY <2>1, <2>3, <2>4 DEF InCard, Upcoming
    <2>7. \A d \in Descs : tsd[d] = "busy" => used'[d] = used[d] /\ tsad'[d] = tsad[d]
      BY <1>2, <2>1, <2>3, Zenon
    <2>8. TxRing'
      BY <2>1, <2>3, <2>6, <2>7, Zenon DEF TxRing
    <2>9. used'[current_tx_desc] /\ tsad'[current_tx_desc] = Top.buf
      BY <1>2, <2>1
    <2>10. TxCalls'
      BY <2>1, <2>2, <2>3, <2>4, <2>9, Zenon DEF TxCalls
    <2> QED BY <2>4, <2>5, <2>8, <2>10 DEF TxInv
  <1>6. CASE SendStart
    <2> DEFINE c == [Top EXCEPT !.at = "move"]
    <2>1. /\ Sending("start") /\ stack' = <<c>> \o Tail(stack)
          /\ tsd' = [tsd EXCEPT ![current_tx_desc] = "busy"]
          /\ UNCHANGED <<used, current_tx_desc, tsad, next_tx, memory, handed, wire>>
      BY <1>6 DEF SendStart, Goto, Replace
    <2>2. c \in CallsNow /\ IsSend(c) /\ c.at = "move"
      BY <2>1, SendingTop
    <2> HIDE DEF c
    <2>3. /\ TxNumbers /\ TxRing /\ Unstarted /\ ~Moving
          /\ memory[Top.buf] = Len(handed) /\ tsd[current_tx_desc] # "busy"
          /\ tsad[current_tx_desc] = Top.buf /\ used[current_tx_desc]
      <3>1. Sending("start")
        BY <2>1
      <3> QED BY <3>1, SendAlone
    <2>4. /\ OneSend' /\ ~Unstarted' /\ Moving'
          /\ \A i \in 1..Len(stack') : IsSend(stack'[i]) => i = 1 /\ stack'[i] = c
      BY <2>1, <2>2, SendGoesOn
    <2>5. TxNumbers'
      BY <2>1, <2>3 DEF TxNumbers, Numbered
    <2>6. InCard' = InCard + 1 /\ InCard = Len(handed) - Len(wire) - 1
      BY <1>2, <2>1, <2>3, <2>4 DEF InCard
    <2>7. /\ InCard \in 0..NDesc /\ current_tx_desc = Cyc(next_tx, InCard)
          /\ ~(Dist(next_tx, current_tx_desc) < InCard)
      BY <1>2, <2>3 DEF TxRing, Upcoming
    <2>8. InCard < NDesc /\ Dist(next_tx, current_tx_desc) = InCard
      <3>1. InCard = NDesc => Dist(next_tx, current_tx_desc) = 0
        BY <1>2, <2>7, CycFacts
      <3>2. InCard < NDesc
        BY <2>7, <3>1, SizesAssumption
      <3> QED BY <1>2, <2>7, <3>2, CycFacts
    <2>9. Upcoming' = Cyc(next_tx', InCard')
      <3>1. Cyc(current_tx_desc, 1) = Cyc(next_tx, InCard + 1)
        BY <1>2, <2>7, <2>8, CycFacts
      <3> QED BY <2>1, <2>4, <2>6, <3>1 DEF Upcoming
    <2>10. ASSUME NEW d \in Descs
           PROVE  /\ tsd'[d] = "busy" <=> Dist(next_tx', d) < InCard'
                  /\ tsd'[d] = "busy" =>
                       /\ used'[d]
                       /\ memory'[tsad'[d]] = Len(wire') + 1 + Dist(next_tx', d)
      <3>1. CASE d = current_tx_desc
        BY <1>2, <2>1, <2>3, <2>6, <2>7, <2>8, <3>1
      <3>2. CASE d # current_tx_desc
        <4>1. Dist(next_tx, d) # InCard /\ Dist(next_tx, d) \in Nat
          BY <1>2, <2>8, <3>2, DistFacts
        <4>2. tsd'[d] = tsd[d]
          BY <1>2, <2>1, <3>2
        <4>3. /\ tsd[d] = "busy" <=> Dist(next_tx, d) < InCard
              /\ tsd[d] = "busy" => used[d] /\ memory[tsad[d]] = Len(wire) + 1 + Dist(next_tx, d)
          BY <2>3, Zenon DEF TxRing
        <4>4. Dist(next_tx, d) < InCard <=> Dist(next_tx, d) < InCard + 1
          BY <2>7, <4>1
        <4> QED BY <2>1, <2>6, <4>2, <4>3, <4>4, Zenon
      <3> QED BY <3>1, <3>2
    <2>11. TxRing'
      <3>1. InCard' \in 0..NDesc
        BY <2>6, <2>7, <2>8, SizesAssumption
      <3> QED BY <2>9, <2>10, <3>1, Zenon DEF TxRing
    <2>12. TxCalls'
      BY <2>2, <2>4, Zenon DEF TxCalls
    <2> QED BY <2>4, <2>5, <2>11, <2>12 DEF TxInv
  <1>7. CASE SendMove
    <2>1. /\ Sending("move") /\ stack' = Tail(stack)
          /\ current_tx_desc' = (current_tx_desc + 1) % NDesc
          /\ UNCHANGED <<used, tsd, tsad, next_tx, memory, handed, wire>>
      BY <1>7 DEF SendMove, Return
    <2>2. /\ TxNumbers /\ TxRing /\ ~Unstarted /\ Moving
          /\ \A i \in 1..Len(stack) : IsSend(stack[i]) => i = 1
      BY <2>1, SendAlone, Zenon
    <2>3. IsReturn(stack, stack')
      BY <2>1, SendingTop, Returned DEF TypeInv, StackTypes
    <2>4. \A i \in 1..Len(stack') : ~IsSend(stack'[i])
      <3> TAKE i \in 1..Len(stack')
      <3>1. i + 1 \in 1..Len(stack) /\ i + 1 # 1 /\ stack'[i] = stack[i + 1]
        BY <2>3 DEF IsReturn
      <3> QED BY <2>2, <3>1
    <2>5. ~Unstarted' /\ ~Moving' /\ OneSend' /\ TxCalls'
      BY <2>4, Zenon DEF Unstarted, Moving, OneSend, TxCalls
    <2>6. 0 \in 0..NDesc
      BY SizesAssumption
    <2>7. current_tx_desc' = Cyc(current_tx_desc, 1)
      BY <1>2, <2>1, <2>6, CycFacts
    <2>8. InCard' = InCard /\ Upcoming' = Upcoming
      BY <2>1, <2>2, <2>5, <2>7 DEF InCard, Upcoming
    <2>9. TxRing'
      BY <2>1, <2>2, <2>8, Zenon DEF TxRing
    <2>10. TxNumbers'
      BY <2>1, <2>2 DEF TxNumbers, Numbered
    <2> QED BY <2>5, <2>9, <2>10 DEF TxInv
  <1> QED BY <1>3, <1>4, <1>5, <1>6, <1>7 DEF SendPacket

LEMMA TxInit ==
    ASSUME Init
    PROVE  TxInv
  <1>1. /\ handed = <<>> /\ wire = <<>> /\ stack = <<>>
        /\ current_tx_desc = 0 /\ next_tx = 0
        /\ \A d \in Descs : tsd[d] = "reset"
    BY Zenon DEF Init, Descs
  <1>2. ~Unstarted /\ ~Moving
    BY <1>1 DEF Unstarted, Moving
  <1>3. InCard = 0 /\ Upcoming = 0
    <2>1. Len(handed) = 0 /\ Len(wire) = 0
      BY <1>1
    <2>2. InCard = 0
      <3>1. (IF Unstarted THEN 1 ELSE 0) = 0
        BY <1>2, Zenon
      <3>2. 0 - 0 - 0 = 0
        OBVIOUS
      <3>3. InCard = 0 - 0 - 0
        BY <2>1, <3>1, Zenon DEF InCard
      <3> QED BY <3>2, <3>3
    <2>3. Upcoming = 0
      BY <1>1, <1>2 DEF Upcoming
    <2> QED BY <2>2, <2>3
  <1>4. TxRing
    <2>1. \A d \in Descs : ~(Dist(next_tx, d) < 0)
      BY <1>1, SizesAssumption DEF Descs, Dist
    <2> QED BY <1>1, <1>3, <2>1, SizesAssumption DEF TxRing, Cyc
  <1> QED BY <1>1, <1>4 DEF TxInv, TxNumbers, Numbered, OneSend, TxCalls

(* Every step keeps it.                                                     *)
LEMMA TxNext ==
    ASSUME TypeInv, TxInv, [Next]_vars
    PROVE  TxInv'
  <1> DEFINE c == [Top EXCEPT !.todo = Tail(@)]
  <1>1. CASE UNCHANGED vars \/ Quiet \/ \E len \in Lens : Arrive(len)
    BY <1>1, TxStack DEF vars, Quiet, Arrive
  <1>2. ASSUME Look
        PROVE  TxInv'
    <2>1. stack # <<>> /\ IsDrain(Top) /\ UNCHANGED tx
      BY <1>2 DEF Look
    <2>2. ~IsSend(Top)
      BY <2>1, TopIsCall, CallKinds DEF TypeInv
    <2>3. ASSUME NEW work \in Work, Take(work)
          PROVE  TxInv'
      <3>1. /\ IsHeader /\ odd' = odd
            /\ stack' = <<[Top EXCEPT !.at = "frame", !.id = Cell.id, !.todo = work]>>
                          \o Tail(stack)
        BY <2>3 DEF Take, Replace
      <3> QED BY <2>1, <2>2, <3>1, TakenTop, TxReplaced, Zenon
    <2>4. CASE Misread
      BY <2>1, <2>4, TxStack DEF Misread
    <2>5. CASE Finish
      BY <2>1, <2>2, <2>5, TxReturned DEF Finish, Return
    <2> QED BY <1>2, <2>3, <2>4, <2>5 DEF Look
  <1>3. CASE Step
    <2>1. /\ UNCHANGED tx /\ odd' = odd
          /\ stack' = <<[Top EXCEPT !.at = "look", !.off = Advance(@, stored[Top.id].len)]>>
                        \o Tail(stack)
      BY <1>3 DEF Step, Replace
    <2>2. stack # <<>> /\ ~IsSend(Top)
      BY <1>3, SteppedTop, CallKinds, TopIsCall DEF TypeInv
    <2> QED BY <1>3, <2>1, <2>2, SteppedTop, TxReplaced
  <1>4. CASE Interrupt /\ "ROK" \notin pending
    BY <1>4, TxStack, Zenon DEF Interrupt
  <1>5. CASE Hlt
    <2>1. /\ UNCHANGED tx /\ odd \subseteq odd'
          /\ stack' = stack \/ stack' = <<c>> \o Tail(stack)
      BY <1>5, Zenon DEF Hlt, Replace
    <2>2. stack # <<>> /\ c \in CallsNow /\ ~IsSend(c) /\ ~IsSend(Top)
      BY <1>5, TopDoesOne, Zenon DEF Hlt, TypeInv
    <2> HIDE DEF c
    <2> QED BY <2>1, <2>2, TxStack, TxReplaced
  <1>6. CASE CommandEnd
    <2>1. stack # <<>> /\ stack' = Tail(stack) /\ UNCHANGED tx /\ odd' = odd /\ ~IsSend(Top)
      BY <1>6 DEF CommandEnd, Return, IsSend
    <2> QED BY <2>1, TxReturned
  <1>7. ASSUME NEW todo \in ShellWork, Command(todo)
        PROVE  TxInv'
    <2>1. /\ stack = <<>> /\ stack' = <<Shell(todo)>> /\ UNCHANGED tx /\ odd' = odd
          /\ ~IsSend(Shell(todo))
      BY <1>7, ShellIsCall DEF Command
    <2> DEFINE f == [i \in 1..Len(stack') |-> i]
    <2>2. f \in [1..Len(stack') -> Int] /\ \A i, j \in 1..Len(stack') : f[i] = f[j] => i = j
      OBVIOUS
    <2>3. /\ \A i \in 1..Len(stack') : ~IsSend(stack'[i])
          /\ \A i \in 1..Len(stack) : ~IsSend(stack[i])
      BY <2>1
    <2> HIDE DEF f
    <2> QED BY <2>1, <2>2, <2>3, TxKept
  <1> HIDE DEF c
  <1> QED BY <1>1, <1>2, <1>3, <1>4, <1>5, <1>6, <1>7, TxStarted, TxSti, TxTransmit,
             TxStartSend, TxSend DEF Next, Run

(* What the card transmits is what was passed to rtl8139_send_packet, once  *)
(* each and in that order, for any number of descriptors, although the      *)
(* function returns before the card has read the buffer.                    *)
THEOREM SendsInOrder == Spec => []SentInOrder
  <1>1. Init => TypeInv /\ TxInv
    BY TypeInit, TxInit
  <1>2. TypeInv /\ TxInv /\ [Next]_vars => (TypeInv /\ TxInv)'
    BY TypeNext, TxNext
  <1>3. TypeInv /\ TxInv => SentInOrder
    <2> SUFFICES ASSUME TypeInv, TxInv PROVE SentInOrder
      OBVIOUS
    <2>1. Len(wire) \in Nat /\ Len(handed) \in Nat /\ TxNumbers
      BY DEF TypeInv, TxTypes, TxInv
    <2> QED BY <2>1 DEF TxNumbers, Numbered, SentInOrder
  <1> QED BY <1>1, <1>2, <1>3, PTL DEF Spec

(***************************************************************************)
(* Reception.  Distances in the ring, from CAPR on.                         *)
(***************************************************************************)
LEMMA ExtentIs ==
    ASSUME NEW a \in Offsets, NEW b \in Offsets
    PROVE  /\ Extent(a, b) = IF b >= a THEN b - a ELSE b - a + RX_BUF_SIZE
           /\ Extent(a, b) \in 0..(RX_BUF_SIZE - 1) /\ Extent(a, b) \in Nat
           /\ Extent(a, b) % 4 = 0
  <1>1. /\ a \in 0..(RX_BUF_SIZE - 1) /\ a % 4 = 0 /\ b \in 0..(RX_BUF_SIZE - 1) /\ b % 4 = 0
        /\ RX_BUF_SIZE \in Nat \ {0} /\ RX_BUF_SIZE % 4 = 0
    BY SizesAssumption DEF Offsets
  <1>2. CASE b >= a
    <2>1. b - a \in 0..(RX_BUF_SIZE - 1)
      BY <1>1, <1>2
    <2>2. (b - a) % RX_BUF_SIZE = b - a
      BY <1>1, <2>1, ModInside
    <2> QED BY <1>1, <1>2, <2>1, <2>2 DEF Extent
  <1>3. CASE ~(b >= a)
    <2>1. b - a \in (-RX_BUF_SIZE)..(-1)
      BY <1>1, <1>3
    <2>2. (b - a) % RX_BUF_SIZE = b - a + RX_BUF_SIZE
      BY <1>1, <2>1, ModBelow
    <2> QED BY <1>1, <1>3, <2>1, <2>2 DEF Extent
  <1> QED BY <1>2, <1>3

(* A point s further on, with no lap in between.                            *)
LEMMA ExtentOn ==
    ASSUME NEW c \in Offsets, NEW a \in Offsets, NEW s \in Nat, s % 4 = 0,
           Extent(c, a) + s < RX_BUF_SIZE
    PROVE  /\ (a + s) % RX_BUF_SIZE \in Offsets
           /\ (a + s) % RX_BUF_SIZE = IF a + s >= RX_BUF_SIZE THEN a + s - RX_BUF_SIZE ELSE a + s
           /\ Extent(c, (a + s) % RX_BUF_SIZE) = Extent(c, a) + s
  <1>1. /\ a \in 0..(RX_BUF_SIZE - 1) /\ a % 4 = 0 /\ c \in 0..(RX_BUF_SIZE - 1)
        /\ RX_BUF_SIZE \in Nat \ {0} /\ RX_BUF_SIZE % 4 = 0
    BY SizesAssumption DEF Offsets
  <1>2. /\ Extent(c, a) = IF a >= c THEN a - c ELSE a - c + RX_BUF_SIZE
        /\ Extent(c, a) \in 0..(RX_BUF_SIZE - 1)
    BY ExtentIs
  <1>3. a + s \in 0..(2 * RX_BUF_SIZE - 1) /\ (a + s) % 4 = 0
    BY <1>1, <1>2
  <1> DEFINE b == IF a + s >= RX_BUF_SIZE THEN a + s - RX_BUF_SIZE ELSE a + s
  <1>4. (a + s) % RX_BUF_SIZE = b
    <2>1. a \in Nat /\ a + s < 2 * RX_BUF_SIZE
      BY <1>1, <1>3
    <2> QED BY <1>1, <2>1, ModSum, Zenon
  <1>5. b \in Offsets
    BY <1>1, <1>3 DEF Offsets
  <1>6. Extent(c, b) = IF b >= c THEN b - c ELSE b - c + RX_BUF_SIZE
    BY <1>5, ExtentIs
  <1>7. Extent(c, b) = Extent(c, a) + s
    BY <1>1, <1>2, <1>3, <1>6
  <1> QED BY <1>4, <1>5, <1>7

(* Points at the same distance are the same.                                *)
LEMMA ExtentSame ==
    ASSUME NEW c \in Offsets, NEW a \in Offsets, NEW b \in Offsets, Extent(c, a) = Extent(c, b)
    PROVE  a = b
  <1>1. /\ Extent(c, a) = IF a >= c THEN a - c ELSE a - c + RX_BUF_SIZE
        /\ Extent(c, b) = IF b >= c THEN b - c ELSE b - c + RX_BUF_SIZE
        /\ Extent(c, a) \in Int /\ Extent(c, b) \in Int
    BY ExtentIs
  <1>2. /\ a \in 0..(RX_BUF_SIZE - 1) /\ b \in 0..(RX_BUF_SIZE - 1)
        /\ c \in 0..(RX_BUF_SIZE - 1) /\ RX_BUF_SIZE \in Nat
    BY SizesAssumption DEF Offsets
  <1>3. ASSUME NEW e \in Int,
               e = IF a >= c THEN a - c ELSE a - c + RX_BUF_SIZE,
               e = IF b >= c THEN b - c ELSE b - c + RX_BUF_SIZE
        PROVE  a = b
    BY <1>2, <1>3
  <1> QED BY <1>1, <1>3, Zenon

(* The k-th cell of a frame that does not reach CAPR.                       *)
LEMMA CellOn ==
    ASSUME NEW c \in Offsets, NEW a \in Offsets, NEW k \in Nat,
           Extent(c, a) + 4 * k < RX_BUF_SIZE
    PROVE  /\ CellAt(a, k) \in Cells
           /\ 4 * CellAt(a, k) \in Offsets
           /\ Extent(c, 4 * CellAt(a, k)) = Extent(c, a) + 4 * k
  <1>1. /\ a \in 0..(RX_BUF_SIZE - 1) /\ a % 4 = 0
        /\ RX_BUF_SIZE \in Nat \ {0} /\ RX_BUF_SIZE % 4 = 0
    BY SizesAssumption DEF Offsets
  <1> DEFINE m == RX_BUF_SIZE \div 4
             q == a \div 4
             b == (a + 4 * k) % RX_BUF_SIZE
  <1>2. m \in Nat \ {0} /\ RX_BUF_SIZE = 4 * m /\ q \in 0..(m - 1) /\ a = 4 * q
    BY <1>1
  <1>3. 4 * k \in Nat /\ (4 * k) % 4 = 0
    OBVIOUS
  <1>4. /\ b \in Offsets /\ Extent(c, b) = Extent(c, a) + 4 * k
        /\ b = IF a + 4 * k >= RX_BUF_SIZE THEN a + 4 * k - RX_BUF_SIZE ELSE a + 4 * k
    BY <1>3, ExtentOn
  <1>5. b \in 0..(RX_BUF_SIZE - 1)
    BY <1>4 DEF Offsets
  <1> HIDE DEF m, q, b
  <1>6. CellAt(a, k) = (q + k) % m
    BY DEF CellAt, m, q
  <1>7. (q + k) % m = IF q + k >= m THEN q + k - m ELSE q + k
    <2>1. q \in Nat /\ q + k < 2 * m
      BY <1>2, <1>4, <1>5
    <2> QED BY <1>2, <2>1, ModSum, Zenon
  <1>8. CellAt(a, k) \in 0..(m - 1) /\ 4 * CellAt(a, k) = b
    BY <1>2, <1>4, <1>5, <1>6, <1>7
  <1> QED BY <1>4, <1>8 DEF Cells, m

(***************************************************************************)
(* The frames not yet handled lie one behind the other, from where a drain  *)
(* looks next up to where the card writes, and all of them this side of     *)
(* CAPR; the frame being handled is still one of them.                      *)
(***************************************************************************)
Size(frame) == Aligned(frame.len + 4)

(* Where the frame after the id-th is, or will be written.                  *)
Following == [id \in 0..Len(stored) |-> IF id < Len(stored) THEN stored[id + 1].at ELSE wptr]

BeingHandled == \E i \in 1..Len(stack) : FrameAtHand(stack[i])
First == IF BeingHandled THEN Len(handled) ELSE Len(handled) + 1

Intact ==
    \A id \in First..Len(stored) : \A k \in 0..(CellsOf(stored[id].len) - 1) :
        ring[CellAt(stored[id].at, k)] = [id |-> id, part |-> k]

Layout ==
    \A id \in First..Len(stored) :
        /\ Extent(capr, stored[id].at) + Size(stored[id]) = Extent(capr, Following[id])
        /\ Extent(capr, stored[id].at) + Size(stored[id]) <= Extent(capr, wptr)

OneDrain == \A i, j \in 1..Len(stack) : IsDrain(stack[i]) /\ IsDrain(stack[j]) => i = j

Placed ==
    /\ (\A i \in 1..Len(stack) : ~IsDrain(stack[i])) => rx_offset = Following[Len(handled)]
    /\ \A i \in 1..Len(stack) : IsDrain(stack[i]) =>
          /\ stack[i].at = "look" => stack[i].off = Following[Len(handled)]
          /\ stack[i].at = "frame" => /\ stack[i].id = Len(handled)
                                      /\ stack[i].off = stored[Len(handled)].at

RxNumbers == Numbered(handled) /\ Len(handled) <= Len(stored)

RxInv ==
    "again" \notin odd => /\ RxNumbers /\ Intact
                          /\ odd = {} => OneDrain /\ Placed /\ Layout

(* While nothing has gone wrong all of it holds.                            *)
LEMMA RxNow ==
    ASSUME RxInv, ~Halted, "again" \notin odd
    PROVE  odd = {} /\ RxNumbers /\ Intact /\ OneDrain /\ Placed /\ Layout
  BY DEF RxInv, Halted

(* A step that changes nothing of the receiver and leaves the drains on the *)
(* stack: i was f[i], and each is still there.                              *)
LEMMA RxKept ==
    ASSUME TypeInv, RxInv, odd \subseteq odd',
           UNCHANGED <<ring, wptr, capr, stored, rx_offset, handled>>,
           NEW f \in [1..Len(stack') -> Int],
           \A i \in 1..Len(stack') : IsDrain(stack'[i]) =>
              /\ f[i] \in 1..Len(stack) /\ IsDrain(stack[f[i]])
              /\ stack'[i].at = stack[f[i]].at /\ stack'[i].off = stack[f[i]].off
              /\ stack'[i].id = stack[f[i]].id,
           \A i, j \in 1..Len(stack') : f[i] = f[j] => i = j,
           \A i \in 1..Len(stack) : IsDrain(stack[i]) =>
              \E k \in 1..Len(stack') : IsDrain(stack'[k]) /\ stack'[k].at = stack[i].at
    PROVE  RxInv'
  <1> SUFFICES ASSUME "again" \notin odd'
               PROVE  /\ RxNumbers' /\ Intact'
                      /\ odd' = {} => OneDrain' /\ Placed' /\ Layout'
    BY DEF RxInv
  <1>1. "again" \notin odd /\ RxNumbers /\ Intact
    BY DEF RxInv
  <1>2. BeingHandled' <=> BeingHandled
    <2>1. ASSUME BeingHandled'
          PROVE  BeingHandled
      <3>1. PICK i \in 1..Len(stack') : FrameAtHand(stack'[i])
        BY <2>1, Zenon DEF BeingHandled
      <3>2. f[i] \in 1..Len(stack) /\ FrameAtHand(stack[f[i]])
        BY <3>1, Zenon DEF FrameAtHand
      <3> QED BY <3>2, Zenon DEF BeingHandled
    <2>2. ASSUME BeingHandled
          PROVE  BeingHandled'
      <3>1. PICK i \in 1..Len(stack) : FrameAtHand(stack[i])
        BY <2>2, Zenon DEF BeingHandled
      <3>2. IsDrain(stack[i])
        BY <3>1, Zenon DEF FrameAtHand
      <3>3. PICK k \in 1..Len(stack') : IsDrain(stack'[k]) /\ stack'[k].at = stack[i].at
        BY <3>2, Zenon
      <3>4. FrameAtHand(stack'[k])
        BY <3>1, <3>3, Zenon DEF FrameAtHand
      <3> QED BY <3>4, Zenon DEF BeingHandled
    <2> QED BY <2>1, <2>2
  <1>3. First' = First /\ Following' = Following
    BY <1>2 DEF First, Following
  <1>4. RxNumbers' /\ Intact'
    <2>1. RxNumbers'
      BY <1>1, Zenon DEF RxNumbers, Numbered
    <2>2. Intact'
      BY <1>1, <1>3, Zenon DEF Intact
    <2> QED BY <2>1, <2>2
  <1>5. ASSUME odd' = {}
        PROVE  OneDrain' /\ Placed' /\ Layout'
    <2>1. OneDrain /\ Placed /\ Layout
      BY <1>1, <1>5, Zenon DEF RxInv
    <2>2. Layout'
      BY <1>3, <2>1, Zenon DEF Layout
    <2>3. ASSUME NEW i \in 1..Len(stack'), NEW j \in 1..Len(stack'),
                 IsDrain(stack'[i]), IsDrain(stack'[j])
          PROVE  i = j
      <3>1. /\ f[i] \in 1..Len(stack) /\ f[j] \in 1..Len(stack)
            /\ IsDrain(stack[f[i]]) /\ IsDrain(stack[f[j]])
        BY <2>3, Zenon
      <3>2. f[i] = f[j]
        BY <2>1, <3>1 DEF OneDrain
      <3> QED BY <3>2
    <2>4. OneDrain'
      BY <2>3, Zenon DEF OneDrain
    <2>5. Placed'
      <3>1. ASSUME \A i \in 1..Len(stack') : ~IsDrain(stack'[i])
            PROVE  rx_offset' = Following'[Len(handled')]
        <4>1. \A i \in 1..Len(stack) : ~IsDrain(stack[i])
          BY <3>1, Zenon
        <4> QED BY <1>3, <2>1, <4>1, Zenon DEF Placed
      <3>2. ASSUME NEW i \in 1..Len(stack'), IsDrain(stack'[i])
            PROVE  /\ stack'[i].at = "look" => stack'[i].off = Following'[Len(handled')]
                   /\ stack'[i].at = "frame" => /\ stack'[i].id = Len(handled')
                                                /\ stack'[i].off = stored'[Len(handled')].at
        <4>1. /\ f[i] \in 1..Len(stack) /\ IsDrain(stack[f[i]])
              /\ stack'[i].at = stack[f[i]].at /\ stack'[i].off = stack[f[i]].off
              /\ stack'[i].id = stack[f[i]].id
          BY <3>2, Zenon
        <4>2. /\ stack[f[i]].at = "look" => stack[f[i]].off = Following[Len(handled)]
              /\ stack[f[i]].at = "frame" => /\ stack[f[i]].id = Len(handled)
                                            /\ stack[f[i]].off = stored[Len(handled)].at
          BY <2>1, <4>1, Zenon DEF Placed
        <4>3. Following' = Following /\ handled' = handled /\ stored' = stored
          BY <1>3, Zenon
        <4> QED BY <4>1, <4>2, <4>3, Zenon
      <3> QED BY <3>1, <3>2, Zenon DEF Placed
    <2> QED BY <2>2, <2>4, <2>5
  <1> QED BY <1>4, <1>5

(* The steps of calls that are not drains, or of a drain at its work.       *)
LEMMA RxReplaced ==
    ASSUME TypeInv, RxInv, odd \subseteq odd', stack # <<>>,
           UNCHANGED <<ring, wptr, capr, stored, rx_offset, handled>>,
           NEW c \in CallsNow, stack' = <<c>> \o Tail(stack),
           IsDrain(c) <=> IsDrain(Top),
           IsDrain(c) => c.at = Top.at /\ c.off = Top.off /\ c.id = Top.id
    PROVE  RxInv'
  <1>1. IsReplace(stack, stack', c) /\ Len(stack) \in Nat /\ 1 \in 1..Len(stack)
    BY Replaced, TopIsCall DEF TypeInv, StackTypes
  <1> DEFINE f == [i \in 1..Len(stack') |-> i]
  <1>2. f \in [1..Len(stack') -> Int] /\ \A i, j \in 1..Len(stack') : f[i] = f[j] => i = j
    OBVIOUS
  <1>3. ASSUME NEW i \in 1..Len(stack'), IsDrain(stack'[i])
        PROVE  /\ f[i] \in 1..Len(stack) /\ IsDrain(stack[f[i]])
               /\ stack'[i].at = stack[f[i]].at /\ stack'[i].off = stack[f[i]].off
               /\ stack'[i].id = stack[f[i]].id
    BY <1>1, <1>3 DEF IsReplace, Top
  <1>4. ASSUME NEW i \in 1..Len(stack), IsDrain(stack[i])
        PROVE  \E k \in 1..Len(stack') : IsDrain(stack'[k]) /\ stack'[k].at = stack[i].at
    <2>1. CASE i = 1
      <3>1. 1 \in 1..Len(stack') /\ IsDrain(stack'[1]) /\ stack'[1].at = stack[i].at
        BY <1>1, <1>4, <2>1 DEF IsReplace, Top
      <3> QED BY <3>1
    <2>2. CASE i # 1
      <3>1. i \in 2..Len(stack)
        BY <1>1, <2>2
      <3>2. i \in 1..Len(stack') /\ IsDrain(stack'[i]) /\ stack'[i].at = stack[i].at
        BY <1>1, <1>4, <3>1 DEF IsReplace
      <3> QED BY <3>2
    <2> QED BY <2>1, <2>2
  <1> HIDE DEF f
  <1> QED BY <1>2, <1>3, <1>4, RxKept, Zenon

LEMMA RxReturned ==
    ASSUME TypeInv, RxInv, odd \subseteq odd', stack # <<>>,
           UNCHANGED <<ring, wptr, capr, stored, rx_offset, handled>>,
           stack' = Tail(stack), ~IsDrain(Top)
    PROVE  RxInv'
  <1>1. IsReturn(stack, stack') /\ Len(stack) \in Nat /\ 1 \in 1..Len(stack)
    BY Returned, TopIsCall DEF TypeInv, StackTypes
  <1> DEFINE f == [i \in 1..Len(stack') |-> i + 1]
  <1>2. f \in [1..Len(stack') -> Int] /\ \A i, j \in 1..Len(stack') : f[i] = f[j] => i = j
    OBVIOUS
  <1>3. ASSUME NEW i \in 1..Len(stack'), IsDrain(stack'[i])
        PROVE  /\ f[i] \in 1..Len(stack) /\ IsDrain(stack[f[i]])
               /\ stack'[i].at = stack[f[i]].at /\ stack'[i].off = stack[f[i]].off
               /\ stack'[i].id = stack[f[i]].id
    BY <1>1, <1>3 DEF IsReturn
  <1>4. ASSUME NEW i \in 1..Len(stack), IsDrain(stack[i])
        PROVE  \E k \in 1..Len(stack') : IsDrain(stack'[k]) /\ stack'[k].at = stack[i].at
    <2>1. i \in 2..Len(stack)
      BY <1>1, <1>4 DEF Top
    <2>2. i - 1 \in 1..Len(stack') /\ stack'[i - 1] = stack[i]
      BY <1>1, <2>1 DEF IsReturn
    <2> QED BY <1>4, <2>2
  <1> HIDE DEF f
  <1> QED BY <1>2, <1>3, <1>4, RxKept, Zenon

LEMMA RxStack ==
    ASSUME TypeInv, RxInv, odd \subseteq odd', stack' = stack,
           UNCHANGED <<ring, wptr, capr, stored, rx_offset, handled>>
    PROVE  RxInv'
  <1> DEFINE f == [i \in 1..Len(stack') |-> i]
  <1>1. f \in [1..Len(stack') -> Int] /\ \A i, j \in 1..Len(stack') : f[i] = f[j] => i = j
    OBVIOUS
  <1>2. \A i \in 1..Len(stack') : f[i] \in 1..Len(stack) /\ stack'[i] = stack[f[i]]
    OBVIOUS
  <1> HIDE DEF f
  <1> QED BY <1>1, <1>2, RxKept, Zenon

LEMMA RxStartSend ==
    ASSUME TypeInv, RxInv, NEW buf \in Buffers, StartSend(buf)
    PROVE  RxInv'
  <1> DEFINE c == [Top EXCEPT !.todo = Tail(@)]
  <1>1. /\ stack' = <<Send(buf), c>> \o Tail(stack) /\ odd \subseteq odd'
        /\ UNCHANGED <<ring, wptr, capr, stored, rx_offset, handled>>
    BY DEF StartSend, Call, rx
  <1>2. /\ stack # <<>> /\ c \in CallsNow
        /\ IsDrain(c) <=> IsDrain(Top)
        /\ IsDrain(c) => c.at = Top.at /\ c.off = Top.off /\ c.id = Top.id
    BY TopDoesOne, Zenon DEF StartSend, TypeInv
  <1> HIDE DEF c
  <1>3. IsCall(stack, stack', Send(buf), c) /\ ~IsDrain(Send(buf))
    BY <1>1, <1>2, SendIsCall, CalledTwo DEF TypeInv, StackTypes
  <1>4. 1 \in 1..Len(stack) /\ Len(stack) \in Nat
    BY <1>2, TopIsCall DEF TypeInv
  <1> DEFINE f == [i \in 1..Len(stack') |-> i - 1]
  <1>5. f \in [1..Len(stack') -> Int] /\ \A i, j \in 1..Len(stack') : f[i] = f[j] => i = j
    OBVIOUS
  <1>6. ASSUME NEW i \in 1..Len(stack'), IsDrain(stack'[i])
        PROVE  /\ f[i] \in 1..Len(stack) /\ IsDrain(stack[f[i]])
               /\ stack'[i].at = stack[f[i]].at /\ stack'[i].off = stack[f[i]].off
               /\ stack'[i].id = stack[f[i]].id
    <2>1. CASE i = 2 /\ stack'[i] = c
      BY <1>2, <1>4, <1>6, <2>1 DEF Top
    <2>2. CASE i - 1 \in 1..Len(stack) /\ stack'[i] = stack[i - 1]
      BY <1>6, <2>2
    <2> QED BY <1>3, <1>6, <2>1, <2>2, Zenon DEF IsCall
  <1>7. ASSUME NEW i \in 1..Len(stack), IsDrain(stack[i])
        PROVE  \E k \in 1..Len(stack') : IsDrain(stack'[k]) /\ stack'[k].at = stack[i].at
    <2>1. CASE i = 1
      <3>1. 2 \in 1..Len(stack') /\ IsDrain(stack'[2]) /\ stack'[2].at = stack[i].at
        BY <1>2, <1>3, <1>7, <2>1 DEF IsCall, Top
      <3> QED BY <3>1
    <2>2. CASE i # 1
      <3>1. i \in 2..Len(stack)
        BY <1>4, <2>2
      <3>2. i + 1 \in 1..Len(stack') /\ stack'[i + 1] = stack[i]
        BY <1>3, <3>1, Zenon DEF IsCall
      <3> QED BY <1>7, <3>2
    <2> QED BY <2>1, <2>2
  <1> HIDE DEF f
  <1> QED BY <1>1, <1>5, <1>6, <1>7, RxKept, Zenon

LEMMA RxSti ==
    ASSUME TypeInv, RxInv, Sti
    PROVE  RxInv'
  <1> DEFINE c == [Top EXCEPT !.todo = Tail(@)]
             d(i) == IF i = 1 THEN c ELSE stack[i]
             e(i) == IF IsDrain(d(i)) THEN [d(i) EXCEPT !.open = TRUE] ELSE d(i)
  <1>1. /\ stack' = [i \in DOMAIN stack |-> e(i)] /\ odd' = odd
        /\ UNCHANGED <<ring, wptr, capr, stored, rx_offset, handled>>
    BY DEF Sti, rx
  <1>2. /\ stack # <<>> /\ c \in CallsNow
        /\ IsDrain(c) <=> IsDrain(Top)
        /\ IsDrain(c) => c.at = Top.at /\ c.off = Top.off /\ c.id = Top.id
    BY TopDoesOne, Zenon DEF Sti, TypeInv
  <1>3. ASSUME NEW i \in 1..Len(stack)
        PROVE  /\ d(i) \in Calls
               /\ IsDrain(d(i)) <=> IsDrain(stack[i])
               /\ IsDrain(d(i)) => /\ d(i).at = stack[i].at /\ d(i).off = stack[i].off
                                   /\ d(i).id = stack[i].id
    <2> HIDE DEF c
    <2>1. stack[i] \in Calls /\ c \in Calls
      BY <1>2, StackCalls DEF TypeInv, CallsNow
    <2>2. CASE i = 1
      BY <1>2, <2>1, <2>2 DEF Top
    <2>3. CASE i # 1
      BY <2>1, <2>3
    <2> QED BY <2>2, <2>3, Zenon
  <1> HIDE DEF c, d
  <1>4. ASSUME NEW i \in 1..Len(stack)
        PROVE  /\ IsDrain(e(i)) <=> IsDrain(stack[i])
               /\ IsDrain(e(i)) => /\ e(i).at = stack[i].at /\ e(i).off = stack[i].off
                                   /\ e(i).id = stack[i].id
    <2>1. CASE IsDrain(d(i))
      <3>1. d(i) \in Drains
        BY <1>3, <2>1, CallKinds
      <3>2. /\ [d(i) EXCEPT !.open = TRUE].op = d(i).op
            /\ [d(i) EXCEPT !.open = TRUE].at = d(i).at
            /\ [d(i) EXCEPT !.open = TRUE].off = d(i).off
            /\ [d(i) EXCEPT !.open = TRUE].id = d(i).id
        BY <3>1 DEF Drains
      <3> QED BY <1>3, <2>1, <3>2 DEF IsDrain
    <2>2. CASE ~IsDrain(d(i))
      BY <1>3, <2>2
    <2> QED BY <2>1, <2>2
  <1> HIDE DEF e
  <1>5. Len(stack') = Len(stack) /\ \A i \in 1..Len(stack) : stack'[i] = e(i)
    BY <1>1, StackCalls DEF TypeInv
  <1> DEFINE f == [i \in 1..Len(stack') |-> i]
  <1>6. f \in [1..Len(stack') -> Int] /\ \A i, j \in 1..Len(stack') : f[i] = f[j] => i = j
    OBVIOUS
  <1>7. ASSUME NEW i \in 1..Len(stack'), IsDrain(stack'[i])
        PROVE  /\ f[i] \in 1..Len(stack) /\ IsDrain(stack[f[i]])
               /\ stack'[i].at = stack[f[i]].at /\ stack'[i].off = stack[f[i]].off
               /\ stack'[i].id = stack[f[i]].id
    BY <1>4, <1>5, <1>7, Zenon
  <1>8. ASSUME NEW i \in 1..Len(stack), IsDrain(stack[i])
        PROVE  \E k \in 1..Len(stack') : IsDrain(stack'[k]) /\ stack'[k].at = stack[i].at
    BY <1>4, <1>5, <1>8, Zenon
  <1> HIDE DEF f
  <1> QED BY <1>1, <1>6, <1>7, <1>8, RxKept, Zenon

(* A drain starts, where the last one ended.                                *)
LEMMA RxStarted ==
    ASSUME TypeInv, RxInv, StartPoll \/ (Interrupt /\ "ROK" \in pending)
    PROVE  RxInv'
  <1> SUFFICES ASSUME "again" \notin odd'
               PROVE  /\ RxNumbers' /\ Intact'
                      /\ odd' = {} => OneDrain' /\ Placed' /\ Layout'
    BY DEF RxInv
  <1>1. UNCHANGED <<ring, wptr, capr, stored, rx_offset, handled>> /\ odd \subseteq odd' /\ ~Halted
    BY DEF StartPoll, Interrupt, rx, Doing
  <1>2. RxNumbers /\ Intact /\ OneDrain /\ Placed /\ Layout
    BY <1>1, RxNow
  <1>3. \E op \in {"isr", "poll"} :
           /\ \A i \in 1..Len(stack') : IsDrain(stack'[i]) =>
                 \/ i = 1 /\ stack'[i] = Drain(op)
                 \/ \E j \in 1..Len(stack) : IsDrain(stack[j]) /\ stack'[i].at = stack[j].at
           /\ \A i \in 1..Len(stack) : IsDrain(stack[i]) =>
                 \E k \in 1..Len(stack') : IsDrain(stack'[k]) /\ stack'[k].at = stack[i].at
           /\ 1 \in 1..Len(stack') /\ stack'[1] = Drain(op)
    <2>1. CASE Interrupt /\ "ROK" \in pending
      <3>1. stack' = <<Drain("isr")>> \o stack
        BY <2>1, Zenon DEF Interrupt
      <3>2. IsPush(stack, stack', Drain("isr")) /\ Len(stack) \in Nat
        <4>1. Drain("isr") \in CallsNow
          BY DrainIsCall
        <4>2. stack \in Seq(CallsNow) /\ Len(stack) \in Nat
          BY StackCalls DEF TypeInv, StackTypes
        <4> QED BY <3>1, <4>1, <4>2, Pushed
      <3>3. 1 \in 1..Len(stack') /\ stack'[1] = Drain("isr")
        BY <3>2 DEF IsPush
      <3>4. ASSUME NEW i \in 1..Len(stack'), IsDrain(stack'[i])
            PROVE  \/ i = 1 /\ stack'[i] = Drain("isr")
                   \/ \E j \in 1..Len(stack) : IsDrain(stack[j]) /\ stack'[i].at = stack[j].at
        BY <3>2, <3>4, Zenon DEF IsPush
      <3>5. ASSUME NEW i \in 1..Len(stack), IsDrain(stack[i])
            PROVE  \E k \in 1..Len(stack') : IsDrain(stack'[k]) /\ stack'[k].at = stack[i].at
        <4>1. i + 1 \in 1..Len(stack') /\ stack'[i + 1] = stack[i]
          BY <3>2 DEF IsPush
        <4> QED BY <3>5, <4>1, Zenon
      <3> QED BY <3>3, <3>4, <3>5, Zenon
    <2>2. CASE StartPoll
      <3> DEFINE c == [Top EXCEPT !.todo = Tail(@)]
      <3>1. stack' = <<Drain("poll"), c>> \o Tail(stack)
        BY <2>2 DEF StartPoll, Call
      <3>2. /\ stack # <<>> /\ c \in CallsNow
            /\ IsDrain(c) <=> IsDrain(Top)
            /\ IsDrain(c) => c.at = Top.at
        BY <2>2, TopDoesOne, Zenon DEF StartPoll, TypeInv
      <3> HIDE DEF c
      <3>3. IsCall(stack, stack', Drain("poll"), c)
        BY <3>1, <3>2, DrainIsCall, CalledTwo, Zenon DEF TypeInv, StackTypes
      <3>4. 1 \in 1..Len(stack) /\ Len(stack) \in Nat
        BY <3>2, TopIsCall DEF TypeInv
      <3>5. ASSUME NEW i \in 1..Len(stack'), IsDrain(stack'[i])
            PROVE  \/ i = 1 /\ stack'[i] = Drain("poll")
                   \/ \E j \in 1..Len(stack) : IsDrain(stack[j]) /\ stack'[i].at = stack[j].at
        <4>1. CASE i = 2 /\ stack'[i] = c
          BY <3>2, <3>4, <3>5, <4>1 DEF Top
        <4>2. CASE i - 1 \in 1..Len(stack) /\ stack'[i] = stack[i - 1]
          BY <3>5, <4>2
        <4> QED BY <3>3, <3>5, <4>1, <4>2, Zenon DEF IsCall
      <3>6. ASSUME NEW i \in 1..Len(stack), IsDrain(stack[i])
            PROVE  \E k \in 1..Len(stack') : IsDrain(stack'[k]) /\ stack'[k].at = stack[i].at
        <4>1. CASE i = 1
          <5>1. 2 \in 1..Len(stack') /\ IsDrain(stack'[2]) /\ stack'[2].at = stack[i].at
            BY <3>2, <3>3, <3>6, <4>1 DEF IsCall, Top
          <5> QED BY <5>1
        <4>2. CASE i # 1
          <5>1. i \in 2..Len(stack)
            BY <3>4, <4>2
          <5>2. i + 1 \in 1..Len(stack') /\ stack'[i + 1] = stack[i]
            BY <3>3, <5>1 DEF IsCall
          <5> QED BY <3>6, <5>2
        <4> QED BY <4>1, <4>2
      <3>7. 1 \in 1..Len(stack') /\ stack'[1] = Drain("poll")
        BY <3>3, <3>4 DEF IsCall
      <3> QED BY <3>5, <3>6, <3>7
    <2> QED BY <2>1, <2>2, Zenon
  <1>4. PICK op \in {"isr", "poll"} :
           /\ \A i \in 1..Len(stack') : IsDrain(stack'[i]) =>
                 \/ i = 1 /\ stack'[i] = Drain(op)
                 \/ \E j \in 1..Len(stack) : IsDrain(stack[j]) /\ stack'[i].at = stack[j].at
           /\ \A i \in 1..Len(stack) : IsDrain(stack[i]) =>
                 \E k \in 1..Len(stack') : IsDrain(stack'[k]) /\ stack'[k].at = stack[i].at
           /\ 1 \in 1..Len(stack') /\ stack'[1] = Drain(op)
    BY <1>3
  <1>5. Drain(op).at = "look" /\ Drain(op).off = rx_offset /\ IsDrain(Drain(op))
    BY DrainIsCall
  <1>6. BeingHandled' <=> BeingHandled
    <2>1. ASSUME BeingHandled PROVE BeingHandled'
      BY <1>4, <2>1 DEF BeingHandled, FrameAtHand
    <2>2. ASSUME NEW i \in 1..Len(stack'), FrameAtHand(stack'[i])
          PROVE  BeingHandled
      BY <1>4, <1>5, <2>2 DEF BeingHandled, FrameAtHand
    <2> QED BY <2>1, <2>2 DEF BeingHandled
  <1>7. First' = First /\ Following' = Following
    BY <1>1, <1>6 DEF First, Following
  <1>8. RxNumbers' /\ Intact'
    BY <1>1, <1>2, <1>7, Zenon DEF RxNumbers, Numbered, Intact
  <1>9. ASSUME odd' = {}
        PROVE  OneDrain' /\ Placed' /\ Layout'
    <2>1. \A i \in 1..Len(stack) : ~IsDrain(stack[i])
      <3>1. ~Draining
        BY <1>9 DEF StartPoll, Interrupt
      <3> QED BY <3>1, StackCalls DEF Draining, TypeInv
    <2>2. \A i \in 1..Len(stack') : IsDrain(stack'[i]) => i = 1 /\ stack'[i] = Drain(op)
      BY <1>4, <2>1
    <2>3. OneDrain'
      BY <2>2 DEF OneDrain
    <2>4. rx_offset = Following[Len(handled)]
      BY <1>2, <2>1 DEF Placed
    <2>5. Placed'
      BY <1>1, <1>4, <1>5, <1>7, <2>2, <2>4, Zenon DEF Placed
    <2>6. Layout'
      BY <1>1, <1>2, <1>7, Zenon DEF Layout
    <2> QED BY <2>3, <2>5, <2>6
  <1> QED BY <1>8, <1>9

(* A drain finds a header: it is that of the first frame not yet handled.   *)
LEMMA RxTake ==
    ASSUME TypeInv, RxInv, Look, NEW work \in Work, Take(work)
    PROVE  RxInv'
  <1> DEFINE c == [Top EXCEPT !.at = "frame", !.id = Cell.id, !.todo = work]
             h == Len(handled)
  <1>1. /\ ~Halted /\ stack # <<>> /\ IsDrain(Top) /\ Top.at = "look" /\ IsHeader
        /\ UNCHANGED <<ring, wptr, capr, stored, rx_offset>> /\ odd' = odd
        /\ handled' = Append(handled, Cell.id)
        /\ stack' = <<c>> \o Tail(stack)
    BY Zenon DEF Look, Take, Replace
  <1> SUFFICES ASSUME "again" \notin odd
               PROVE  RxNumbers' /\ Intact' /\ OneDrain' /\ Placed' /\ Layout'
    BY <1>1 DEF RxInv
  <1>2. RxNumbers /\ Intact /\ OneDrain /\ Placed /\ Layout
    BY <1>1, RxNow
  <1>3. /\ Top.off \in Offsets /\ Cell.id \in 1..Len(stored) /\ c \in CallsNow
        /\ IsDrain(c) /\ FrameAtHand(c) /\ c.at = "frame" /\ c.off = Top.off /\ c.id = Cell.id
    BY <1>1, TakenTop, Zenon DEF FrameAtHand
  <1> HIDE DEF c
  <1>4. /\ 1 \in 1..Len(stack) /\ Len(stack) \in Nat
        /\ IsReplace(stack, stack', c)
    BY <1>1, <1>3, TopIsCall, Replaced DEF TypeInv, StackTypes
  <1>5. \A i \in 1..Len(stack) : IsDrain(stack[i]) => i = 1
    BY <1>1, <1>2, <1>4, Zenon DEF OneDrain, Top
  <1>6. ~BeingHandled
    BY <1>1, <1>5 DEF BeingHandled, FrameAtHand, Top
  <1>7. h \in Nat /\ Len(stored) \in Nat /\ h <= Len(stored) /\ handled \in Seq(Nat)
    BY <1>2 DEF TypeInv, RxTypes, RxNumbers
  <1>8. First = h + 1
    BY <1>6 DEF First
  <1>9. Top.off = Following[h]
    BY <1>1, <1>2, <1>4 DEF Placed, Top
  <1>10. h < Len(stored) /\ Top.off = stored[h + 1].at
    <2>1. Top.off # wptr
      BY <1>1 DEF IsHeader
    <2>2. h \in 0..Len(stored)
      BY <1>7
    <2> QED BY <1>7, <1>9, <2>1, <2>2 DEF Following
  <1>11. Cell.id = h + 1
    <2>1. h + 1 \in First..Len(stored) /\ h + 1 \in 1..Len(stored)
      BY <1>7, <1>8, <1>10
    <2>2. stored[h + 1].len \in Lens
      BY <2>1, StoredFrame DEF TypeInv
    <2>3. 0 \in 0..(CellsOf(stored[h + 1].len) - 1)
      BY <2>2, FrameSize
    <2>4. ring[CellAt(Top.off, 0)] = [id |-> h + 1, part |-> 0]
      BY <1>2, <1>10, <2>1, <2>3, Zenon DEF Intact
    <2>5. CellAt(Top.off, 0) = Top.off \div 4
      <3>1. Top.off \div 4 \in 0..((RX_BUF_SIZE \div 4) - 1) /\ RX_BUF_SIZE \div 4 \in Nat \ {0}
        BY <1>3, SizesAssumption DEF Offsets
      <3>2. (Top.off \div 4) % (RX_BUF_SIZE \div 4) = Top.off \div 4
        BY <3>1, ModInside
      <3>3. Top.off \div 4 + 0 = Top.off \div 4
        BY <3>1
      <3> QED BY <3>2, <3>3 DEF CellAt
    <2> QED BY <2>4, <2>5 DEF Cell
  <1>12. Len(handled') = h + 1 /\ Numbered(handled')
    BY <1>1, <1>2, <1>7, <1>11 DEF RxNumbers, Numbered
  <1>13. RxNumbers'
    BY <1>1, <1>7, <1>10, <1>12 DEF RxNumbers, Numbered
  <1>14. ASSUME NEW i \in 1..Len(stack'), IsDrain(stack'[i])
         PROVE  i = 1 /\ stack'[i] = c
    BY <1>4, <1>5, <1>14 DEF IsReplace
  <1>15. OneDrain'
    BY <1>14 DEF OneDrain
  <1>16. BeingHandled'
    BY <1>3, <1>4 DEF BeingHandled, IsReplace
  <1>17. First' = First /\ Following' = Following
    BY <1>1, <1>8, <1>12, <1>16 DEF First, Following
  <1>18. Intact' /\ Layout'
    BY <1>1, <1>2, <1>17, Zenon DEF Intact, Layout
  <1>19. Placed'
    <2>1. 1 \in 1..Len(stack') /\ stack'[1] = c
      BY <1>4, Zenon DEF IsReplace
    <2> QED BY <1>1, <1>3, <1>10, <1>11, <1>12, <1>14, <2>1, Zenon DEF Placed
  <1> QED BY <1>13, <1>15, <1>18, <1>19

(* A drain goes on behind the frame: the next one is there, or the card     *)
(* will put it there.                                                       *)
LEMMA RxStep ==
    ASSUME TypeInv, RxInv, Step
    PROVE  RxInv'
  <1> DEFINE c == [Top EXCEPT !.at = "look", !.off = Advance(@, stored[Top.id].len)]
             h == Len(handled)
  <1>1. /\ ~Halted /\ stack' = <<c>> \o Tail(stack) /\ odd' = odd
        /\ UNCHANGED <<ring, wptr, capr, stored, rx_offset, handled>>
    BY DEF Step, Replace, rx
  <1> SUFFICES ASSUME "again" \notin odd
               PROVE  RxNumbers' /\ Intact' /\ OneDrain' /\ Placed' /\ Layout'
    BY <1>1 DEF RxInv
  <1>2. RxNumbers /\ Intact /\ OneDrain /\ Placed /\ Layout
    BY <1>1, RxNow
  <1>3. /\ stack # <<>> /\ IsDrain(Top) /\ Top.at = "frame"
        /\ Top.id \in 1..Len(stored) /\ stored[Top.id].len \in Lens
        /\ c \in CallsNow /\ IsDrain(c) /\ ~FrameAtHand(c) /\ c.at = "look"
        /\ c.off = Advance(Top.off, stored[Top.id].len)
    BY SteppedTop
  <1> HIDE DEF c
  <1>4. 1 \in 1..Len(stack) /\ Len(stack) \in Nat /\ IsReplace(stack, stack', c)
    BY <1>1, <1>3, TopIsCall, Replaced DEF TypeInv, StackTypes
  <1>5. Top.id = h /\ Top.off = stored[h].at
    BY <1>2, <1>3, <1>4, Zenon DEF Placed, Top
  <1>6. BeingHandled /\ First = h
    BY <1>3, <1>4 DEF BeingHandled, FrameAtHand, First, Top
  <1>7. h \in 1..Len(stored) /\ Len(stored) \in Nat
    <2>1. Len(stored) \in Nat
      BY DEF TypeInv, RxTypes
    <2> QED BY <1>3, <1>5, <2>1, Zenon
  <1>8. \A i \in 1..Len(stack) : IsDrain(stack[i]) => i = 1
    BY <1>2, <1>3, <1>4, Zenon DEF OneDrain, Top
  <1>9. ASSUME NEW i \in 1..Len(stack'), IsDrain(stack'[i])
        PROVE  i = 1 /\ stack'[i] = c
    BY <1>4, <1>8, <1>9 DEF IsReplace
  <1>10. OneDrain' /\ ~BeingHandled'
    BY <1>3, <1>9 DEF OneDrain, BeingHandled, FrameAtHand
  <1>11. First' = h + 1 /\ Following' = Following
    BY <1>1, <1>10 DEF First, Following
  <1>12. RxNumbers' /\ Intact' /\ Layout'
    <2>1. First'..Len(stored') \subseteq First..Len(stored)
      BY <1>1, <1>6, <1>7, <1>11
    <2> QED BY <1>1, <1>2, <1>11, <2>1, Zenon DEF RxNumbers, Numbered, Intact, Layout
  <1>13. Advance(stored[h].at, stored[h].len) = Following[h]
    <2> DEFINE a == stored[h].at
               s == Aligned(stored[h].len + 4)
    <2>1. a \in Offsets /\ stored[h].len \in Lens
      BY <1>7, StoredFrame DEF TypeInv
    <2>2. s \in Nat /\ s % 4 = 0
      BY <2>1, FrameSize
    <2>3. Following[h] \in Offsets
      <3>1. h + 1 \in 1..Len(stored) => stored[h + 1].at \in Offsets
        BY StoredFrame DEF TypeInv
      <3>2. h \in 0..Len(stored) /\ (h < Len(stored) => h + 1 \in 1..Len(stored))
        BY <1>7
      <3>3. wptr \in Offsets
        BY DEF TypeInv, RxTypes
      <3> QED BY <3>1, <3>2, <3>3 DEF Following
    <2>4. Extent(capr, a) + s = Extent(capr, Following[h]) /\ capr \in Offsets
      <3>1. h \in First..Len(stored)
        BY <1>6, <1>7
      <3> QED BY <1>2, <3>1 DEF Layout, Size, TypeInv, RxTypes
    <2> HIDE DEF a, s
    <2>5. Extent(capr, Following[h]) \in 0..(RX_BUF_SIZE - 1)
      BY <2>3, <2>4, ExtentIs
    <2>6. Extent(capr, a) + s < RX_BUF_SIZE
      BY <2>4, <2>5, SizesAssumption
    <2>7. /\ (a + s) % RX_BUF_SIZE \in Offsets
          /\ Extent(capr, (a + s) % RX_BUF_SIZE) = Extent(capr, a) + s
      BY <2>1, <2>2, <2>4, <2>6, ExtentOn
    <2>8. (a + s) % RX_BUF_SIZE = Following[h]
      BY <2>3, <2>4, <2>7, ExtentSame
    <2> QED BY <2>1, <2>8, AdvanceWraps DEF a, s
  <1>14. Placed'
    <2>1. 1 \in 1..Len(stack') /\ stack'[1] = c
      BY <1>4 DEF IsReplace
    <2> QED BY <1>1, <1>3, <1>5, <1>9, <1>11, <1>13, <2>1, Zenon DEF Placed
  <1> QED BY <1>10, <1>12, <1>14

(* A drain ends when it has caught up with the card: the CAPR it writes     *)
(* gives up no frame that is not handled.                                   *)
LEMMA RxFinish ==
    ASSUME TypeInv, RxInv, Look, Finish
    PROVE  RxInv'
  <1> DEFINE h == Len(handled)
  <1>1. /\ ~Halted /\ stack # <<>> /\ IsDrain(Top) /\ Top.at = "look" /\ NoHeader
        /\ rx_offset' = Top.off /\ stack' = Tail(stack)
        /\ UNCHANGED <<ring, wptr, stored, handled>> /\ odd' = odd
    BY DEF Look, Finish, Return
  <1> SUFFICES ASSUME "again" \notin odd
               PROVE  RxNumbers' /\ Intact' /\ OneDrain' /\ Placed' /\ Layout'
    BY <1>1 DEF RxInv
  <1>2. RxNumbers /\ Intact /\ OneDrain /\ Placed /\ Layout
    BY <1>1, RxNow
  <1>3. 1 \in 1..Len(stack) /\ Len(stack) \in Nat /\ IsReturn(stack, stack')
    BY <1>1, TopIsCall, Returned DEF TypeInv, StackTypes
  <1>4. \A i \in 1..Len(stack) : IsDrain(stack[i]) => i = 1
    BY <1>1, <1>2, <1>3 DEF OneDrain, Top
  <1>5. ~BeingHandled /\ First = h + 1
    BY <1>1, <1>4 DEF BeingHandled, FrameAtHand, First, Top
  <1>6. h \in Nat /\ Len(stored) \in Nat /\ h <= Len(stored)
    BY <1>2 DEF TypeInv, RxTypes, RxNumbers
  <1>7. Top.off = Following[h]
    BY <1>1, <1>2, <1>3, Zenon DEF Placed, Top
  <1>8. h = Len(stored)
    <2> SUFFICES ASSUME h < Len(stored) PROVE FALSE
      BY <1>6
    <2>1. h + 1 \in First..Len(stored) /\ h + 1 \in 1..Len(stored) /\ h \in 0..Len(stored)
      BY <1>5, <1>6
    <2>2. Top.off = stored[h + 1].at
      BY <1>7, <2>1 DEF Following
    <2>3. stored[h + 1].len \in Lens /\ Top.off \in Offsets
      BY <2>1, <2>2, StoredFrame DEF TypeInv
    <2>4. 0 \in 0..(CellsOf(stored[h + 1].len) - 1)
      BY <2>3, FrameSize
    <2>5. ring[CellAt(Top.off, 0)] = [id |-> h + 1, part |-> 0]
      BY <1>2, <2>1, <2>2, <2>4, Zenon DEF Intact
    <2>6. CellAt(Top.off, 0) = Top.off \div 4
      <3>1. Top.off \div 4 \in 0..((RX_BUF_SIZE \div 4) - 1) /\ RX_BUF_SIZE \div 4 \in Nat \ {0}
        BY <2>3, SizesAssumption DEF Offsets
      <3>2. (Top.off \div 4) % (RX_BUF_SIZE \div 4) = Top.off \div 4
        BY <3>1, ModInside
      <3>3. Top.off \div 4 + 0 = Top.off \div 4
        BY <3>1
      <3> QED BY <3>2, <3>3 DEF CellAt
    <2>7. Cell = [id |-> h + 1, part |-> 0]
      BY <2>5, <2>6, Zenon DEF Cell
    <2>8. Cell # Empty /\ Cell.part = 0
      BY <1>6, <2>7 DEF Empty
    <2>9. Top.off # wptr
      <3>1. Extent(capr, Top.off) + Size(stored[h + 1]) <= Extent(capr, wptr)
        BY <1>2, <2>1, <2>2 DEF Layout
      <3>2. Size(stored[h + 1]) \in Nat \ {0}
        BY <2>3, FrameSize DEF Size
      <3>3. Extent(capr, Top.off) \in Int
        <4>1. capr \in Offsets
          BY DEF TypeInv, RxTypes
        <4> QED BY <2>3, <4>1, ExtentIs
      <3> QED BY <3>1, <3>2, <3>3
    <2> QED BY <1>1, <2>8, <2>9 DEF NoHeader, Leftover, IsHeader
  <1>9. ASSUME NEW i \in 1..Len(stack')
        PROVE  ~IsDrain(stack'[i])
    <2>1. i + 1 \in 1..Len(stack) /\ i + 1 # 1 /\ stack'[i] = stack[i + 1]
      BY <1>3 DEF IsReturn
    <2> QED BY <1>4, <2>1
  <1>10. OneDrain' /\ ~BeingHandled'
    BY <1>9 DEF OneDrain, BeingHandled, FrameAtHand
  <1>11. First' = h + 1 /\ Following' = Following
    BY <1>1, <1>10 DEF First, Following
  <1>12. RxNumbers' /\ Intact' /\ Layout'
    <2>1. First'..Len(stored') = {}
      BY <1>1, <1>6, <1>8, <1>11
    <2> QED BY <1>1, <1>2, <2>1, Zenon DEF RxNumbers, Numbered, Intact, Layout
  <1>13. Placed'
    BY <1>1, <1>7, <1>9, <1>11, Zenon DEF Placed
  <1> QED BY <1>10, <1>12, <1>13

(* The card stores a frame where it fits: short of CAPR, so over no cell of *)
(* a frame that is not handled.                                             *)
LEMMA RxStore ==
    ASSUME TypeInv, RxInv, NEW len \in Lens, Arrive(len), Fits(len), Store(len)
    PROVE  RxInv'
  <1> DEFINE last == Len(stored) + 1
             ks == 0..(CellsOf(len) - 1)
             part(c) == CHOOSE k \in ks : CellAt(wptr, k) = c
             fresh == {CellAt(wptr, k) : k \in ks}
             size == Aligned(len + 4)
             frame == [len |-> len, at |-> wptr]
             h == Len(handled)
  <1>1. /\ odd = {} /\ odd' = odd /\ UNCHANGED <<capr, rx_offset, handled, stack>>
        /\ stored' = Append(stored, frame)
        /\ wptr' = (wptr + size) % RX_BUF_SIZE
    BY Zenon DEF Arrive, Store
  <1>16. ring' = [c \in DOMAIN ring |->
                   IF c \in fresh THEN [id |-> last, part |-> part(c)] ELSE ring[c]]
    BY Zenon DEF Store
  <1>2. RxNumbers /\ Intact /\ OneDrain /\ Placed /\ Layout
    BY <1>1, Zenon DEF RxInv
  <1>3. /\ wptr \in Offsets /\ capr \in Offsets /\ DOMAIN ring = Cells
        /\ stored \in Seq([len : Lens, at : Offsets])
        /\ Len(stored) \in Nat /\ h \in Nat /\ h <= Len(stored)
    BY <1>2 DEF TypeInv, RxTypes, RxNumbers
  <1>4. /\ size \in 8..(RX_BUF_SIZE - 4) /\ size % 4 = 0 /\ CellsOf(len) \in Nat
        /\ 4 * CellsOf(len) = size
    BY FrameSize
  <1>5. RX_BUF_SIZE \in Nat
    BY SizesAssumption
  <1> HIDE DEF size, fresh, part
  <1>6. Extent(capr, wptr) + size < RX_BUF_SIZE
    <2>1. Extent(wptr, capr) = 0 \/ size < Extent(wptr, capr)
      BY DEF Fits, size
    <2>2. /\ Extent(capr, wptr) = IF wptr >= capr THEN wptr - capr ELSE wptr - capr + RX_BUF_SIZE
          /\ Extent(wptr, capr) = IF capr >= wptr THEN capr - wptr ELSE capr - wptr + RX_BUF_SIZE
          /\ Extent(wptr, capr) \in Int /\ Extent(capr, wptr) \in Int
      BY <1>3, ExtentIs
    <2>3. wptr \in 0..(RX_BUF_SIZE - 1) /\ capr \in 0..(RX_BUF_SIZE - 1)
      BY <1>3 DEF Offsets
    <2> QED BY <1>4, <1>5, <2>1, <2>2, <2>3
  <1>7. /\ wptr' \in Offsets /\ Extent(capr, wptr') = Extent(capr, wptr) + size
        /\ Extent(capr, wptr) \in Nat
    <2>1. size \in Nat
      BY <1>4, <1>5
    <2>2. /\ (wptr + size) % RX_BUF_SIZE \in Offsets
          /\ Extent(capr, (wptr + size) % RX_BUF_SIZE) = Extent(capr, wptr) + size
      BY <1>3, <1>4, <1>6, <2>1, ExtentOn
    <2>3. Extent(capr, wptr) \in Nat
      BY <1>3, ExtentIs
    <2> QED BY <1>1, <2>2, <2>3, Zenon
  <1>8. /\ Len(stored') = last /\ stored'[last].at = wptr /\ stored'[last].len = len
        /\ \A id \in 1..Len(stored) : stored'[id] = stored[id]
    <2>1. frame \in [len : Lens, at : Offsets] /\ frame.at = wptr /\ frame.len = len
      BY <1>3
    <2> HIDE DEF frame
    <2>2. stored' = Append(stored, frame)
      BY <1>1
    <2>3. ASSUME NEW q, q = Append(stored, frame)
          PROVE  /\ Len(q) = last /\ q[last] = frame
                 /\ \A id \in 1..Len(stored) : q[id] = stored[id]
      BY <1>3, <2>1, <2>3
    <2> QED BY <2>1, <2>2, <2>3, Zenon
  <1> HIDE DEF frame
  <1>9. (BeingHandled' <=> BeingHandled) /\ First' = First
    <2>1. BeingHandled' <=> BeingHandled
      BY <1>1, Zenon DEF BeingHandled
    <2> QED BY <1>1, <2>1, Zenon DEF First
  <1>10. First \in Nat /\ First >= 1 /\ First <= last
    <2>1. BeingHandled => h >= 1
      <3>1. ASSUME NEW i \in 1..Len(stack), FrameAtHand(stack[i])
            PROVE  h >= 1
        <4>1. stack[i] \in CallsNow
          BY StackCalls DEF TypeInv
        <4>2. stack[i].id \in 1..Len(stored)
          BY <3>1, <4>1 DEF CallsNow
        <4>3. stack[i].id = h
          BY <1>2, <3>1, Zenon DEF Placed, FrameAtHand
        <4> QED BY <1>3, <4>2, <4>3
      <3> QED BY <3>1 DEF BeingHandled
    <2> QED BY <1>3, <2>1 DEF First
  <1>11. \A id \in 0..Len(stored) : Following'[id] = Following[id]
    <2> TAKE id \in 0..Len(stored)
    <2>1. id \in 0..Len(stored') /\ id < Len(stored')
      <3>1. Len(stored') = Len(stored) + 1
        BY <1>8
      <3> QED BY <1>3, <3>1
    <2>2. Following'[id] = stored'[id + 1].at
      BY <2>1 DEF Following
    <2>3. CASE id < Len(stored)
      <3>1. id + 1 \in 1..Len(stored)
        BY <1>3, <2>3
      <3>2. Following[id] = stored[id + 1].at
        BY <2>3 DEF Following
      <3> QED BY <1>8, <2>2, <3>1, <3>2, Zenon
    <2>4. CASE id = Len(stored)
      <3>1. Following[id] = wptr
        BY <1>3, <2>4 DEF Following
      <3>2. stored'[id + 1].at = wptr
        BY <1>8, <2>4, Zenon
      <3> QED BY <2>2, <3>1, <3>2, Zenon
    <2> QED BY <1>3, <2>3, <2>4
  <1>12. RxNumbers' /\ OneDrain'
    <2>1. Numbered(handled)' /\ OneDrain'
      BY <1>1, <1>2, Zenon DEF RxNumbers, Numbered, OneDrain
    <2>2. Len(stored') = Len(stored) + 1 /\ Len(handled') = h
      BY <1>1, <1>8, Zenon
    <2> QED BY <1>3, <2>1, <2>2 DEF RxNumbers
  <1>13. Placed'
    <2>1. Following'[h] = Following[h]
      BY <1>3, <1>11
    <2>2. ASSUME NEW i \in 1..Len(stack), IsDrain(stack[i]), stack[i].at = "frame"
          PROVE  stored'[h].at = stored[h].at
      <3>1. BeingHandled
        BY <2>2 DEF BeingHandled, FrameAtHand
      <3>2. h \in 1..Len(stored)
        BY <1>3, <1>10, <3>1 DEF First
      <3> QED BY <1>8, <3>2, Zenon
    <2> QED BY <1>1, <1>2, <2>1, <2>2, Zenon DEF Placed
  <1>14. Layout'
    <2>1. ASSUME NEW id \in First..last
          PROVE  /\ Extent(capr, stored'[id].at) + Size(stored'[id])
                      = Extent(capr, Following'[id])
                 /\ Extent(capr, stored'[id].at) + Size(stored'[id]) <= Extent(capr, wptr')
      <3>1. CASE id = last
        <4>1. Following'[id] = wptr'
          <5>1. Len(stored') = id /\ id \in Nat
            BY <1>3, <1>8, <3>1
          <5> QED BY <5>1 DEF Following
        <4>2. stored'[id].at = wptr /\ Size(stored'[id]) = size
          BY <1>8, <3>1, Zenon DEF Size, size
        <4>3. size \in Nat /\ Extent(capr, wptr') = Extent(capr, wptr) + size
          BY <1>4, <1>5, <1>7
        <4>4. Extent(capr, wptr') <= Extent(capr, wptr')
          BY <1>7, <4>3
        <4> QED BY <4>1, <4>2, <4>3, <4>4, Zenon
      <3>2. CASE id # last
        <4>1. id \in First..Len(stored) /\ id \in 1..Len(stored) /\ id \in 0..Len(stored)
          BY <1>3, <1>10, <3>2
        <4>2. /\ Extent(capr, stored[id].at) + Size(stored[id]) = Extent(capr, Following[id])
              /\ Extent(capr, stored[id].at) + Size(stored[id]) <= Extent(capr, wptr)
          BY <1>2, <4>1, Zenon DEF Layout
        <4>3. Extent(capr, stored[id].at) \in Nat /\ Size(stored[id]) \in Nat
          <5>1. stored[id].at \in Offsets /\ stored[id].len \in Lens
            BY <4>1, StoredFrame DEF TypeInv
          <5> QED BY <1>3, <5>1, ExtentIs, FrameSize, Zenon DEF Size
        <4>4. stored'[id] = stored[id] /\ Following'[id] = Following[id]
          BY <1>8, <1>11, <4>1, Zenon
        <4>5. Extent(capr, wptr) <= Extent(capr, wptr')
          BY <1>4, <1>5, <1>7
        <4>6. Extent(capr, wptr') \in Int
          BY <1>4, <1>7
        <4>7. Extent(capr, stored[id].at) + Size(stored[id]) <= Extent(capr, wptr')
          <5>1. ASSUME NEW e \in Nat, NEW z \in Nat, NEW v \in Nat, NEW w \in Int,
                       e + z <= v, v <= w
                PROVE  e + z <= w
            BY <5>1
          <5> QED BY <1>7, <4>2, <4>3, <4>5, <4>6, <5>1, Zenon
        <4> QED BY <4>2, <4>4, <4>7, Zenon
      <3> QED BY <3>1, <3>2, Zenon
    <2> QED BY <1>1, <1>8, <1>9, <2>1, Zenon DEF Layout
  <1>15. Intact'
    <2>1. ASSUME NEW k \in ks
          PROVE  /\ CellAt(wptr, k) \in Cells /\ k \in Nat /\ k < CellsOf(len)
                 /\ 4 * CellAt(wptr, k) \in Offsets
                 /\ Extent(capr, 4 * CellAt(wptr, k)) = Extent(capr, wptr) + 4 * k
      <3>1. k \in Nat /\ k < CellsOf(len) /\ 4 * k < size
        BY <1>4
      <3>2. Extent(capr, wptr) + 4 * k < RX_BUF_SIZE
        BY <1>4, <1>5, <1>6, <1>7, <3>1
      <3> QED BY <1>3, <3>1, <3>2, CellOn
    <2>2. ASSUME NEW k \in ks
          PROVE  ring'[CellAt(wptr, k)] = [id |-> last, part |-> k]
      <3> DEFINE c == CellAt(wptr, k)
      <3>1. c \in fresh /\ c \in Cells
        BY <2>1 DEF fresh
      <3>2. part(c) \in ks /\ CellAt(wptr, part(c)) = c
        <4>1. \E j \in ks : CellAt(wptr, j) = c
          OBVIOUS
        <4> QED BY <4>1 DEF part
      <3>3. part(c) = k
        <4>1. /\ Extent(capr, 4 * c) = Extent(capr, wptr) + 4 * k
              /\ Extent(capr, 4 * c) = Extent(capr, wptr) + 4 * part(c)
              /\ k \in Nat /\ part(c) \in Nat
          BY <2>1, <3>2
        <4>2. ASSUME NEW e \in Nat, NEW p \in Nat, e + 4 * k = e + 4 * p
              PROVE  p = k
          BY <4>1, <4>2
        <4>3. Extent(capr, wptr) + 4 * k = Extent(capr, wptr) + 4 * part(c)
          BY <4>1, Zenon
        <4> HIDE DEF c
        <4> QED BY <1>7, <4>1, <4>2, <4>3, Zenon
      <3> HIDE DEF c
      <3>4. ring'[c] = [id |-> last, part |-> part(c)]
        BY <1>3, <1>16, <3>1, Zenon
      <3> QED BY <3>3, <3>4, Zenon DEF c
    <2>3. ASSUME NEW id \in First..Len(stored), NEW k \in 0..(CellsOf(stored[id].len) - 1)
          PROVE  ring'[CellAt(stored[id].at, k)] = [id |-> id, part |-> k]
      <3> DEFINE a == stored[id].at
                 s == Size(stored[id])
                 c == CellAt(a, k)
      <3>1. id \in 1..Len(stored)
        BY <1>3, <1>10
      <3>2. a \in Offsets /\ stored[id].len \in Lens
        BY <3>1, StoredFrame DEF TypeInv
      <3>3. s \in Nat /\ 4 * CellsOf(stored[id].len) = s /\ CellsOf(stored[id].len) \in Nat
        BY <3>2, FrameSize, Zenon DEF Size
      <3>4. Extent(capr, a) + s <= Extent(capr, wptr)
        BY <1>2, Zenon DEF Layout
      <3>5. ring[c] = [id |-> id, part |-> k]
        BY <1>2, Zenon DEF Intact
      <3>6. Extent(capr, a) \in Nat
        BY <1>3, <3>2, ExtentIs, Zenon
      <3> HIDE DEF a, s
      <3>7. k \in Nat /\ 4 * k < s
        BY <3>3
      <3>8. Extent(capr, a) + 4 * k < Extent(capr, wptr)
        BY <1>7, <3>3, <3>4, <3>6, <3>7
      <3>9. Extent(capr, a) + 4 * k < RX_BUF_SIZE
        BY <1>4, <1>5, <1>6, <1>7, <3>6, <3>7, <3>8
      <3>10. c \in Cells /\ Extent(capr, 4 * c) = Extent(capr, a) + 4 * k
        BY <1>3, <3>2, <3>7, <3>9, CellOn
      <3> HIDE DEF c
      <3>11. c \notin fresh
        <4> SUFFICES ASSUME c \in fresh PROVE FALSE
          OBVIOUS
        <4>1. PICK j \in ks : CellAt(wptr, j) = c
          BY DEF fresh
        <4>2. Extent(capr, 4 * c) = Extent(capr, wptr) + 4 * j /\ j \in Nat
          BY <2>1, <4>1
        <4> QED BY <1>7, <3>6, <3>7, <3>8, <3>10, <4>2
      <3>12. ring'[c] = ring[c]
        BY <1>3, <1>16, <3>10, <3>11, Zenon
      <3> QED BY <3>5, <3>12, Zenon DEF c, a
    <2>4. ASSUME NEW id \in First..last, NEW k \in 0..(CellsOf(stored'[id].len) - 1)
          PROVE  ring'[CellAt(stored'[id].at, k)] = [id |-> id, part |-> k]
      <3>1. CASE id = last
        <4>1. stored'[id].at = wptr /\ stored'[id].len = len
          BY <1>8, <3>1, Zenon
        <4> QED BY <2>2, <3>1, <4>1, Zenon
      <3>2. CASE id # last
        <4>1. id \in First..Len(stored) /\ id \in 1..Len(stored)
          BY <1>3, <1>10, <3>2
        <4>2. stored'[id] = stored[id]
          BY <1>8, <4>1, Zenon
        <4> QED BY <2>3, <4>1, <4>2, Zenon
      <3> QED BY <3>1, <3>2, Zenon
    <2> QED BY <1>8, <1>9, <2>4, Zenon DEF Intact
  <1> QED BY <1>12, <1>13, <1>14, <1>15 DEF RxInv

LEMMA RxInit ==
    ASSUME Init
    PROVE  RxInv
  <1>1. /\ handled = <<>> /\ stored = <<>> /\ stack = <<>> /\ wptr = 0 /\ rx_offset = 0
    BY DEF Init
  <1>2. Len(handled) = 0 /\ Len(stored) = 0 /\ Len(stack) = 0
    BY <1>1
  <1>3. ~BeingHandled
    BY <1>2 DEF BeingHandled
  <1>4. First = 1
    BY <1>2, <1>3 DEF First
  <1>5. Intact /\ Layout /\ RxNumbers /\ OneDrain
    <2>1. First..Len(stored) = {} /\ 1..Len(handled) = {} /\ 1..Len(stack) = {}
      BY <1>2, <1>4
    <2>2. Len(handled) <= Len(stored)
      BY <1>2
    <2> QED BY <2>1, <2>2, Zenon DEF Intact, Layout, RxNumbers, Numbered, OneDrain
  <1>6. Placed
    <2>1. Following[0] = 0
      BY <1>1, <1>2 DEF Following
    <2> QED BY <1>1, <1>2, <2>1 DEF Placed
  <1> QED BY <1>5, <1>6 DEF RxInv

(* Every step keeps it.                                                     *)
LEMMA RxNext ==
    ASSUME TypeInv, RxInv, [Next]_vars
    PROVE  RxInv'
  <1> DEFINE c == [Top EXCEPT !.todo = Tail(@)]
  <1>1. CASE UNCHANGED vars \/ Quiet \/ Transmit \/ (Interrupt /\ "ROK" \notin pending)
    BY <1>1, RxStack, Zenon DEF vars, Quiet, Transmit, Interrupt, rx
  <1>2. ASSUME NEW len \in Lens, Arrive(len)
        PROVE  RxInv'
    <2>1. CASE Fits(len) /\ Store(len)
      BY <1>2, <2>1, RxStore
    <2>2. CASE ~Fits(len)
      BY <1>2, <2>2, RxStack DEF Arrive
    <2> QED BY <1>2, <2>1, <2>2 DEF Arrive
  <1>3. ASSUME Look
        PROVE  RxInv'
    <2>1. CASE Misread
      BY <2>1, RxStack DEF Misread, rx
    <2> QED BY <1>3, <2>1, RxTake, RxFinish DEF Look
  <1>4. CASE Hlt
    <2>1. /\ UNCHANGED <<ring, wptr, capr, stored, rx_offset, handled>> /\ odd \subseteq odd'
          /\ stack' = stack \/ stack' = <<c>> \o Tail(stack)
      BY <1>4, Zenon DEF Hlt, Replace, rx
    <2>2. /\ stack # <<>> /\ c \in CallsNow
          /\ IsDrain(c) <=> IsDrain(Top)
          /\ IsDrain(c) => c.at = Top.at /\ c.off = Top.off /\ c.id = Top.id
      BY <1>4, TopDoesOne, Zenon DEF Hlt, TypeInv
    <2> HIDE DEF c
    <2> QED BY <2>1, <2>2, RxStack, RxReplaced
  <1>5. CASE SendPacket
    <2>1. UNCHANGED <<ring, wptr, capr, stored, rx_offset, handled>> /\ odd' = odd
      BY <1>5 DEF SendPacket, rx
    <2>2. ASSUME NEW d \in CallsNow, ~IsDrain(d), ~IsDrain(Top),
                 stack # <<>>, stack' = <<d>> \o Tail(stack)
          PROVE  RxInv'
      BY <2>1, <2>2, RxReplaced
    <2>3. CASE SendCall
      BY <2>2, <2>3, SendingTop, CalledTop DEF SendCall, Replace
    <2>4. CASE SendSpin
      BY <2>2, <2>4, SendingTop, Zenon DEF SendSpin, Goto, Replace
    <2>5. CASE SendMark
      BY <2>2, <2>5, SendingTop, Zenon DEF SendMark, Goto, Replace
    <2>6. CASE SendStart
      BY <2>2, <2>6, SendingTop, Zenon DEF SendStart, Goto, Replace
    <2>7. CASE SendMove
      BY <2>1, <2>7, SendingTop, RxReturned DEF SendMove, Return
    <2> QED BY <1>5, <2>3, <2>4, <2>5, <2>6, <2>7 DEF SendPacket
  <1>6. CASE CommandEnd
    <2>1. /\ UNCHANGED <<ring, wptr, capr, stored, rx_offset, handled>> /\ odd' = odd
          /\ stack # <<>> /\ stack' = Tail(stack) /\ ~IsDrain(Top)
      BY <1>6 DEF CommandEnd, Return, IsDrain, rx
    <2> QED BY <2>1, RxReturned
  <1>7. ASSUME NEW todo \in ShellWork, Command(todo)
        PROVE  RxInv'
    <2>1. /\ stack = <<>> /\ stack' = <<Shell(todo)>> /\ odd' = odd
          /\ UNCHANGED <<ring, wptr, capr, stored, rx_offset, handled>>
          /\ ~IsDrain(Shell(todo))
      BY <1>7, ShellIsCall DEF Command, rx
    <2> DEFINE f == [i \in 1..Len(stack') |-> i]
    <2>2. f \in [1..Len(stack') -> Int] /\ \A i, j \in 1..Len(stack') : f[i] = f[j] => i = j
      OBVIOUS
    <2>3. /\ \A i \in 1..Len(stack') : ~IsDrain(stack'[i])
          /\ \A i \in 1..Len(stack) : ~IsDrain(stack[i])
      BY <2>1
    <2> HIDE DEF f
    <2> QED BY <2>1, <2>2, <2>3, RxKept, Zenon
  <1> HIDE DEF c
  <1> QED BY <1>1, <1>2, <1>3, <1>4, <1>5, <1>6, <1>7, RxStarted, RxSti, RxStep, RxStartSend
          DEF Next, Run

(* The types and the frames together, which the two theorems below share.   *)
LEMMA RxHolds == Spec => [](TypeInv /\ RxInv)
  <1>1. Init => TypeInv /\ RxInv
    BY TypeInit, RxInit
  <1>2. TypeInv /\ RxInv /\ [Next]_vars => (TypeInv /\ RxInv)'
    BY TypeNext, RxNext
  <1> QED BY <1>1, <1>2, PTL DEF Spec

(* Every frame the card stored is passed to net_process_packet once and in  *)
(* the order of arrival, by the handler or by the poll, however often the   *)
(* ring wraps and whatever the lengths of the frames.                       *)
THEOREM FramesHandledOnce == Spec => []HandledOnce
  <1>1. TypeInv /\ RxInv => HandledOnce
    <2> SUFFICES ASSUME TypeInv, RxInv, "again" \notin odd
                 PROVE  handled = [i \in 1..Len(handled) |-> i]
      BY DEF HandledOnce
    <2>1. handled \in Seq(Nat) /\ \A i \in 1..Len(handled) : handled[i] = i
      BY DEF RxInv, RxNumbers, Numbered, TypeInv, RxTypes
    <2> QED BY <2>1
  <1> QED BY <1>1, RxHolds, PTL

(* The CAPR a drain writes never lets the card write over a frame that is   *)
(* not handled yet, or that is being handled in place.                      *)
THEOREM FramesStayIntact == Spec => []FramesIntact
  <1>1. TypeInv /\ RxInv => FramesIntact
    <2> SUFFICES ASSUME TypeInv, RxInv, "again" \notin odd
                 PROVE  FramesIntact
      BY Zenon DEF FramesIntact
    <2>1. DOMAIN stack = 1..Len(stack) /\ Intact
      BY StackCalls DEF RxInv, TypeInv
    <2> QED BY <2>1, Zenon DEF Intact, First, BeingHandled, FrameAtHand, FramesIntact
  <1> QED BY <1>1, RxHolds, PTL

=============================================================================
