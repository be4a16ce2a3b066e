---------------------------- MODULE DeviceProofs ----------------------------
(***************************************************************************)
(* The UART's invariants for every FIFO size and set of bytes; completions *)
(* and interrupts of a virtio queue, and its refinement of the sequential  *)
(* device, for every ring size, index width and set of chains; the two     *)
(* host threads for every set of keys and outcomes; and what becomes of    *)
(* the parts' invariants in the machine composed of them.                  *)
(***************************************************************************)
EXTENDS MCMachine, Arithmetic, FiniteSetTheorems, SequenceTheorems, TLAPS

(* The UART *)

\* What a poll that is under way remembers: bytes it saw are still there, since only
\* its own thread takes them; bytes it did not see came later.
PollSound ==
  /\ sim = "data" => rx_fifo # <<>>
  /\ sim = "no_data" => rx_fifo = <<>> \/ unseen

UartInv == UartTypeOK /\ ReadyExact /\ LineExact /\ PollSound

\* The empty FIFO is one.
LEMMA EmptyFifo == <<>> \in Seq(Bytes) /\ Len(<<>>) <= FifoMax
  BY UartAssumption

\* Appending to a receive FIFO with room keeps it a FIFO.
LEMMA AppendFifo ==
  ASSUME NEW s \in Seq(Bytes), NEW b \in Bytes, Len(s) <= FifoMax, Len(s) # FifoMax
  PROVE  /\ Append(s, b) \in Seq(Bytes)
         /\ Len(Append(s, b)) <= FifoMax
         /\ Append(s, b) # <<>>
  BY UartAssumption

\* What the PTY reader keeps of its bytes is a FIFO too, and is never empty.
LEMMA FillFifo ==
  ASSUME NEW s \in Seq(Bytes), NEW bs \in Seq(Bytes), Len(bs) > 0, Len(s) <= FifoMax
  PROVE  LET t == s \o bs
             u == SubSeq(t, 1, IF Len(t) > FifoMax THEN FifoMax ELSE Len(t))
         IN  u \in Seq(Bytes) /\ Len(u) <= FifoMax /\ u # <<>>
<1> DEFINE t == s \o bs
           n == IF Len(t) > FifoMax THEN FifoMax ELSE Len(t)
<1>1. t \in Seq(Bytes) /\ Len(t) = Len(s) + Len(bs) /\ Len(s) \in Nat /\ Len(bs) \in Nat
  BY ConcatProperties
<1>2. n \in 1 .. Len(t) /\ n <= FifoMax
  BY <1>1, UartAssumption
<1>3. SubSeq(t, 1, n) \in Seq(Bytes) /\ Len(SubSeq(t, 1, n)) = n
  BY <1>1, <1>2, SubSeqProperties
<1>4. SubSeq(t, 1, n) # <<>>
  BY <1>2, <1>3
<1> QED BY <1>2, <1>3, <1>4

\* Every reachable state of the UART has a bounded FIFO, a flag that tells the truth
\* about it and a PLIC line that is up only with cause, whatever the host threads did.
THEOREM UartCorrect == UartSpec => [](UartTypeOK /\ ReadyExact /\ LineExact)
<1>1. UartInit => UartInv
  BY EmptyFifo DEF UartInit, UartInv, UartTypeOK, ReadyExact, LineExact, PollSound, is_interrupt_pending
<1>2. UartInv /\ [UartNext]_uartVars => UartInv'
  <2> SUFFICES ASSUME UartInv, [UartNext]_uartVars PROVE UartInv'
    OBVIOUS
  <2> USE UartAssumption DEF UartInv, UartTypeOK, ReadyExact, LineExact, PollSound, is_interrupt_pending
  <2>1. ASSUME NEW b \in Bytes, input_thread(b) PROVE UartInv'
    BY <2>1, AppendFifo DEF input_thread, Full, uartRegs
  <2>2. ASSUME NEW b \in Bytes, push_rx_byte(b) PROVE UartInv'
    BY <2>2, AppendFifo DEF push_rx_byte, Full, uartRegs
  <2>3. ASSUME NEW n \in 1 .. 2, NEW bs \in [1 .. n -> Bytes], pty_reader(bs) PROVE UartInv'
    <3>1. bs \in Seq(Bytes) /\ Len(bs) > 0
      OBVIOUS
    <3>2. rx_fifo' \in Seq(Bytes) /\ Len(rx_fifo') <= FifoMax /\ rx_fifo' # <<>>
      BY <2>3, <3>1, FillFifo DEF pty_reader
    <3> QED BY <2>3, <3>2 DEF pty_reader, uartRegs
  <2>4. CASE ReadRbr
    <3>1. rx_fifo' \in Seq(Bytes) /\ Len(rx_fifo') <= FifoMax
      BY <2>4 DEF ReadRbr
    <3> QED BY <2>4, <3>1 DEF ReadRbr, update_uart_irq, uartRegs
  <2>5. CASE ReadIir
    BY <2>5 DEF ReadIir, Decide, update_uart_irq
  <2>6. CASE WriteThr
    BY <2>6 DEF WriteThr, Decide, update_uart_irq
  <2>7. CASE WriteLcr
    BY <2>7 DEF WriteLcr
  <2>8. ASSUME NEW ier \in SUBSET {"RX", "TX"}, WriteIer(ier) PROVE UartInv'
    BY <2>8 DEF WriteIer, Decide, update_uart_irq
  <2>9. ASSUME NEW c \in BOOLEAN, WriteFcr(c) PROVE UartInv'
    BY <2>9, EmptyFifo DEF WriteFcr, uartRegs
  <2>10. CASE EndFcr
    BY <2>10 DEF EndFcr, Decide, update_uart_irq, uartRegs
  <2>11. CASE Poll
    BY <2>11 DEF Poll, uartRegs
  <2>12. CASE EndPoll
    BY <2>12 DEF EndPoll, update_uart_irq, uartRegs
  <2>13. CASE UNCHANGED uartVars
    BY <2>13 DEF uartVars, uartRegs
  <2> QED
    BY <2>1, <2>2, <2>3, <2>4, <2>5, <2>6, <2>7, <2>8, <2>9, <2>10, <2>11, <2>12, <2>13
    DEF UartNext, UartHost, UartGuest, UartThread
<1> QED
  BY <1>1, <1>2, PTL DEF UartSpec, UartInv

-----------------------------------------------------------------------------
(* Interrupts of a virtio queue *)

\* NoLostCompletion is not inductive: inside process_queue the console owes its
\* interrupt, which is what `written' stands for, and the flag must be clear outside.
Owed ==
  /\ kind \in Kinds
  /\ used_idx # last_used_idx => InterruptStatus \/ handling \/ written
  /\ GuestRuns => ~written

\* The driver never waits for a completion that the device has stored and keeps quiet
\* about, however notifications, acknowledgements and handlers interleave.
THEOREM CompletionsAnnounced == VqSpec => []NoLostCompletion
<1>1. VqInit => Owed
  BY DEF VqInit, Owed
<1>2. Owed /\ [VqNext]_vqVars => Owed'
  <2> SUFFICES ASSUME Owed, [VqNext]_vqVars PROVE Owed'
    OBVIOUS
  <2> USE DEF Owed, GuestRuns
  <2>1. CASE SetQueueReady
    BY <2>1 DEF SetQueueReady, guestMem, driver
  <2>2. ASSUME NEW h \in Heads, NEW r \in RequestsOf(kind), Offer(h, r) PROVE Owed'
    BY <2>2 DEF Offer
  <2>3. CASE QueueNotify
    BY <2>3 DEF QueueNotify, guestMem, driver
  <2>4. CASE InterruptACK
    BY <2>4 DEF InterruptACK, guestMem
  <2>5. CASE Harvest
    BY <2>5 DEF Harvest, guestMem
  <2>6. CASE EndHandling
    BY <2>6 DEF EndHandling, guestMem
  <2>7. CASE process_chain
    BY <2>7, QueueAssumption DEF process_chain, driver
  <2>8. CASE end_process_queue
    BY <2>8 DEF end_process_queue, guestMem, driver
  <2>9. CASE UNCHANGED vqVars
    BY <2>9 DEF vqVars, guestMem, driver
  <2> QED
    BY <2>1, <2>2, <2>3, <2>4, <2>5, <2>6, <2>7, <2>8, <2>9 DEF VqNext, process_queue
<1>3. Owed => NoLostCompletion
  BY DEF Owed, NoLostCompletion
<1> QED
  BY <1>1, <1>2, <1>3, PTL DEF VqSpec

-----------------------------------------------------------------------------
(* The rings implement the sequential device *)

\* n chains of a ring from position `from' on, oldest first.
Window(ring, from, n) == [i \in 1 .. n |-> ring[Slot(from + i - 1)]]

Rings == [0 .. QueueNum - 1 -> Heads]

LEMMA SlotType == ASSUME NEW i \in Int PROVE Slot(i) \in 0 .. QueueNum - 1
  BY QueueAssumption, ModDef DEF Slot

LEMMA SlotShift ==
  ASSUME NEW a \in Int, NEW b \in Int, NEW c \in Int, Slot(a) = Slot(b)
  PROVE  Slot(a + c) = Slot(b + c)
  BY QueueAssumption, ModShift, Zenon DEF Slot

\* A window is a sequence of chains.
LEMMA WindowSeq ==
  ASSUME NEW ring \in Rings, NEW from \in Int, NEW n \in Nat
  PROVE  /\ Window(ring, from, n) \in Seq(Heads)
         /\ Len(Window(ring, from, n)) = n
         /\ \A i \in 1 .. n : Window(ring, from, n)[i] = ring[Slot(from + i - 1)]
<1>1. \A i \in 1 .. n : ring[Slot(from + i - 1)] \in Heads
  BY SlotType DEF Rings
<1>2. Window(ring, from, n) \in [1 .. n -> Heads]
  BY <1>1 DEF Window
<1>3. Window(ring, from, n) \in Seq(Heads)
  BY <1>2
<1> QED BY <1>2, <1>3 DEF Window

\* Taking the first chain moves the window by one, however the position is reduced.
LEMMA WindowTail ==
  ASSUME NEW ring \in Rings, NEW from \in Int, NEW n \in Nat \ {0}, NEW next \in Int,
         Slot(next) = Slot(from + 1)
  PROVE  /\ Window(ring, from, n) # <<>>
         /\ Head(Window(ring, from, n)) = ring[Slot(from)]
         /\ Tail(Window(ring, from, n)) = Window(ring, next, n - 1)
<1> DEFINE w == Window(ring, from, n)
           v == Window(ring, next, n - 1)
<1>1. /\ w \in Seq(Heads) /\ Len(w) = n /\ \A i \in 1 .. n : w[i] = ring[Slot(from + i - 1)]
      /\ v \in Seq(Heads) /\ Len(v) = n - 1 /\ \A i \in 1 .. n - 1 : v[i] = ring[Slot(next + i - 1)]
  BY WindowSeq
<1>2. \A i \in 1 .. n - 1 : Slot(next + i - 1) = Slot(from + (i + 1) - 1)
  <2> TAKE i \in 1 .. n - 1
  <2>1. i - 1 \in Int /\ from + 1 \in Int
    OBVIOUS
  <2>2. Slot(next + (i - 1)) = Slot((from + 1) + (i - 1))
    BY <2>1, SlotShift, Zenon
  <2>3. next + (i - 1) = next + i - 1 /\ (from + 1) + (i - 1) = from + (i + 1) - 1
    OBVIOUS
  <2> QED BY <2>2, <2>3
<1> HIDE DEF w, v
<1>3. w # <<>> /\ Tail(w) \in Seq(Heads) /\ Len(Tail(w)) = n - 1
      /\ \A i \in 1 .. n - 1 : Tail(w)[i] = w[i + 1]
  BY <1>1, HeadTailProperties
<1>4. ASSUME NEW i \in 1 .. n - 1 PROVE Tail(w)[i] = v[i]
  <2>1. i + 1 \in 1 .. n
    OBVIOUS
  <2>2. Tail(w)[i] = w[i + 1] /\ v[i] = ring[Slot(next + i - 1)]
    BY <1>1, <1>3
  <2>3. w[i + 1] = ring[Slot(from + (i + 1) - 1)]
    BY <1>1, <2>1
  <2> QED BY <1>2, <2>2, <2>3
<1>5. Tail(w) = v
  BY <1>1, <1>3, <1>4, SeqEqual
<1>6. Head(w) = ring[Slot(from)]
  BY <1>1, <1>3
<1> QED BY <1>3, <1>5, <1>6 DEF w, v

\* A chain put behind a window that does not fill the ring overwrites none of it.
LEMMA WindowAppend ==
  ASSUME NEW ring \in Rings, NEW from \in Int, NEW n \in Nat, n < QueueNum, NEW h \in Heads,
         NEW to \in Int, Slot(to) = Slot(from + n)
  PROVE  Window([ring EXCEPT ![Slot(to)] = h], from, n + 1) = Append(Window(ring, from, n), h)
<1> DEFINE w == Window(ring, from, n)
           new == [ring EXCEPT ![Slot(to)] = h]
           m == n + 1
           v == Window(new, from, m)
<1>1. new \in Rings /\ new[Slot(to)] = h /\ \A s \in 0 .. QueueNum - 1 : s # Slot(to) => new[s] = ring[s]
  BY SlotType DEF Rings
<1>0. m \in Nat /\ m = n + 1
  OBVIOUS
<1> HIDE DEF new, m
<1>2. /\ w \in Seq(Heads) /\ Len(w) = n /\ \A i \in 1 .. n : w[i] = ring[Slot(from + i - 1)]
      /\ v \in Seq(Heads) /\ Len(v) = m /\ \A i \in 1 .. m : v[i] = new[Slot(from + i - 1)]
  BY <1>0, <1>1, WindowSeq, Zenon
<1> HIDE DEF w, v
<1>3. /\ Append(w, h) \in Seq(Heads) /\ Len(Append(w, h)) = n + 1
      /\ \A i \in 1 .. n : Append(w, h)[i] = w[i]
      /\ Append(w, h)[n + 1] = h
  BY <1>2, AppendProperties
<1>4. ASSUME NEW i \in 1 .. n PROVE v[i] = w[i]
  <2>1. from + i - 1 \in Int /\ from + n \in Int /\ i \in 1 .. n + 1
    OBVIOUS
  <2>2. Slot(from + i - 1) # Slot(to)
    <3>1. -QueueNum < (from + i - 1) - (from + n) /\ (from + i - 1) - (from + n) < QueueNum
          /\ from + i - 1 # from + n
      BY QueueAssumption
    <3>2. QueueNum \in Nat \ {0}
      BY QueueAssumption
    <3> QED BY <2>1, <3>1, <3>2, ModDistinct DEF Slot
  <2> QED BY <1>0, <1>1, <1>2, <2>1, <2>2, SlotType
<1>5. v[n + 1] = h
  <2>1. from + (n + 1) - 1 = from + n /\ n + 1 \in 1 .. n + 1
    OBVIOUS
  <2> QED BY <1>0, <1>1, <1>2, <2>1
<1>6. ASSUME NEW i \in 1 .. n + 1 PROVE v[i] = Append(w, h)[i]
  BY <1>3, <1>4, <1>5
<1>7. v = Append(w, h)
  BY <1>0, <1>2, <1>3, <1>6, SeqEqual
<1> QED BY <1>7 DEF w, v, new, m

-----------------------------------------------------------------------------
(* Distances between indices of the rings *)

LEMMA Moduli ==
  /\ QueueNum \in Nat \ {0} /\ IdxMod \in Nat \ {0} /\ WordMod \in Nat \ {0}
  /\ \E k \in Nat : IdxMod = k * QueueNum
  /\ \E k \in Nat : WordMod = k * IdxMod
  /\ \E k \in Nat : WordMod = k * QueueNum
<1>1. PICK j \in 1 .. IdxMod : IdxMod = j * QueueNum
  BY QueueAssumption
<1>2. PICK k \in 1 .. WordMod : WordMod = k * IdxMod
  BY QueueAssumption
<1>3. IdxMod \in Nat \ {0} /\ WordMod \in Nat \ {0}
  BY <1>1, <1>2, QueueAssumption
<1>4. j \in Nat /\ k \in Nat /\ k * j \in Nat
  BY <1>3
<1>5. WordMod = (k * j) * QueueNum
  BY <1>1, <1>2, <1>4, QueueAssumption
<1> QED BY <1>1, <1>2, <1>3, <1>4, <1>5, QueueAssumption

\* The next index is one again.
LEMMA NextIndex ==
  ASSUME NEW m \in Nat \ {0}, NEW a \in 0 .. m - 1
  PROVE  (a + 1) % m \in 0 .. m - 1
<1>1. a + 1 \in Int
  OBVIOUS
<1> QED BY <1>1, ModDef, Zenon

\* The index that writes, one further.
LEMMA DistanceGrows ==
  ASSUME NEW a \in Int, NEW l \in Int, ((a - l) % IdxMod) + 1 < IdxMod
  PROVE  (((a + 1) % IdxMod) - l) % IdxMod = ((a - l) % IdxMod) + 1
<1> DEFINE n == (a - l) % IdxMod
           b == a + 1
           c == -l
           e == a - l
<1>1. IdxMod \in Nat \ {0}
  BY Moduli
<1>2. b \in Int /\ c \in Int /\ e \in Int /\ b + c = e + 1
  OBVIOUS
<1>3. n \in 0 .. IdxMod - 1 /\ n + 1 \in 0 .. IdxMod - 1
  BY <1>1, <1>2, ModDef
<1> HIDE DEF b, c, e
<1>4. ((b % IdxMod) + c) % IdxMod = (b + c) % IdxMod
  BY <1>1, <1>2, ModInner, Zenon
<1>5. ((e % IdxMod) + 1) % IdxMod = (e + 1) % IdxMod
  <2>1. 1 \in Int
    OBVIOUS
  <2> QED BY <1>1, <1>2, <2>1, ModInner, Zenon
<1>6. (n + 1) % IdxMod = n + 1
  BY <1>1, <1>3, ModSmall
<1>7. b % IdxMod \in Int
  BY <1>1, <1>2, ModDef
<1>8. (b % IdxMod) + c = (b % IdxMod) - l
  BY <1>7 DEF c
<1>9. e % IdxMod = n
  BY DEF e
<1>10. ((b % IdxMod) - l) % IdxMod = n + 1
  BY <1>2, <1>4, <1>5, <1>6, <1>8, <1>9
<1> QED BY <1>10 DEF b

\* The index that reads, one further.
LEMMA DistanceShrinks ==
  ASSUME NEW a \in Int, NEW l \in Int, NEW m \in Int, (a - l) % IdxMod # 0,
         m % IdxMod = (l + 1) % IdxMod
  PROVE  (a - m) % IdxMod = ((a - l) % IdxMod) - 1
<1> DEFINE e == a - l
           n == e % IdxMod
           q == e \div IdxMod
           s == l + 1
<1>1. IdxMod \in Nat \ {0} /\ e \in Int /\ s \in Int
  BY Moduli
<1> HIDE DEF e, s
<1>2. n \in 0 .. IdxMod - 1 /\ q \in Int /\ e = (IdxMod * q) + n
  BY <1>1, ModDef
<1>3. PICK k \in Int : m = s + (k * IdxMod)
  BY <1>1, ModEq, Zenon DEF s
<1>0. n # 0
  BY DEF e
<1> HIDE DEF n, q
<1>4. a - m = ((q - k) * IdxMod) + (n - 1)
  BY <1>1, <1>2, <1>3 DEF e, s
<1>5. n - 1 \in 0 .. IdxMod - 1 /\ q - k \in Int /\ a - m \in Int
  BY <1>0, <1>1, <1>2
<1>6. (a - m) % IdxMod = n - 1
  BY <1>1, <1>4, <1>5, ModUnique
<1> QED BY <1>6 DEF n, e

\* Indices at no distance are equal, the reading one cut to the width of the ring's.
LEMMA DistanceZero ==
  ASSUME NEW a \in 0 .. IdxMod - 1, NEW l \in Int
  PROVE  (a - l) % IdxMod = 0 <=> l % IdxMod = a
<1>0. IdxMod \in Nat \ {0}
  BY Moduli
<1>1. IdxMod \in Nat \ {0} /\ a \in Int /\ a % IdxMod = a
  BY <1>0, ModSmall
<1>2. 0 % IdxMod = 0 /\ 0 \in Int
  BY <1>1
<1>3. ASSUME l % IdxMod = a PROVE (a - l) % IdxMod = 0
  <2> DEFINE c == -l
  <2>1. c \in Int /\ l + c = 0 /\ a + c = a - l /\ l % IdxMod = a % IdxMod
    BY <1>1, <1>3
  <2> HIDE DEF c
  <2>2. (l + c) % IdxMod = (a + c) % IdxMod
    BY <1>1, <2>1, ModShift, ZenonT(60)
  <2> QED BY <1>2, <2>1, <2>2
<1>4. ASSUME (a - l) % IdxMod = 0 PROVE l % IdxMod = a
  <2> DEFINE e == a - l
  <2>1. e \in Int /\ e % IdxMod = 0 % IdxMod /\ e + l = a /\ 0 + l = l
    BY <1>1, <1>2, <1>4
  <2> HIDE DEF e
  <2>2. (e + l) % IdxMod = (0 + l) % IdxMod
    BY <1>1, <1>2, <2>1, ModShift, ZenonT(60)
  <2> QED BY <1>1, <2>1, <2>2
<1> QED BY <1>3, <1>4

\* An index may be kept modulo IdxMod or as a machine word.
LEMMA NextReduced ==
  ASSUME NEW l \in Int, NEW n \in {IdxMod, WordMod}
  PROVE  Slot((l + 1) % n) = Slot(l + 1) /\ ((l + 1) % n) % IdxMod = (l + 1) % IdxMod
<1> DEFINE s == l + 1
<1>1. s \in Int /\ n \in Nat \ {0} /\ IdxMod \in Nat \ {0} /\ QueueNum \in Nat \ {0}
  BY Moduli
<1> HIDE DEF s
<1>2. \E k \in Nat : n = k * QueueNum
  BY Moduli
<1>3. \E j \in Nat : n = j * IdxMod
  <2>1. IdxMod = 1 * IdxMod /\ 1 \in Nat
    BY <1>1
  <2> QED BY <2>1, Moduli
<1>4. (s % n) % QueueNum = s % QueueNum
  BY <1>1, <1>2, ModNested, Zenon
<1>5. (s % n) % IdxMod = s % IdxMod
  BY <1>1, <1>3, ModNested, Zenon
<1> QED BY <1>4, <1>5 DEF s, Slot

\* Two indices of the rings at distance n name slots at distance n.
LEMMA DistanceSlot ==
  ASSUME NEW a \in Int, NEW l \in Int
  PROVE  Slot(a) = Slot(l + ((a - l) % IdxMod))
<1> DEFINE n == (a - l) % IdxMod
           q == (a - l) \div IdxMod
<1>1. QueueNum \in Nat \ {0} /\ IdxMod \in Nat \ {0}
  BY Moduli
<1>2. n \in Int /\ q \in Int /\ a - l = (IdxMod * q) + n
  BY <1>1, ModDef
<1> HIDE DEF n, q
<1>3. PICK k \in Nat : IdxMod = k * QueueNum
  BY Moduli
<1>4. a = (l + n) + ((q * k) * QueueNum)
  BY <1>1, <1>2, <1>3
<1>5. l + n \in Int /\ q * k \in Int
  BY <1>2
<1>6. Slot(a) = Slot(l + n)
  BY <1>1, <1>4, <1>5, ModAdd DEF Slot
<1> QED BY <1>6 DEF n

-----------------------------------------------------------------------------
(* No chain is in two places *)

Distinct(s) == \A i, j \in 1 .. Len(s) : s[i] = s[j] => i = j

\* The chains of s and t all differ and are in S.
Separate(s, t, S) ==
  /\ Distinct(s) /\ Distinct(t)
  /\ \A i \in 1 .. Len(s) : s[i] \in S
  /\ \A j \in 1 .. Len(t) : t[j] \in S
  /\ \A i \in 1 .. Len(s), j \in 1 .. Len(t) : s[i] # t[j]

LEMMA SubmitSeparate ==
  ASSUME NEW s \in Seq(Heads), NEW t \in Seq(Heads), NEW S, Separate(s, t, S),
         NEW h \in Heads, h \notin S
  PROVE  Separate(Append(s, h), t, S \cup {h})
<1> DEFINE u == Append(s, h)
<1>1. /\ u \in Seq(Heads) /\ Len(u) = Len(s) + 1 /\ Len(s) \in Nat
      /\ u[Len(s) + 1] = h /\ \A i \in 1 .. Len(s) : u[i] = s[i]
  BY AppendProperties
<1> HIDE DEF u
<1>2. \A i \in 1 .. Len(u) : i \in 1 .. Len(s) \/ i = Len(s) + 1
  BY <1>1
<1>3. Distinct(u)
  BY <1>1, <1>2 DEF Separate, Distinct
<1>4. /\ \A i \in 1 .. Len(u) : u[i] \in S \cup {h}
      /\ \A i \in 1 .. Len(u), j \in 1 .. Len(t) : u[i] # t[j]
  BY <1>1, <1>2 DEF Separate
<1>5. Separate(u, t, S \cup {h})
  BY <1>3, <1>4 DEF Separate
<1> QED BY <1>5 DEF u

LEMMA ServeSeparate ==
  ASSUME NEW s \in Seq(Heads), NEW t \in Seq(Heads), NEW S, Separate(s, t, S), s # <<>>
  PROVE  Separate(Tail(s), Append(t, Head(s)), S)
<1> DEFINE u == Tail(s)
           v == Append(t, Head(s))
<1>1. /\ u \in Seq(Heads) /\ Len(u) = Len(s) - 1 /\ Len(s) \in Nat \ {0}
      /\ \A i \in 1 .. Len(u) : u[i] = s[i + 1]
      /\ Head(s) = s[1] /\ Head(s) \in Heads
  BY HeadTailProperties, EmptySeq
<1>2. /\ v \in Seq(Heads) /\ Len(v) = Len(t) + 1 /\ Len(t) \in Nat
      /\ v[Len(t) + 1] = s[1] /\ \A i \in 1 .. Len(t) : v[i] = t[i]
  BY <1>1, AppendProperties
<1> HIDE DEF u, v
<1>3. Distinct(u)
  BY <1>1 DEF Separate, Distinct
<1>4. Distinct(v)
  BY <1>1, <1>2, SMTT(30) DEF Separate, Distinct
<1>5. \A i \in 1 .. Len(u), j \in 1 .. Len(v) : u[i] # v[j]
  BY <1>1, <1>2, SMTT(30) DEF Separate, Distinct
<1>6. \A i \in 1 .. Len(u) : u[i] \in S
  BY <1>1 DEF Separate
<1>7. ASSUME NEW j \in 1 .. Len(v) PROVE v[j] \in S
  <2>1. 1 \in 1 .. Len(s)
    BY <1>1
  <2> QED BY <1>2, <2>1 DEF Separate
<1> QED BY <1>3, <1>4, <1>5, <1>6, <1>7 DEF Separate, u, v

LEMMA CollectSeparate ==
  ASSUME NEW s \in Seq(Heads), NEW t \in Seq(Heads), NEW S, Separate(s, t, S), t # <<>>
  PROVE  Separate(s, Tail(t), S \ {Head(t)})
<1> DEFINE u == Tail(t)
<1>1. /\ u \in Seq(Heads) /\ Len(u) = Len(t) - 1 /\ Len(t) \in Nat \ {0}
      /\ \A i \in 1 .. Len(u) : u[i] = t[i + 1]
      /\ Head(t) = t[1]
  BY HeadTailProperties, EmptySeq
<1> HIDE DEF u
<1>2. Distinct(u)
  BY <1>1 DEF Separate, Distinct
<1>3. \A j \in 1 .. Len(u) : u[j] \in S \ {Head(t)}
  BY <1>1 DEF Separate, Distinct
<1>4. \A i \in 1 .. Len(s) : s[i] \in S \ {Head(t)}
  BY <1>1 DEF Separate
<1>5. \A i \in 1 .. Len(s), j \in 1 .. Len(u) : s[i] # u[j]
  BY <1>1 DEF Separate
<1> QED BY <1>2, <1>3, <1>4, <1>5 DEF Separate, u

\* Chains that all differ are no more than the set they come from.
LEMMA SeparateFit ==
  ASSUME NEW s \in Seq(Heads), NEW t \in Seq(Heads), NEW S \in SUBSET Heads, Separate(s, t, S)
  PROVE  Len(s) + Len(t) <= Cardinality(S)
<1> DEFINE m == Len(s)
           n == Len(t)
           f == [i \in 1 .. m + n |-> IF i <= m THEN s[i] ELSE t[i - m]]
<1>1. m \in Nat /\ n \in Nat
  OBVIOUS
<1>2. IsFiniteSet(S)
  BY QueueAssumption, FS_Subset
<1> HIDE DEF m, n
<1>3. \A i \in 1 .. m + n : f[i] \in S
  BY <1>1 DEF Separate, m, n
<1>4. \A i, j \in 1 .. m + n : f[i] = f[j] => i = j
  <2> SUFFICES ASSUME NEW i \in 1 .. m + n, NEW j \in 1 .. m + n, f[i] = f[j] PROVE i = j
    OBVIOUS
  <2>1. CASE i <= m /\ j <= m
    BY <1>1, <2>1 DEF Separate, Distinct, m
  <2>2. CASE i > m /\ j > m
    <3>1. i - m \in 1 .. n /\ j - m \in 1 .. n /\ t[i - m] = t[j - m]
      BY <1>1, <2>2
    <3> QED BY <1>1, <3>1 DEF Separate, Distinct, n
  <2>3. CASE i <= m /\ j > m
    <3>1. i \in 1 .. m /\ j - m \in 1 .. n /\ s[i] = t[j - m]
      BY <1>1, <2>3
    <3> QED BY <1>1, <3>1 DEF Separate, m, n
  <2>4. CASE i > m /\ j <= m
    <3>1. j \in 1 .. m /\ i - m \in 1 .. n /\ s[j] = t[i - m]
      BY <1>1, <2>4
    <3> QED BY <1>1, <3>1 DEF Separate, m, n
  <2> QED BY <1>1, <2>1, <2>2, <2>3, <2>4
<1>5. f \in [1 .. m + n -> S]
  BY <1>3
<1> HIDE DEF f
<1>6. f \in Injection(1 .. m + n, S)
  BY <1>4, <1>5 DEF Injection, IsInjective
<1>7. Cardinality(1 .. m + n) <= Cardinality(S)
  BY <1>2, <1>6, FS_Injection
<1>8. Cardinality(1 .. m + n) = m + n
  BY <1>1, FS_Interval
<1> QED BY <1>7, <1>8 DEF m, n

-----------------------------------------------------------------------------

RingTypeOK ==
  /\ avail_ring \in Rings /\ used_ring \in Rings
  /\ avail_idx \in 0 .. IdxMod - 1 /\ used_idx \in 0 .. IdxMod - 1 /\ last_used_idx \in 0 .. IdxMod - 1
  /\ last_avail_idx \in 0 .. WordMod - 1
  /\ stop_idx \in -1 .. IdxMod - 1
  /\ inflight \subseteq Heads

\* Why the rings never overrun: a chain waits, or is done and not taken, or is neither,
\* and the driver knows which.  The index that process_queue read is still the driver's.
RingInv ==
  /\ RingTypeOK
  /\ stop_idx # -1 => stop_idx = avail_idx
  /\ Separate(Pending, Done, inflight)

Waiting   == (avail_idx - last_avail_idx) % IdxMod
Completed == (used_idx - last_used_idx) % IdxMod

\* The two sequences of the abstract device are windows of the rings.
LEMMA AsWindows ==
  ASSUME RingTypeOK
  PROVE  /\ Waiting \in Nat /\ Completed \in Nat
         /\ Pending = Window(avail_ring, last_avail_idx, Waiting)
         /\ Done = Window(used_ring, last_used_idx, Completed)
         /\ Pending \in Seq(Heads) /\ Len(Pending) = Waiting
         /\ Done \in Seq(Heads) /\ Len(Done) = Completed
<1>1. Waiting \in Nat /\ Completed \in Nat
  <2> DEFINE a == avail_idx - last_avail_idx
             u == used_idx - last_used_idx
  <2>1. a \in Int /\ u \in Int /\ IdxMod \in Nat \ {0}
    BY Moduli DEF RingTypeOK
  <2> HIDE DEF a, u
  <2>2. a % IdxMod \in Nat /\ u % IdxMod \in Nat
    BY <2>1, ModDef
  <2> QED BY <2>2 DEF Waiting, Completed, a, u
<1>2. Pending = Window(avail_ring, last_avail_idx, Waiting) /\ Done = Window(used_ring, last_used_idx, Completed)
  BY DEF Pending, Done, Window, Waiting, Completed
<1> QED BY <1>1, <1>2, WindowSeq DEF RingTypeOK

\* A chain that the driver owns fits into the ring behind those that wait.
LEMMA OfferStep ==
  ASSUME RingInv, NEW h \in Heads, NEW r \in Requests, Offer(h, r)
  PROVE  RingInv' /\ Abstract!Submit(h, r)
<1>1. RingTypeOK'
  <2>1. avail_ring' \in Rings
    BY SlotType DEF Offer, RingInv, RingTypeOK, Rings
  <2>2. avail_idx' \in 0 .. IdxMod - 1
    BY Moduli, NextIndex DEF Offer, RingInv, RingTypeOK
  <2> QED BY <2>1, <2>2 DEF Offer, RingInv, RingTypeOK, Rings
<1>2. Waiting + Completed + 1 <= Cardinality(Heads)
  <2>1. Separate(Pending, Done, Heads \ {h})
    BY DEF RingInv, RingTypeOK, Offer, Separate
  <2>2. Waiting + Completed <= Cardinality(Heads \ {h})
    BY <2>1, AsWindows, SeparateFit DEF RingInv
  <2>3. Cardinality(Heads \ {h}) = Cardinality(Heads) - 1 /\ Cardinality(Heads) \in Nat
    BY QueueAssumption, FS_RemoveElement, FS_CardinalityType
  <2> QED BY <2>2, <2>3, AsWindows DEF RingInv
<1>3. Waiting < QueueNum /\ Waiting + 1 < IdxMod
  BY <1>2, QueueAssumption, AsWindows, FS_CardinalityType DEF RingInv
<1>4. Waiting' = Waiting + 1
  <2>1. avail_idx \in Int /\ last_avail_idx \in Int
    BY Moduli DEF RingInv, RingTypeOK
  <2> QED BY <1>3, <2>1, DistanceGrows DEF Waiting, Offer
<1>5. Pending' = Append(Pending, h)
  <2>1. avail_idx \in Int /\ last_avail_idx \in Int
    BY Moduli DEF RingInv, RingTypeOK
  <2>2. Slot(avail_idx) = Slot(last_avail_idx + Waiting)
    BY <2>1, DistanceSlot DEF Waiting
  <2>3. Window([avail_ring EXCEPT ![Slot(avail_idx)] = h], last_avail_idx, Waiting + 1)
          = Append(Window(avail_ring, last_avail_idx, Waiting), h)
    BY <1>3, <2>1, <2>2, AsWindows, WindowAppend, ZenonT(60) DEF RingInv, RingTypeOK
  <2>4. Pending' = Window(avail_ring', last_avail_idx', Waiting')
    BY DEF Pending, Window, Waiting
  <2> QED BY <1>4, <2>3, <2>4, AsWindows DEF Offer, RingInv
<1>6. Done' = Done
  BY DEF Offer, Done
<1>7. Separate(Pending', Done', inflight')
  BY <1>5, <1>6, AsWindows, SubmitSeparate DEF RingInv, Offer
<1>8. RingInv'
  BY <1>1, <1>7 DEF RingInv, Offer, GuestRuns
<1>9. h \notin Abstract!Elements(Pending) \cup Abstract!Elements(Done)
  BY AsWindows DEF RingInv, Offer, Separate, Abstract!Elements
<1> QED BY <1>5, <1>6, <1>8, <1>9 DEF Offer, Abstract!Submit

\* The loop of process_queue has a chain to serve exactly when one waits.
LEMMA LoopCondition ==
  ASSUME RingInv, stop_idx # -1
  PROVE  More <=> Waiting # 0
<1>1. avail_idx \in 0 .. IdxMod - 1 /\ last_avail_idx \in Int /\ stop_idx = avail_idx
  BY Moduli DEF RingInv, RingTypeOK
<1> QED BY <1>1, DistanceZero DEF More, Waiting

\* One iteration takes the oldest chain that waits and hands it back behind those done.
LEMMA ServeStep ==
  ASSUME RingInv, process_chain
  PROVE  RingInv' /\ Abstract!Serve
<1> DEFINE h == avail_ring[Slot(last_avail_idx)]
<1>1. /\ avail_idx \in Int /\ last_avail_idx \in Int /\ used_idx \in Int /\ last_used_idx \in Int
      /\ last_avail_idx' \in Int /\ h \in Heads /\ IdxMod \in Nat \ {0} /\ WordMod \in Nat \ {0}
      /\ QueueNum \in Nat \ {0} /\ last_avail_idx' \in 0 .. WordMod - 1 /\ used_idx' \in 0 .. IdxMod - 1
  <2>1. /\ avail_idx \in Int /\ last_avail_idx \in Int /\ used_idx \in Int /\ last_used_idx \in Int
        /\ IdxMod \in Nat \ {0} /\ WordMod \in Nat \ {0} /\ QueueNum \in Nat \ {0}
    BY Moduli DEF RingInv, RingTypeOK
  <2>2. h \in Heads
    BY <2>1, SlotType DEF RingInv, RingTypeOK, Rings
  <2>3. last_avail_idx' \in 0 .. WordMod - 1
    BY Moduli, NextIndex DEF RingInv, RingTypeOK, process_chain
  <2>4. used_idx' \in 0 .. IdxMod - 1
    BY Moduli, NextIndex DEF RingInv, RingTypeOK, process_chain, update_descriptor
  <2> QED BY <2>1, <2>2, <2>3, <2>4
<1>2. Waiting # 0
  BY LoopCondition DEF process_chain
<1>3. Waiting + Completed <= Cardinality(Heads) /\ Waiting \in Nat /\ Completed \in Nat
  <2>1. Separate(Pending, Done, Heads)
    BY DEF RingInv, RingTypeOK, Separate
  <2> QED BY <2>1, AsWindows, SeparateFit DEF RingInv
<1>4. Completed < QueueNum /\ Completed + 1 < IdxMod
  BY <1>2, <1>3, QueueAssumption, FS_CardinalityType
<1>5. last_avail_idx' % IdxMod = (last_avail_idx + 1) % IdxMod /\ Slot(last_avail_idx') = Slot(last_avail_idx + 1)
  BY <1>1, NextReduced DEF process_chain
<1>6. Waiting' = Waiting - 1
  <2>1. (avail_idx - last_avail_idx') % IdxMod = ((avail_idx - last_avail_idx) % IdxMod) - 1
    BY <1>1, <1>2, <1>5, DistanceShrinks DEF Waiting
  <2> QED BY <2>1 DEF Waiting, process_chain
<1>7. Completed' = Completed + 1
  <2>1. (((used_idx + 1) % IdxMod) - last_used_idx) % IdxMod = ((used_idx - last_used_idx) % IdxMod) + 1
    BY <1>1, <1>4, DistanceGrows DEF Completed
  <2> QED BY <2>1 DEF Completed, process_chain, update_descriptor, driver
<1>8. Pending # <<>> /\ Head(Pending) = h /\ Pending' = Tail(Pending)
  <2>1. /\ Window(avail_ring, last_avail_idx, Waiting) # <<>>
        /\ Head(Window(avail_ring, last_avail_idx, Waiting)) = h
        /\ Tail(Window(avail_ring, last_avail_idx, Waiting)) = Window(avail_ring, last_avail_idx', Waiting - 1)
    BY <1>1, <1>2, <1>3, <1>5, WindowTail DEF RingInv, RingTypeOK
  <2>2. Pending' = Window(avail_ring', last_avail_idx', Waiting')
    BY DEF Pending, Window, Waiting
  <2> QED BY <1>6, <2>1, <2>2, AsWindows DEF RingInv, process_chain
<1>9. Done' = Append(Done, h)
  <2>1. Slot(used_idx) = Slot(last_used_idx + Completed)
    BY <1>1, DistanceSlot DEF Completed
  <2>2. Window([used_ring EXCEPT ![Slot(used_idx)] = h], last_used_idx, Completed + 1)
          = Append(Window(used_ring, last_used_idx, Completed), h)
    <3>1. used_ring \in Rings /\ last_used_idx \in Int /\ Completed \in Nat /\ h \in Heads /\ used_idx \in Int
      BY <1>1, <1>3 DEF RingInv, RingTypeOK
    <3> HIDE DEF h
    <3> QED BY <1>4, <2>1, <3>1, WindowAppend, Zenon
  <2>3. Done' = Window(used_ring', last_used_idx', Completed')
    BY DEF Done, Window, Completed
  <2>4. used_ring' = [used_ring EXCEPT ![Slot(used_idx)] = h] /\ last_used_idx' = last_used_idx
    BY DEF process_chain, update_descriptor, next_avail_desc_idx, driver
  <2> QED BY <1>7, <2>2, <2>3, <2>4, AsWindows DEF RingInv
<1>10. Separate(Pending', Done', inflight')
  BY <1>8, <1>9, AsWindows, ServeSeparate DEF RingInv, process_chain, driver
<1>11. RingTypeOK'
  <2>1. used_ring' \in Rings
    BY <1>1, SlotType DEF RingInv, RingTypeOK, Rings, process_chain, update_descriptor, next_avail_desc_idx
  <2> QED BY <1>1, <2>1 DEF RingInv, RingTypeOK, Rings, process_chain, driver
<1>12. RingInv'
  BY <1>10, <1>11 DEF RingInv, process_chain
<1>13. Abstract!Serve
  BY <1>8, <1>9 DEF Abstract!Serve, process_chain, next_avail_desc_idx
<1> QED BY <1>12, <1>13

\* The driver takes the oldest completion.
LEMMA CollectStep ==
  ASSUME RingInv, Harvest
  PROVE  RingInv' /\ Abstract!Collect
<1>1. /\ used_idx \in Int /\ last_used_idx \in Int /\ last_used_idx' \in Int /\ IdxMod \in Nat \ {0}
      /\ last_used_idx' = (last_used_idx + 1) % IdxMod /\ last_used_idx' \in 0 .. IdxMod - 1
  BY Moduli, NextIndex DEF RingInv, RingTypeOK, Harvest
<1>2. Completed # 0
  <2>1. used_idx \in 0 .. IdxMod - 1 /\ last_used_idx % IdxMod = last_used_idx /\ last_used_idx # used_idx
    BY <1>1, ModSmall DEF RingInv, RingTypeOK, Harvest
  <2> QED BY <1>1, <2>1, DistanceZero DEF Completed
<1>3. Slot(last_used_idx') = Slot(last_used_idx + 1) /\ last_used_idx' % IdxMod = (last_used_idx + 1) % IdxMod
  BY <1>1, NextReduced
<1>4. Completed' = Completed - 1
  <2>1. (used_idx - last_used_idx') % IdxMod = ((used_idx - last_used_idx) % IdxMod) - 1
    BY <1>1, <1>2, <1>3, DistanceShrinks DEF Completed
  <2> QED BY <2>1 DEF Completed, Harvest, guestMem
<1>5. Done # <<>> /\ Head(Done) = used_ring[Slot(last_used_idx)] /\ Done' = Tail(Done)
  <2>1. /\ Window(used_ring, last_used_idx, Completed) # <<>>
        /\ Head(Window(used_ring, last_used_idx, Completed)) = used_ring[Slot(last_used_idx)]
        /\ Tail(Window(used_ring, last_used_idx, Completed)) = Window(used_ring, last_used_idx', Completed - 1)
    BY <1>1, <1>2, <1>3, AsWindows, WindowTail, SMTT(30) DEF RingInv, RingTypeOK
  <2>2. Done' = Window(used_ring', last_used_idx', Completed')
    BY DEF Done, Window, Completed
  <2> QED BY <1>4, <2>1, <2>2, AsWindows DEF RingInv, Harvest, guestMem
<1>6. Pending' = Pending
  BY DEF Harvest, guestMem, Pending
<1>7. Separate(Pending', Done', inflight')
  BY <1>5, <1>6, AsWindows, CollectSeparate DEF RingInv, Harvest
<1>8. RingInv'
  BY <1>1, <1>7 DEF RingInv, RingTypeOK, Harvest, guestMem, GuestRuns
<1> QED BY <1>5, <1>6, <1>8 DEF Abstract!Collect, Harvest, guestMem

LEMMA RingInit == ASSUME VqInit PROVE RingInv /\ Abstract!AbsInit
<1>1. QueueNum \in Nat \ {0} /\ IdxMod \in Nat \ {0} /\ WordMod \in Nat \ {0}
  BY Moduli
<1>2. RingTypeOK
  BY <1>1 DEF VqInit, RingTypeOK, Rings
<1>3. Waiting = 0 /\ Completed = 0
  BY <1>1 DEF VqInit, Waiting, Completed
<1>4. Pending = <<>> /\ Done = <<>>
  <2>1. /\ Pending \in Seq(Heads) /\ Len(Pending) = 0 /\ Done \in Seq(Heads) /\ Len(Done) = 0
    BY <1>2, <1>3, AsWindows
  <2> QED BY <2>1
<1>5. Separate(Pending, Done, inflight)
  BY <1>4 DEF Separate, Distinct
<1>6. chain \in [Heads -> Requests] /\ medium \in Media("disk") \cup Media("console")
  BY QueueAssumption DEF VqInit, RequestsOf
<1> QED BY <1>2, <1>4, <1>5, <1>6 DEF RingInv, Abstract!AbsInit, VqInit

\* What leaves the rings, the chains, the medium and the driver's books alone is a stutter
\* of the abstract device.
LEMMA IdleStep ==
  ASSUME RingInv, UNCHANGED <<guestMem, last_avail_idx, medium, last_used_idx, inflight>>,
         stop_idx' \in {stop_idx, avail_idx, -1}
  PROVE  RingInv' /\ UNCHANGED Abstract!absVars
<1>1. Pending' = Pending /\ Done' = Done
  BY DEF Pending, Done, guestMem
<1>2. stop_idx' \in -1 .. IdxMod - 1
  BY Moduli DEF RingInv, RingTypeOK
<1>3. RingTypeOK'
  BY <1>2 DEF RingInv, RingTypeOK, Rings, guestMem
<1> QED BY <1>1, <1>3 DEF RingInv, guestMem, Abstract!absVars

LEMMA RingStep ==
  ASSUME RingInv, [VqNext]_vqVars
  PROVE  RingInv' /\ [Abstract!AbsNext]_Abstract!absVars
<1>1. CASE SetQueueReady
  BY <1>1, IdleStep DEF SetQueueReady, driver
<1>2. ASSUME NEW h \in Heads, NEW r \in RequestsOf(kind), Offer(h, r)
      PROVE  RingInv' /\ [Abstract!AbsNext]_Abstract!absVars
  <2>1. r \in Requests
    BY DEF RequestsOf
  <2> QED BY <1>2, <2>1, OfferStep DEF Abstract!AbsNext
<1>3. CASE QueueNotify
  BY <1>3, IdleStep DEF QueueNotify, driver
<1>4. CASE InterruptACK
  BY <1>4, IdleStep DEF InterruptACK
<1>5. CASE Harvest
  BY <1>5, CollectStep DEF Abstract!AbsNext
<1>6. CASE EndHandling
  BY <1>6, IdleStep DEF EndHandling
<1>7. CASE process_chain
  BY <1>7, ServeStep DEF Abstract!AbsNext
<1>8. CASE end_process_queue
  BY <1>8, IdleStep DEF end_process_queue, driver
<1>9. CASE UNCHANGED vqVars
  BY <1>9, IdleStep DEF vqVars, driver
<1> QED
  BY <1>1, <1>2, <1>3, <1>4, <1>5, <1>6, <1>7, <1>8, <1>9 DEF VqNext, process_queue

\* The two rings, their wrapping indices and the device's machine word implement the
\* sequential device: every chain that the driver submits is served once, in order, and
\* handed back in order, for every ring size, index width, driver and medium.
THEOREM RingsImplementDevice == VqSpec => InOrderOnce
<1>1. VqInit => RingInv /\ Abstract!AbsInit
  BY RingInit
<1>2. RingInv /\ [VqNext]_vqVars => RingInv' /\ [Abstract!AbsNext]_Abstract!absVars
  BY RingStep
<1> QED
  BY <1>1, <1>2, PTL DEF VqSpec, InOrderOnce, Abstract!AbsSpec

-----------------------------------------------------------------------------
(* The types of a virtio queue *)

\* A request as it may lie in guest memory of a device of kind k: the device is meant for it, and
\* what is to be written is data.
Fitting(k) ==
  { r \in Request : /\ (r.type = "Write") <=> (k = "console")
                    /\ r.type \in {"Out", "Write"} => r.buf \in Blocks }

LEMMA OfferFits == ASSUME NEW k, NEW r \in RequestsOf(k) PROVE r \in Fitting(k)
  BY RequestsAssumption DEF RequestsOf, Fitting

\* Serving a request keeps it one.
LEMMA ServedFits ==
  ASSUME NEW k \in Kinds, NEW m \in Media(k), NEW r \in Fitting(k)
  PROVE  Served(r, m) \in Fitting(k)
<1>1. /\ r.type \in Types /\ r.sector \in 0 .. NumSectors /\ r.buf \in Blocks \cup {"id"}
      /\ r.footer \in BOOLEAN /\ r.status \in Statuses
      /\ r = [type |-> r.type, sector |-> r.sector, buf |-> r.buf, footer |-> r.footer, status |-> r.status]
  BY DEF Fitting, Request
<1>2. "ok" \in Statuses /\ "ioerr" \in Statuses /\ "unsupp" \in Statuses
  BY DEF Statuses
<1>3. ASSUME NEW b \in Blocks \cup {"id"}, NEW s \in Statuses, r.type \in {"Out", "Write"} => b \in Blocks
      PROVE  [r EXCEPT !.buf = b, !.status = s] \in Fitting(k)
  BY <1>1, <1>3 DEF Fitting, Request
<1>4. ASSUME NEW s \in Statuses
      PROVE  [r EXCEPT !.status = s] \in Fitting(k)
  BY <1>1, <1>4 DEF Fitting, Request
<1>5. CASE r.type = "In" /\ InRange(r)
  <2>1. k = "disk" /\ r.type \notin {"Out", "Write"}
    BY <1>5, QueueAssumption DEF Fitting
  <2> DEFINE b == m[r.sector]
  <2>2. b \in Blocks \cup {"id"} /\ (r.type \in {"Out", "Write"} => b \in Blocks)
    BY <1>1, <1>5, <2>1, QueueAssumption DEF Media, InRange
  <2>3. Served(r, m) = [r EXCEPT !.buf = b, !.status = "ok"]
    BY <1>5, Zenon DEF Served
  <2> HIDE DEF b
  <2>4. [r EXCEPT !.buf = b, !.status = "ok"] \in Fitting(k)
    BY <1>2, <1>3, <2>2
  <2> QED BY <2>3, <2>4, Zenon
<1>6. CASE r.type = "Out" /\ InRange(r)
  <2>1. Served(r, m) = [r EXCEPT !.status = "ok"]
    BY <1>6, Zenon DEF Served
  <2> QED BY <1>2, <1>4, <2>1, Zenon
<1>7. CASE r.type \in {"In", "Out"} /\ ~InRange(r)
  <2>1. Served(r, m) = [r EXCEPT !.status = "ioerr"]
    BY <1>7, Zenon DEF Served
  <2> QED BY <1>2, <1>4, <2>1, Zenon
<1>8. CASE r.type = "Flush" /\ r.footer
  <2>1. Served(r, m) = [r EXCEPT !.status = "ok"]
    BY <1>8, Zenon DEF Served
  <2> QED BY <1>2, <1>4, <2>1, Zenon
<1>9. CASE r.type = "GetId"
  <2> DEFINE s == IF r.footer THEN "ok" ELSE r.status
  <2>1. s \in Statuses
    BY <1>1, <1>2
  <2>2. Served(r, m) = [r EXCEPT !.buf = "id", !.status = s]
    BY <1>9, Zenon DEF Served
  <2>3. "id" \in Blocks \cup {"id"} /\ r.type # "Out" /\ r.type # "Write"
    BY <1>9
  <2> HIDE DEF s
  <2> QED BY <1>3, <2>1, <2>2, <2>3, ZenonT(60)
<1>10. CASE r.type = "Other" /\ r.footer
  <2>1. Served(r, m) = [r EXCEPT !.status = "unsupp"]
    BY <1>10, Zenon DEF Served
  <2> QED BY <1>2, <1>4, <2>1, Zenon
<1>11. CASE (r.type \in {"Flush", "Other"} /\ ~r.footer) \/ r.type = "Write"
  <2>1. Served(r, m) = r
    BY <1>11, Zenon DEF Served
  <2> QED BY <2>1
<1> QED
  BY <1>1, <1>5, <1>6, <1>7, <1>8, <1>9, <1>10, <1>11, Zenon DEF Types

\* And leaves the medium one of the device's kind.
LEMMA AfterMedia ==
  ASSUME NEW k \in Kinds, NEW m \in Media(k), NEW r \in Fitting(k)
  PROVE  After(r, m) \in Media(k)
<1>1. r.type = "Write" <=> k = "console"
  BY DEF Fitting
<1>2. r.type \in {"Out", "Write"} => r.buf \in Blocks
  BY DEF Fitting
<1>3. CASE r.type = "Out" /\ InRange(r)
  <2>1. After(r, m) = [m EXCEPT ![r.sector] = r.buf]
    BY <1>3, Zenon DEF After
  <2> QED BY <1>2, <1>3, <2>1 DEF Media
<1>4. CASE r.type = "Write"
  <2>1. After(r, m) = [m EXCEPT ![0] = r.buf]
    BY <1>4, Zenon DEF After
  <2> QED BY <1>2, <1>4, <2>1 DEF Media
<1>5. CASE ~(r.type = "Out" /\ InRange(r)) /\ r.type # "Write"
  <2>1. After(r, m) = m
    BY <1>5, Zenon DEF After
  <2> QED BY <2>1
<1> QED BY <1>3, <1>4, <1>5

VqInv == VqTypeOK /\ chain \in [Heads -> Fitting(kind)]

LEMMA VqInvInit == VqInit => VqInv
<1> SUFFICES ASSUME VqInit PROVE VqInv
  OBVIOUS
<1>1. avail_ring \in [0 .. QueueNum - 1 -> Heads] /\ used_ring \in [0 .. QueueNum - 1 -> Heads]
  BY DEF VqInit
<1>2. chain \in [Heads -> Fitting(kind)]
  BY OfferFits DEF VqInit
<1>3. 0 \in 0 .. IdxMod - 1 /\ 0 \in 0 .. WordMod - 1 /\ -1 \in -1 .. IdxMod - 1
  BY Moduli
<1>4. chain \in [Heads -> Request]
  BY <1>2 DEF Fitting
<1>5. {avail_idx, used_idx, last_used_idx} \subseteq 0 .. IdxMod - 1 /\ last_avail_idx \in 0 .. WordMod - 1
      /\ stop_idx \in -1 .. IdxMod - 1
  BY <1>3 DEF VqInit
<1>6. kind \in Kinds /\ QueueReady \in BOOLEAN /\ InterruptStatus \in BOOLEAN /\ written \in BOOLEAN
      /\ handling \in BOOLEAN /\ inflight \subseteq Heads /\ medium \in Media(kind)
  BY Zenon DEF VqInit
<1> QED BY <1>1, <1>2, <1>4, <1>5, <1>6 DEF VqInv, VqTypeOK

LEMMA VqInvStep == VqInv /\ [VqNext]_vqVars => VqInv'
<1> SUFFICES ASSUME VqInv, [VqNext]_vqVars PROVE VqInv'
  OBVIOUS
<1> USE DEF VqInv, VqTypeOK
<1>1. CASE SetQueueReady
  BY <1>1 DEF SetQueueReady, guestMem, driver
<1>2. ASSUME NEW h \in Heads, NEW r \in RequestsOf(kind), Offer(h, r) PROVE VqInv'
  <2>1. r \in Fitting(kind) /\ r \in Request
    BY OfferFits DEF Fitting
  <2>2. chain' \in [Heads -> Fitting(kind)] /\ chain' \in [Heads -> Request]
    BY <1>2, <2>1 DEF Offer
  <2>3. avail_idx' \in 0 .. IdxMod - 1
    BY <1>2, Moduli, NextIndex DEF Offer
  <2>4. avail_ring' \in [0 .. QueueNum - 1 -> Heads]
    BY <1>2 DEF Offer
  <2> QED BY <1>2, <2>2, <2>3, <2>4 DEF Offer
<1>3. CASE QueueNotify
  <2>1. stop_idx' \in -1 .. IdxMod - 1
    BY <1>3, Moduli, SMTT(30) DEF QueueNotify
  <2> QED BY <1>3, <2>1 DEF QueueNotify, guestMem, driver
<1>4. CASE InterruptACK
  BY <1>4 DEF InterruptACK, guestMem
<1>5. CASE Harvest
  <2>1. last_used_idx' \in 0 .. IdxMod - 1
    BY <1>5, Moduli, NextIndex DEF Harvest
  <2> QED BY <1>5, <2>1 DEF Harvest, guestMem
<1>6. CASE EndHandling
  BY <1>6 DEF EndHandling, guestMem
<1>7. CASE process_chain
  <2> DEFINE h == next_avail_desc_idx
  <2>1. h \in Heads
    <3>1. last_avail_idx \in Int
      BY Moduli
    <3> QED BY <3>1, SlotType DEF next_avail_desc_idx
  <2>2. chain[h] \in Fitting(kind)
    BY <2>1
  <2>3. Served(chain[h], medium) \in Fitting(kind) /\ After(chain[h], medium) \in Media(kind)
    BY <2>2, ServedFits, AfterMedia
  <2>4. chain' \in [Heads -> Fitting(kind)]
    BY <1>7, <2>1, <2>3 DEF process_chain
  <2>5. chain' \in [Heads -> Request]
    BY <2>4 DEF Fitting
  <2>6. used_ring' \in [0 .. QueueNum - 1 -> Heads] /\ used_idx' \in 0 .. IdxMod - 1
    BY <1>7, <2>1, Moduli, NextIndex DEF process_chain, update_descriptor
  <2>7. last_avail_idx' \in 0 .. WordMod - 1
    BY <1>7, Moduli, NextIndex DEF process_chain
  <2>8. medium' \in Media(kind)
    BY <1>7, <2>3 DEF process_chain
  <2> QED BY <1>7, <2>4, <2>5, <2>6, <2>7, <2>8 DEF process_chain, driver
<1>8. CASE end_process_queue
  <2>1. stop_idx' \in -1 .. IdxMod - 1
    BY <1>8, Moduli DEF end_process_queue
  <2>2. InterruptStatus' \in BOOLEAN /\ written' \in BOOLEAN
    BY <1>8, Zenon DEF end_process_queue
  <2> QED BY <1>8, <2>1, <2>2 DEF end_process_queue, guestMem, driver
<1>9. CASE UNCHANGED vqVars
  BY <1>9 DEF vqVars, guestMem, driver
<1> QED
  BY <1>1, <1>2, <1>3, <1>4, <1>5, <1>6, <1>7, <1>8, <1>9 DEF VqNext, process_queue

-----------------------------------------------------------------------------
(* The two host threads *)

States == {"Stopped", "Running", "Paused"}
Flags  == {"running", "shutdown", "reboot", "paused", "set_paused", "test_paused"}

\* The operations that a thread's code is made of, with arguments of their types: those
\* that only touch the run state, and all of them.
StateOps == [do : Flags, arg : BOOLEAN] \cup [do : {"es"}, arg : States] \cup [do : {"update"}, arg : Nat]
WorkOps  == StateOps \cup {Cycle, CycleEnd}

LEMMA OpsOf ==
  /\ \A v \in Flags, x \in BOOLEAN : Store(v, x) \in StateOps
  /\ \A s \in States : Store("es", s) \in StateOps
  /\ \A p \in BOOLEAN : SetPaused(p) \in StateOps /\ TestPaused(p) \in StateOps
  /\ \A n \in Nat : Update(n) \in StateOps
  BY DEF StateOps, Store, SetPaused, TestPaused, Update, Flags, States

\* A CycleEnd is not among the operations on the run state.
LEMMA NoCycleEnd == CycleEnd \notin StateOps
  BY DEF StateOps, CycleEnd, Flags

LEMMA ShortSeqs ==
  ASSUME NEW S
  PROVE  /\ <<>> \in Seq(S)
         /\ \A a \in S : <<a>> \in Seq(S)
         /\ \A a, b \in S : <<a, b>> \in Seq(S)
         /\ \A a, b, c \in S : <<a, b, c>> \in Seq(S)
  OBVIOUS

LEMMA Requests3 == stop \in Seq(StateOps) /\ request_reboot \in Seq(StateOps) /\ request_exit \in Seq(StateOps)
<1>1. /\ Store("shutdown", TRUE) \in StateOps /\ Store("es", "Stopped") \in StateOps
      /\ SetPaused(TRUE) \in StateOps /\ Store("reboot", TRUE) \in StateOps /\ Store("running", FALSE) \in StateOps
  BY OpsOf DEF Flags, States
<1> QED BY <1>1, ShortSeqs, Zenon DEF stop, request_reboot, request_exit

\* What a guest cycle adds to the work of its thread only touches the run state.
LEMMA OutcomeOps ==
  ASSUME NEW o \in AllOutcomes, NEW ops \in OutcomeCode(o)
  PROVE  ops \in Seq(StateOps)
<1>1. SetPaused(TRUE) \in StateOps
  BY OpsOf
<1>2. CASE o = "retire"
  <2>1. OutcomeCode(o) = {<<>>}
    BY <1>2, Zenon DEF OutcomeCode
  <2> QED BY <2>1, ShortSeqs
<1>3. CASE o = "ebreak"
  <2>1. OutcomeCode(o) = {<<SetPaused(TRUE)>>}
    BY <1>3, Zenon DEF OutcomeCode
  <2> QED BY <1>1, <2>1, ShortSeqs
<1>4. CASE o \in {"poweroff", "reset", "exit"}
  <2>1. OutcomeCode(o) = {PowerRequest(o)}
    BY <1>4, Zenon DEF OutcomeCode
  <2>2. PowerRequest(o) \in {stop, request_reboot, request_exit}
    BY <1>4, Zenon DEF PowerRequest
  <2> QED BY <2>1, <2>2, Requests3, Zenon
<1>5. CASE o = "trap"
  <2>1. OutcomeCode(o) = {<<Update(n), SetPaused(TRUE)>> : n \in 0..KeyMax}
    BY <1>5, Zenon DEF OutcomeCode, TrapRequest
  <2>2. PICK n \in 0..KeyMax : ops = <<Update(n), SetPaused(TRUE)>>
    BY <2>1
  <2>3. Update(n) \in StateOps
    BY OpsOf, RunAssumption
  <2> QED BY <1>1, <2>2, <2>3, ShortSeqs, Zenon
<1>6. CASE o = "novector"
  <2>1. OutcomeCode(o) = {<<SetPaused(TRUE)>> \o stop}
    BY <1>6, Zenon DEF OutcomeCode, TrapRequest
  <2>2. <<SetPaused(TRUE)>> \in Seq(StateOps)
    BY <1>1, ShortSeqs
  <2> QED BY <2>1, <2>2, Requests3, ConcatProperties
<1> QED BY <1>2, <1>3, <1>4, <1>5, <1>6 DEF AllOutcomes

\* What a key adds: a Step is the only one that executes a guest cycle.
LEMMA KeyOps ==
  ASSUME NEW k \in AllKeys, NEW ops \in KeyCode(k)
  PROVE  ops \in Seq(StateOps) \/ (k = "step" /\ ops = OneCycle)
<1>1. /\ SetPaused(TRUE) \in StateOps /\ SetPaused(FALSE) \in StateOps
      /\ Store("shutdown", FALSE) \in StateOps /\ Store("running", TRUE) \in StateOps
  BY OpsOf DEF Flags
<1>2. /\ <<>> \in Seq(StateOps) /\ <<SetPaused(TRUE)>> \in Seq(StateOps) /\ <<SetPaused(FALSE)>> \in Seq(StateOps)
      /\ OpenModal \in Seq(StateOps) /\ Backstep \in Seq(StateOps)
  BY <1>1, ShortSeqs, Zenon DEF OpenModal, Backstep
<1>3. request_reboot \o <<SetPaused(FALSE)>> \in Seq(StateOps)
  BY <1>2, Requests3, ConcatProperties
<1>4. CASE k = "run"
  <2>1. KeyCode(k) = {IF shutdown THEN <<>> ELSE <<SetPaused(FALSE)>>}
    BY <1>4, Zenon DEF KeyCode, NavigationCode
  <2> QED BY <1>2, <2>1
<1>5. CASE k = "step"
  <2>1. KeyCode(k) = IF shutdown THEN {request_reboot \o <<SetPaused(FALSE)>>, <<>>} ELSE {OneCycle}
    BY <1>5, Zenon DEF KeyCode, NavigationCode
  <2> QED BY <1>2, <1>3, <1>5, <2>1
<1>6. CASE k \in {"click_pause", "click_reboot", "click_quit"}
  <2>1. KeyCode(k) = {ClickCode(k)}
    BY <1>6, Zenon DEF KeyCode
  <2>2. ClickCode(k) \in {<<SetPaused(TRUE)>>, request_reboot, request_exit}
    BY <1>6, Zenon DEF ClickCode
  <2> QED BY <1>2, <2>1, <2>2, Requests3, Zenon
<1>7. CASE k = "pause"
  BY <1>2, <1>7, Zenon DEF KeyCode
<1>8. CASE k = "reboot"
  BY Requests3, <1>8, Zenon DEF KeyCode
<1>9. CASE k = "quit"
  BY Requests3, <1>9, Zenon DEF KeyCode
<1>10. CASE k = "modal"
  BY <1>2, <1>10, Zenon DEF KeyCode
<1>11. CASE k = "back"
  BY <1>2, <1>11, Zenon DEF KeyCode
<1>12. CASE k = "q"
  BY Requests3, <1>12, Zenon DEF KeyCode, NavigationCode
<1> QED BY <1>4, <1>5, <1>6, <1>7, <1>8, <1>9, <1>10, <1>11, <1>12 DEF AllKeys

\* A longer set of operations has the sequences of the shorter one.
LEMMA StateOpsWiden == Seq(StateOps) \subseteq Seq(WorkOps)
  BY DEF WorkOps

\* The work of one thread after its first operation; that of the other is as it was.
LEMMA ThenOps ==
  ASSUME NEW S, NEW w \in [Threads -> Seq(WorkOps)], NEW t \in Threads, w[t] # <<>>, w[t] \in Seq(S), S \subseteq WorkOps,
         NEW ops \in Seq(S)
  PROVE  LET v == [w EXCEPT ![t] = ops \o Tail(@)]
         IN  /\ v \in [Threads -> Seq(WorkOps)] /\ v[t] \in Seq(S)
             /\ \A u \in Threads : u # t => v[u] = w[u]
<1>1. Tail(w[t]) \in Seq(S)
  BY HeadTailProperties
<1>2. ops \o Tail(w[t]) \in Seq(S)
  BY <1>1, ConcatProperties
<1>3. Seq(S) \subseteq Seq(WorkOps)
  OBVIOUS
<1> QED BY <1>2, <1>3

\* A thread has work left only where the code has it: the loop of Machine::run reads its
\* condition, waits and ends between two bursts, and the ui thread joins after its last frame.
Idle ==
  /\ simAt \in {"stopped?", "paused?", "wait", "done"} => code["sim"] = <<>>
  /\ ui \in {"join", "exited"} => code["ui"] = <<>>

\* Without the Step key the ui thread never has guest cycles to execute.
UiCalm == "step" \notin UserKeys => code["ui"] \in Seq(StateOps)

RunInv == RunTypeOK /\ code \in [Threads -> Seq(WorkOps)] /\ Idle /\ UiCalm

LEMMA RunInvInit == RunInit => RunInv
<1> SUFFICES ASSUME RunInit PROVE RunInv
  OBVIOUS
<1>1. <<>> \in Seq(WorkOps) /\ <<>> \in Seq(StateOps)
  BY ShortSeqs
<1>2. code \in [Threads -> Seq(WorkOps)] /\ code["ui"] = <<>> /\ code["sim"] = <<>>
  BY <1>1 DEF RunInit, Threads
<1>3. 0 \in 0..RunUndoMax
  BY RunAssumption
<1>4. RunTypeOK
  BY <1>3, Zenon DEF RunInit, RunTypeOK
<1> QED BY <1>1, <1>2, <1>4 DEF RunInv, Idle, UiCalm

\* The first operation of a thread is one of the operations.
LEMMA HeadOps ==
  ASSUME NEW S, NEW s \in Seq(S), s # <<>>
  PROVE  Head(s) \in S
  BY HeadTailProperties

\* One operation of a thread's work keeps the invariant of the work.
LEMMA ThenInv ==
  ASSUME RunInv, NEW t \in Threads, code[t] # <<>>, NEW ops \in Seq(WorkOps), Then(t, ops), UNCHANGED <<simAt, ui>>,
         ops \in Seq(StateOps) \/ t = "sim" \/ "step" \in UserKeys
  PROVE  code' \in [Threads -> Seq(WorkOps)] /\ Idle' /\ UiCalm'
<1>1. code \in [Threads -> Seq(WorkOps)] /\ code[t] \in Seq(WorkOps) /\ "ui" \in Threads /\ "sim" \in Threads
  BY DEF RunInv, Threads
<1>2. code' \in [Threads -> Seq(WorkOps)] /\ \A u \in Threads : u # t => code'[u] = code[u]
  BY <1>1, ThenOps DEF Then
<1>3. Idle'
  BY <1>1, <1>2 DEF Idle, RunInv, Threads
<1>4. UiCalm'
  <2> SUFFICES ASSUME "step" \notin UserKeys PROVE code'["ui"] \in Seq(StateOps)
    BY DEF UiCalm
  <2>1. code["ui"] \in Seq(StateOps)
    BY DEF RunInv, UiCalm
  <2>2. CASE t = "ui"
    <3>1. ops \in Seq(StateOps) /\ StateOps \subseteq WorkOps /\ code[t] \in Seq(StateOps)
      BY <2>1, <2>2 DEF WorkOps
    <3> QED BY <1>1, <2>2, <3>1, ThenOps DEF Then
  <2> QED BY <1>1, <1>2, <2>1, <2>2 DEF Threads
<1> QED BY <1>2, <1>3, <1>4

\* Work on one operation keeps the invariant.
LEMMA WorkInv == ASSUME RunInv, NEW t \in Threads, Work(t) PROVE RunInv'
<1> DEFINE op == Head(code[t])
<1>1. code[t] # <<>> /\ UNCHANGED <<simAt, ui>>
  BY DEF Work
<1>2. op \in WorkOps /\ code[t] \in Seq(WorkOps)
  BY <1>1, HeadOps DEF RunInv
<1>3. <<>> \in Seq(StateOps) /\ <<>> \in Seq(WorkOps)
  BY ShortSeqs
<1>4. t = "ui" /\ "step" \notin UserKeys => op \in StateOps
  BY <1>1, HeadOps DEF RunInv, UiCalm
<1>5. RunTypeOK
  BY DEF RunInv
<1> HIDE DEF op
<1>6. CASE DoStore(t, op)
  <2>1. RunTypeOK'
    <3>1. op.do = "es" => op.arg \in States
      BY <1>2 DEF WorkOps, StateOps, Flags, Cycle, CycleEnd
    <3>2. op.do \in {"running", "shutdown", "reboot", "paused"} => op.arg \in BOOLEAN
      BY <1>2 DEF WorkOps, StateOps, Flags, Cycle, CycleEnd
    <3> QED BY <1>1, <1>5, <1>6, <3>1, <3>2 DEF DoStore, RunTypeOK, States
  <2>2. Then(t, <<>>)
    BY <1>6 DEF DoStore
  <2> QED BY <1>1, <1>3, <2>1, <2>2, ThenInv DEF RunInv
<1>7. CASE DoSetPaused(t, op) \/ DoTestPaused(t, op)
  <2>1. RunTypeOK'
    BY <1>1, <1>5, <1>7 DEF DoSetPaused, DoTestPaused, RunTypeOK, shared
  <2>2. op.arg \in BOOLEAN
    BY <1>2, <1>7 DEF DoSetPaused, DoTestPaused, WorkOps, StateOps, Flags, Cycle, CycleEnd
  <2> DEFINE test   == <<TestPaused(op.arg)>>
             stores == <<Store("paused", op.arg), Store("es", IF op.arg THEN "Paused" ELSE "Running")>>
  <2>3. /\ TestPaused(op.arg) \in StateOps
        /\ Store("paused", op.arg) \in StateOps /\ Store("es", IF op.arg THEN "Paused" ELSE "Running") \in StateOps
    BY <2>2, OpsOf DEF Flags, States
  <2>4. test \in Seq(StateOps) /\ stores \in Seq(StateOps)
    BY <2>3, ShortSeqs, Zenon
  <2>5. \E ops \in {<<>>, test, stores} : Then(t, ops)
    BY <1>7, Zenon DEF DoSetPaused, DoTestPaused
  <2> HIDE DEF test, stores
  <2>6. PICK ops \in {<<>>, test, stores} : Then(t, ops)
    BY <2>5
  <2>7. ops \in Seq(StateOps) /\ ops \in Seq(WorkOps)
    BY <1>3, <2>4, StateOpsWiden
  <2> QED BY <1>1, <2>1, <2>6, <2>7, ThenInv DEF RunInv
<1>8. CASE DoCycle(t, op)
  <2>1. PICK o \in Outcomes : \E ops \in OutcomeCode(o) : Then(t, ops)
    BY <1>8 DEF DoCycle
  <2>2. PICK ops \in OutcomeCode(o) : Then(t, ops)
    BY <2>1
  <2>3. ops \in Seq(StateOps) /\ ops \in Seq(WorkOps)
    BY <2>2, OutcomeOps, StateOpsWiden, RunAssumption
  <2>4. RunTypeOK'
    BY <1>1, <1>5, <1>8, RunAssumption DEF DoCycle, RunTypeOK, shared
  <2> QED BY <1>1, <2>2, <2>3, <2>4, ThenInv DEF RunInv
<1>9. CASE DoEnd(t, op)
  <2>1. RunTypeOK' /\ Then(t, <<>>)
    BY <1>1, <1>5, <1>9 DEF DoEnd, RunTypeOK, shared
  <2> QED BY <1>1, <1>3, <2>1, ThenInv DEF RunInv
<1>10. CASE DoUpdate(t, op)
  <2>1. op.arg \in Nat
    BY <1>2, <1>10 DEF DoUpdate, WorkOps, StateOps, Flags, Cycle, CycleEnd
  <2>2. CASE op.arg = 0 /\ Then(t, <<>>) /\ UNCHANGED undo_depth
    <3>1. RunTypeOK'
      BY <1>1, <1>5, <1>10, <2>2 DEF DoUpdate, RunTypeOK, shared
    <3> QED BY <1>1, <1>3, <2>2, <3>1, ThenInv DEF RunInv
  <2> DEFINE rest == <<Update(op.arg - 1)>>
  <2>3. op.arg > 0 => rest \in Seq(StateOps)
    BY <2>1, OpsOf, ShortSeqs
  <2>4. ASSUME op.arg > 0, NEW k \in UserKeys, NEW ops \in KeyCode(k), Routed(k),
               Then(t, ops \o IF Returns(k) THEN <<>> ELSE rest),
               undo_depth' = IF k = "back" THEN undo_depth - 1 ELSE undo_depth
        PROVE  RunInv'
    <3> DEFINE more == IF Returns(k) THEN <<>> ELSE rest
    <3>1. more \in Seq(StateOps)
      BY <1>3, <2>3, <2>4
    <3>2. k = "back" => undo_depth > 0
      <4>1. ASSUME k = "back" PROVE Routed(k) = (paused /\ undo_depth > 0)
        BY <4>1, Zenon DEF Routed
      <4> QED BY <2>4, <4>1
    <3>3. RunTypeOK'
      BY <1>1, <1>5, <1>10, <2>4, <3>2, RunAssumption DEF DoUpdate, RunTypeOK, shared
    <3>4. ops \in Seq(StateOps) \/ (k = "step" /\ ops = OneCycle)
      BY <2>4, KeyOps, RunAssumption
    <3> HIDE DEF more
    <3>5. CASE ops \in Seq(StateOps)
      <4>1. ops \o more \in Seq(StateOps)
        BY <3>1, <3>5, ConcatProperties
      <4> QED BY <1>1, <2>4, <3>3, <4>1, StateOpsWiden, ThenInv DEF RunInv, more
    <3>6. CASE k = "step" /\ ops = OneCycle
      <4>1. ops \in Seq(WorkOps) /\ more \in Seq(WorkOps)
        BY <3>1, <3>6, ShortSeqs, StateOpsWiden DEF OneCycle, WorkOps
      <4>2. ops \o more \in Seq(WorkOps)
        BY <4>1, ConcatProperties
      <4> QED BY <1>1, <2>4, <3>3, <3>6, <4>2, ThenInv DEF RunInv, more
    <3> QED BY <3>4, <3>5, <3>6
  <2>5. CASE op.arg > 0 /\ Then(t, rest) /\ UNCHANGED undo_depth
    <3>1. RunTypeOK'
      BY <1>1, <1>5, <1>10, <2>5 DEF DoUpdate, RunTypeOK, shared
    <3>2. rest \in Seq(StateOps) /\ rest \in Seq(WorkOps)
      BY <2>3, <2>5, StateOpsWiden
    <3> HIDE DEF rest
    <3> QED BY <1>1, <2>5, <3>1, <3>2, ThenInv DEF RunInv
  <2> QED BY <1>10, <2>2, <2>4, <2>5 DEF DoUpdate
<1> QED BY <1>6, <1>7, <1>8, <1>9, <1>10 DEF Work, op

\* A burst of the sim thread is made of the operations.
LEMMA BurstOps == SimBurst \subseteq Seq(WorkOps)
<1> SUFFICES ASSUME NEW ops \in SimBurst PROVE ops \in Seq(WorkOps)
  OBVIOUS
<1>1. OneCycle \in Seq(WorkOps)
  BY ShortSeqs DEF OneCycle, WorkOps
<1>2. ASSUME NEW n \in 0..KeyMax
      PROVE  OneCycle \o <<Update(n)>> \in Seq(WorkOps) /\ OneCycle \o <<Store("running", FALSE), Update(n)>> \in Seq(WorkOps)
  <2>1. n \in Nat /\ "running" \in Flags
    BY RunAssumption DEF Flags
  <2>2. Store("running", FALSE) \in WorkOps /\ Update(n) \in WorkOps
    BY <2>1, OpsOf, Zenon DEF WorkOps
  <2>3. <<Update(n)>> \in Seq(WorkOps) /\ <<Store("running", FALSE), Update(n)>> \in Seq(WorkOps)
    BY <2>2, ShortSeqs
  <2> QED BY <1>1, <2>3, ConcatProperties
<1>3. \/ ops = OneCycle
      \/ \E n \in 0..KeyMax : ops = OneCycle \o <<Update(n)>>
      \/ \E n \in 0..KeyMax : ops = OneCycle \o <<Store("running", FALSE), Update(n)>>
  BY DEF SimBurst
<1> QED BY <1>1, <1>2, <1>3

LEMMA RunInvStep == RunInv /\ [RunNext]_rcVars => RunInv'
<1> SUFFICES ASSUME RunInv, [RunNext]_rcVars PROVE RunInv'
  OBVIOUS
<1>1. CASE SimTestRunning
  BY <1>1 DEF SimTestRunning, RunInv, RunTypeOK, Idle, UiCalm, shared
<1>2. CASE SimTestStopped
  BY <1>2 DEF SimTestStopped, RunInv, RunTypeOK, Idle, UiCalm, shared
<1>3. CASE SimTestPaused
  <2>1. CASE paused
    BY <1>3, <2>1 DEF SimTestPaused, RunInv, RunTypeOK, Idle, UiCalm, shared
  <2>2. CASE ~paused
    <3>1. PICK ops \in SimBurst : code' = [code EXCEPT !["sim"] = ops]
      BY <1>3, <2>2 DEF SimTestPaused
    <3>2. ops \in Seq(WorkOps)
      BY BurstOps
    <3>3. code' \in [Threads -> Seq(WorkOps)] /\ code'["ui"] = code["ui"]
      BY <3>1, <3>2 DEF RunInv, Threads
    <3> QED BY <1>3, <2>2, <3>3 DEF SimTestPaused, RunInv, RunTypeOK, Idle, UiCalm, shared
  <2> QED BY <2>1, <2>2
<1>4. CASE SimWake
  BY <1>4 DEF SimWake, RunInv, RunTypeOK, Idle, UiCalm, shared
<1>5. CASE UiFrame
  <2>1. CASE running
    <3>1. PICK n \in 0..KeyMax : code' = [code EXCEPT !["ui"] = <<Update(n)>>]
      BY <1>5, <2>1 DEF UiFrame
    <3>2. Update(n) \in StateOps
      BY OpsOf, RunAssumption
    <3>3. <<Update(n)>> \in Seq(StateOps) /\ <<Update(n)>> \in Seq(WorkOps)
      BY <3>2, ShortSeqs DEF WorkOps
    <3>4. code' \in [Threads -> Seq(WorkOps)] /\ code'["sim"] = code["sim"] /\ code'["ui"] \in Seq(StateOps)
      BY <3>1, <3>3 DEF RunInv, Threads
    <3> QED BY <1>5, <2>1, <3>4 DEF UiFrame, RunInv, RunTypeOK, Idle, UiCalm, shared
  <2>2. CASE ~running
    BY <1>5, <2>2 DEF UiFrame, RunInv, RunTypeOK, Idle, UiCalm, shared
  <2> QED BY <2>1, <2>2
<1>6. CASE UiJoin
  <2>1. CASE reboot
    <3>1. <<>> \in Seq(WorkOps) /\ <<>> \in Seq(StateOps)
      BY ShortSeqs
    <3>2. code' \in [Threads -> Seq(WorkOps)] /\ code'["ui"] = <<>> /\ code'["sim"] = <<>>
      BY <1>6, <2>1, <3>1 DEF UiJoin, Fresh, Threads
    <3>3. 0 \in 0..RunUndoMax
      BY RunAssumption
    <3>4. RunTypeOK'
      BY <1>6, <2>1, <3>3, Zenon DEF UiJoin, Fresh, RunTypeOK
    <3> QED BY <3>1, <3>2, <3>4 DEF RunInv, Idle, UiCalm
  <2>2. CASE ~reboot
    BY <1>6, <2>2 DEF UiJoin, RunInv, RunTypeOK, Idle, UiCalm, shared
  <2> QED BY <2>1, <2>2
<1>7. CASE UNCHANGED rcVars
  BY <1>7 DEF rcVars, RunInv, RunTypeOK, Idle, UiCalm
<1>8. ASSUME NEW t \in Threads, Work(t) PROVE RunInv'
  BY <1>8, WorkInv
<1> QED
  BY <1>1, <1>2, <1>3, <1>4, <1>5, <1>6, <1>7, <1>8
  DEF RunNext, SimThread, UiThread, SimLoop, UiLoop, Exited, Threads

\* Without the Step key the processor has one owner: a Step is the only reason for the run
\* run_owner to find it in two hands.
THEOREM OwnedWithoutStep ==
  ASSUME "step" \notin UserKeys
  PROVE  RunSpec => []CpuOwned
<1>1. RunInv => CpuOwned
  <2> SUFFICES ASSUME RunInv PROVE ~InCycle("ui")
    BY DEF CpuOwned
  <2>1. code["ui"] \in Seq(StateOps)
    BY DEF RunInv, UiCalm
  <2> QED BY <2>1, NoCycleEnd DEF InCycle
<1> QED BY <1>1, RunInvInit, RunInvStep, PTL DEF RunSpec

-----------------------------------------------------------------------------
(* The machine *)

LEMMA PartInit == McInit => RouterInit /\ UartInit /\ VqInit /\ RunInit
  BY DEF McInit

LEMMA PartStep == [McNext]_mcVars =>
    [RouterNext]_routerVars /\ [UartNext]_uartVars /\ [VqNext]_vqVars /\ [RunNext]_rcVars
<1> SUFFICES ASSUME [McNext]_mcVars
             PROVE  [RouterNext]_routerVars /\ [UartNext]_uartVars /\ [VqNext]_vqVars /\ [RunNext]_rcVars
  OBVIOUS
<1>1. CASE OnBus(RouterNext)
  BY <1>1, Zenon DEF OnBus
<1>2. CASE OnUart(UartNext)
  BY <1>2, Zenon DEF OnUart
<1>3. CASE OnVirtio(VqNext)
  BY <1>3, Zenon DEF OnVirtio
<1>4. CASE OnThreads(RunNext)
  BY <1>4, Zenon DEF OnThreads
<1>5. CASE UNCHANGED <<routerVars, uartVars, vqVars, rcVars>>
  BY <1>5, Zenon
<1>6. (\/ \E ins \in Program :
            OnPath(ins \in ProgramOf[focus] /\ dcache.tick < Ticks[focus] /\ icache.tick < Ticks[focus]
                   /\ (run_cycle(ins) \/ run_cycle_baremetal(ins)))
       \/ OnPath(flush_caches)
       \/ OnPath(focus = "fetch" /\ write_satp)
       \/ \E w \in Behind : OnPath(memory_write(w[1], w[2]))
       \/ \E fast \in BOOLEAN, tracking \in BOOLEAN : OnPath(tracking = (focus = "undo") /\ submit(fast, tracking))
       \/ OnPath(perform_backstep)) => UNCHANGED <<routerVars, uartVars, vqVars, rcVars>>
  BY Zenon DEF OnPath
<1>7. UNCHANGED mcVars => UNCHANGED <<routerVars, uartVars, vqVars, rcVars>>
  BY Zenon DEF mcVars
<1> QED BY <1>1, <1>2, <1>3, <1>4, <1>5, <1>6, <1>7, Zenon DEF McNext

LEMMA PartsWork == McSpec => RouterSpec /\ UartSpec /\ VqSpec /\ RunSpec
  BY PartInit, PartStep, PTL DEF McSpec, RouterSpec, UartSpec, VqSpec, RunSpec

\* The machine's type invariant: in every reachable state the FIFO is within its bound, the indices
\* of the rings within their widths, every request in guest memory one, the flags of the run
\* loop flags and the undo stack within its capacity.
THEOREM MachineTyped == McSpec => []MachineTypes
<1>1. UartSpec => []UartTypeOK
  BY UartCorrect, PTL
<1>2. VqSpec => []VqTypeOK
  <2>1. VqInv => VqTypeOK
    BY DEF VqInv
  <2> QED BY <2>1, VqInvInit, VqInvStep, PTL DEF VqSpec
<1>3. RunSpec => []RunTypeOK
  <2>1. RunInv => RunTypeOK
    BY DEF RunInv
  <2> QED BY <2>1, RunInvInit, RunInvStep, PTL DEF RunSpec
<1> QED BY <1>1, <1>2, <1>3, PartsWork, PTL DEF MachineTypes
=============================================================================
