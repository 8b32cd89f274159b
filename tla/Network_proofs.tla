-------------------------- MODULE Network_proofs --------------------------
(****************************************************************************)
(* What holds of the whole network stack, for any rings, any cache and any  *)
(* traffic: the driver's rings stay in step, Resolve returns what was       *)
(* announced, and answers go only to those who asked.  The driver's two     *)
(* rings come first: the invariant of the receive ring and that of the send *)
(* ring are separate, for no step moves both.                               *)
(****************************************************************************)
EXTENDS Network, FiniteSetTheorems, TLAPS

----------------------------------------------------------------------------
\* Arithmetic of a ring.

\* Division with remainder.
LEMMA DivMod ==
  ASSUME NEW n \in Nat
  PROVE  /\ n % NumBuffers \in Buffers
         /\ n \div NumBuffers \in Nat
         /\ n = NumBuffers * (n \div NumBuffers) + (n % NumBuffers)
<1>1. n % NumBuffers \in Buffers
  BY RingAssumption DEF Buffers
<1>2. n \div NumBuffers \in Nat
  BY RingAssumption
<1>3. n = NumBuffers * (n \div NumBuffers) + (n % NumBuffers)
  BY RingAssumption
<1> QED
  BY <1>1, <1>2, <1>3, Zenon

\* Multiples of NumBuffers are at least NumBuffers apart.
LEMMA Multiples ==
  ASSUME NEW p \in Int, NEW q \in Int, p < q
  PROVE  NumBuffers * p + NumBuffers <= NumBuffers * q
<1>1. q >= p + 1
  OBVIOUS
<1>2. NumBuffers * (p + 1) <= NumBuffers * q
  BY <1>1, RingAssumption
<1>3. NumBuffers * (p + 1) = NumBuffers * p + NumBuffers
  BY RingAssumption
<1> QED
  BY <1>2, <1>3, RingAssumption

\* A number has one quotient and one remainder.
LEMMA Unique ==
  ASSUME NEW q \in Int, NEW r \in Buffers, NEW p \in Int, NEW s \in Buffers,
         NumBuffers * q + r = NumBuffers * p + s
  PROVE  r = s
<1>0. NumBuffers * q \in Int /\ NumBuffers * p \in Int
  BY RingAssumption
<1>1. ~(p < q)
  <2> SUFFICES ASSUME p < q PROVE FALSE
    OBVIOUS
  <2>1. NumBuffers * p + NumBuffers <= NumBuffers * q
    BY Multiples
  <2> QED
    BY <2>1, <1>0, RingAssumption DEF Buffers
<1>2. ~(q < p)
  <2> SUFFICES ASSUME q < p PROVE FALSE
    OBVIOUS
  <2>1. NumBuffers * q + NumBuffers <= NumBuffers * p
    BY Multiples
  <2> QED
    BY <2>1, <1>0, RingAssumption DEF Buffers
<1>3. q = p
  BY <1>1, <1>2
<1> QED
  BY <1>3, <1>0, RingAssumption DEF Buffers

LEMMA Remainder ==
  ASSUME NEW n \in Nat, NEW q \in Int, NEW r \in Buffers,
         n = NumBuffers * q + r
  PROVE  n % NumBuffers = r
<1>1. /\ n % NumBuffers \in Buffers
      /\ n \div NumBuffers \in Int
      /\ NumBuffers * (n \div NumBuffers) + (n % NumBuffers) = NumBuffers * q + r
  BY DivMod
<1> QED
  BY <1>1, Unique, Zenon

LEMMA SlotType ==
  ASSUME NEW n \in Nat
  PROVE  Slot(n) \in Buffers
BY DivMod DEF Slot

LEMMA AfterType ==
  ASSUME NEW i \in Buffers
  PROVE  After(i) \in Buffers
BY RingAssumption DEF After, Buffers

\* The ring begins with its first descriptor.
LEMMA SlotZero ==
  0 \in Buffers /\ Slot(0) = 0
<1>1. 0 \in Buffers
  BY RingAssumption DEF Buffers
<1>2. 0 = NumBuffers * 0 + 0
  BY RingAssumption
<1> QED
  BY <1>1, <1>2, Remainder DEF Slot

\* Moving an index on moves on to the slot of the next frame.
LEMMA SlotAfter ==
  ASSUME NEW n \in Nat
  PROVE  Slot(n + 1) = After(Slot(n))
<1> DEFINE q == n \div NumBuffers
           r == n % NumBuffers
<1>1. r \in Buffers /\ q \in Nat /\ n = NumBuffers * q + r
  BY DivMod, Zenon
<1> HIDE DEF q, r
<1>0. NumBuffers * q \in Int
  BY <1>1, RingAssumption
<1>2. CASE r + 1 < NumBuffers
  <2>0. r + 1 \in Buffers
    BY <1>1, <1>2, RingAssumption DEF Buffers
  <2>1. (n + 1) % NumBuffers = r + 1
    <3>1. n + 1 = NumBuffers * q + (r + 1)
      BY <1>0, <1>1, RingAssumption DEF Buffers
    <3> QED
      BY <3>1, <2>0, <1>1, Remainder
  <2>2. (r + 1) % NumBuffers = r + 1
    <3>1. r + 1 = NumBuffers * 0 + (r + 1)
      BY <2>0, RingAssumption DEF Buffers
    <3> QED
      BY <3>1, <2>0, Remainder DEF Buffers
  <2> QED
    BY <2>1, <2>2 DEF r, Slot, After
<1>3. CASE ~(r + 1 < NumBuffers)
  <2>0. r + 1 = NumBuffers
    BY <1>1, <1>3, RingAssumption DEF Buffers
  <2>1. (n + 1) % NumBuffers = 0
    <3>1. NumBuffers * (q + 1) = NumBuffers * q + NumBuffers
      BY <1>1, RingAssumption
    <3>2. n + 1 = NumBuffers * (q + 1) + 0
      BY <3>1, <2>0, <1>0, <1>1, RingAssumption DEF Buffers
    <3> QED
      BY <3>2, <1>1, SlotZero, Remainder
  <2>2. (r + 1) % NumBuffers = 0
    <3>1. r + 1 = NumBuffers * 1 + 0
      BY <2>0, RingAssumption
    <3> QED
      BY <3>1, <1>1, SlotZero, Remainder DEF Buffers
  <2> QED
    BY <2>1, <2>2 DEF r, Slot, After
<1> QED
  BY <1>2, <1>3

\* Fewer than NumBuffers frames apart, two frames have slots of their own.
LEMMA SlotsApart ==
  ASSUME NEW a \in Nat, NEW b \in Nat, a < b, b < a + NumBuffers
  PROVE  Slot(a) # Slot(b)
<1> SUFFICES ASSUME a % NumBuffers = b % NumBuffers PROVE FALSE
  BY DEF Slot
<1> DEFINE p == a \div NumBuffers
           q == b \div NumBuffers
           r == a % NumBuffers
<1>1. r \in Buffers /\ p \in Nat /\ a = NumBuffers * p + r
  BY DivMod, Zenon
<1>2. r \in Buffers /\ q \in Nat /\ b = NumBuffers * q + r
  BY DivMod, Zenon
<1> HIDE DEF p, q, r
<1>0. NumBuffers * q \in Int /\ NumBuffers * p \in Int
  BY RingAssumption, <1>1, <1>2
<1>3. NumBuffers * p < NumBuffers * q
  BY <1>0, <1>1, <1>2, RingAssumption DEF Buffers
<1>4. p < q
  <2> SUFFICES ASSUME ~(p < q) PROVE FALSE
    OBVIOUS
  <2>1. CASE p = q
    BY <2>1, <1>3, <1>0
  <2>2. CASE q < p
    <3>1. NumBuffers * q + NumBuffers <= NumBuffers * p
      BY <2>2, <1>1, <1>2, Multiples
    <3> QED
      BY <3>1, <1>3, <1>0, RingAssumption
  <2> QED
    BY <2>1, <2>2, <1>1, <1>2
<1>5. NumBuffers * p + NumBuffers <= NumBuffers * q
  BY <1>4, <1>1, <1>2, Multiples
<1> QED
  BY <1>5, <1>0, <1>1, <1>2, RingAssumption DEF Buffers

\* NumBuffers frames on, the ring is back at the same slot.
LEMMA SlotOnceRound ==
  ASSUME NEW n \in Nat
  PROVE  Slot(n + NumBuffers) = Slot(n)
<1> DEFINE q == n \div NumBuffers
           r == n % NumBuffers
<1>1. r \in Buffers /\ q \in Nat /\ n = NumBuffers * q + r
  BY DivMod, Zenon
<1> HIDE DEF q, r
<1>0. NumBuffers * q \in Int /\ NumBuffers * (q + 1) = NumBuffers * q + NumBuffers
  BY <1>1, RingAssumption
<1>2. n + NumBuffers = NumBuffers * (q + 1) + r
  BY <1>0, <1>1, RingAssumption DEF Buffers
<1>3. n + NumBuffers \in Nat
  BY RingAssumption
<1>4. (n + NumBuffers) % NumBuffers = r
  BY <1>1, <1>2, <1>3, Remainder
<1> QED
  BY <1>4 DEF r, Slot

----------------------------------------------------------------------------
\* The inductive invariant.

Causes == {"IDON", "RINT", "TINT", "MISS"}
HandlerPcs == {"idle", "receive", "send", "publish", "giveBack", "ack"}
SenderPcs == {"idle", "load", "store", "copy", "publish"}

\* The elements of a log, whatever they are.
Entries(s) == {s[n] : n \in DOMAIN s}

RxTyped ==
  /\ rx \in [Buffers -> Descriptor]
  /\ currentRecvBuffer \in Buffers /\ rxDevice \in Buffers
  /\ stored \in Seq(Entries(stored)) /\ taken \in Nat

TxTyped ==
  /\ tx \in [Buffers -> [own : {"device", "host"}]]
  /\ currentSendBuffer \in Buffers /\ txDevice \in Buffers
  /\ wire \in Seq(Entries(wire)) /\ published \in Nat
  /\ spoiled \in BOOLEAN

ControlTyped ==
  /\ csr0 \subseteq Causes
  /\ irq \in [pc : HandlerPcs, temp : SUBSET Causes, descriptor : Buffers]
  /\ sending \in [pc : SenderPcs, descriptor : Buffers, loaded : Buffers,
                  frame : {sending.frame}]

Typed == RxTyped /\ TxTyped /\ ControlTyped

\* Receive is looking at a good frame of the host.
Looking == irq.pc \in {"send", "publish", "giveBack"}

RxInv ==
  /\ \A i \in Buffers : rx[i].own = "device" => rx[i].ok
  /\ Looking => rx[currentRecvBuffer].own = "host" /\ rx[currentRecvBuffer].ok
  /\ ReceiveInStep

\* Frames handed to the card or about to be.
Handed == published + Claimed

DeviceOwned == {i \in Buffers : tx[i].own = "device"}

\* What the main program's call of Send knows of its descriptor.
SenderInStep ==
  sending.pc # "idle" =>
    /\ sending.pc \in {"load", "store"} => irq.pc # "publish"
    /\ sending.pc = "store" => sending.loaded = currentSendBuffer
    /\ \E m \in Len(wire) .. (Handed - 1) :
         /\ sending.descriptor = Slot(m)
         /\ irq.pc = "publish" => m < Handed - 1

\* The card owns what was published and not transmitted: all from the first
\* not transmitted up to Handed, but for the descriptors being filled.
OwnedInStep ==
  \A i \in Buffers :
    tx[i].own = "device" <=>
      /\ \E n \in Len(wire) .. (Handed - 1) : Slot(n) = i
      /\ ~(irq.pc = "publish" /\ irq.descriptor = i)
      /\ ~(sending.pc # "idle" /\ sending.descriptor = i)

NextToSend ==
  IF sending.pc \in {"load", "store"} THEN Handed - 1 ELSE Handed

TxInStep ==
  /\ Len(wire) <= published /\ Handed - Len(wire) <= NumBuffers
  /\ currentSendBuffer = Slot(NextToSend)
  /\ txDevice = Slot(Len(wire))
  /\ irq.pc = "publish" => irq.descriptor = Slot(Handed - 1)
  /\ SenderInStep
  /\ OwnedInStep
  /\ Cardinality(DeviceOwned) = published - Len(wire)

TxInv == ~spoiled => TxInStep

DriverInv == Typed /\ RxInv /\ TxInv

----------------------------------------------------------------------------
\* Every step of the driver and of the card.
DriverNext ==
  \/ \E f : \E ok \in BOOLEAN : DeviceReceive(f, ok)
  \/ DeviceMiss \/ DeviceTransmit
  \/ Handler
  \/ \E a : \E sendBack \in BOOLEAN : ReceiveFrame(sendBack, a)
  \/ \E f : SendCall(f)
  \/ Sender

\* A log stays a log.
LEMMA Appended ==
  ASSUME NEW s, s \in Seq(Entries(s)), NEW e
  PROVE  /\ Append(s, e) \in Seq(Entries(Append(s, e)))
         /\ Len(Append(s, e)) = Len(s) + 1
<1> DEFINE S == Entries(s) \cup {e}
           t == Append(s, e)
<1>1. s \in Seq(S) /\ e \in S
  <2>1. Entries(s) \subseteq S
    OBVIOUS
  <2> QED
    BY <2>1
<1>2. t \in Seq(S) /\ Len(t) = Len(s) + 1 /\ DOMAIN t = 1 .. Len(t)
  BY <1>1
<1> HIDE DEF S, t
<1>3. t \in [1 .. Len(t) -> Entries(t)] /\ Len(t) \in Nat
  BY <1>2 DEF Entries
<1>4. t \in Seq(Entries(t))
  BY <1>3
<1> QED
  BY <1>2, <1>4 DEF t

LEMMA TypedInit ==
  ASSUME InitDriver
  PROVE  Typed
<1>1. <<>> \in Seq(Entries(<<>>))
  OBVIOUS
<1> QED
  BY <1>1, SlotZero
     DEF InitDriver, Typed, RxTyped, TxTyped, ControlTyped, Descriptor, Causes,
         HandlerPcs, SenderPcs

LEMMA TypedStep ==
  ASSUME Typed, DriverNext
  PROVE  Typed'
<1> USE DEF Typed, RxTyped, TxTyped, ControlTyped, Descriptor, Causes,
            HandlerPcs, SenderPcs, rxVars, txVars
<1>1. ASSUME NEW f, NEW ok \in BOOLEAN, DeviceReceive(f, ok) PROVE Typed'
  <2>1. RxTyped'
    BY <1>1, Appended, AfterType DEF DeviceReceive
  <2> QED
    BY <2>1, <1>1 DEF DeviceReceive
<1>2. CASE DeviceMiss
  BY <1>2 DEF DeviceMiss
<1>3. CASE DeviceTransmit
  <2>1. TxTyped'
    BY <1>3, Appended, AfterType DEF DeviceTransmit
  <2> QED
    BY <2>1, <1>3 DEF DeviceTransmit
<1>4. CASE HandleInterrupt
  BY <1>4 DEF HandleInterrupt
<1>5. CASE ReceiveEnd
  BY <1>5 DEF ReceiveEnd
<1>6. CASE ReceiveSkip
  <2>1. taken' \in Nat
    BY <1>6 DEF ReceiveSkip
  <2> QED
    BY <2>1, <1>6, AfterType DEF ReceiveSkip
<1>7. ASSUME NEW a, NEW sendBack \in BOOLEAN, ReceiveFrame(sendBack, a)
      PROVE  Typed'
  BY <1>7 DEF ReceiveFrame
<1>8. CASE HandlerSend
  BY <1>8, AfterType DEF HandlerSend
<1>9. CASE HandlerPublish
  <2>1. RxTyped'
    BY <1>9 DEF HandlerPublish
  <2>2. TxTyped'
    BY <1>9 DEF HandlerPublish
  <2>3. ControlTyped'
    BY <1>9 DEF HandlerPublish
  <2> QED
    BY <2>1, <2>2, <2>3
<1>10. CASE GiveBack
  <2>1. RxTyped'
    BY <1>10, AfterType DEF GiveBack
  <2>2. TxTyped'
    BY <1>10 DEF GiveBack
  <2>3. ControlTyped'
    BY <1>10 DEF GiveBack
  <2> QED
    BY <2>1, <2>2, <2>3
<1>11. CASE Acknowledge
  BY <1>11, SlotZero DEF Acknowledge
<1>12. ASSUME NEW f, SendCall(f) PROVE Typed'
  BY <1>12, SlotZero DEF SendCall
<1>13. CASE SendLoad
  BY <1>13 DEF SendLoad
<1>14. CASE SendStore
  BY <1>14, AfterType DEF SendStore
<1>15. CASE SendCopy
  BY <1>15 DEF SendCopy
<1>16. CASE SendPublish
  BY <1>16, SlotZero DEF SendPublish
<1> QED
  BY <1>1, <1>2, <1>3, <1>4, <1>5, <1>6, <1>7, <1>8, <1>9, <1>10, <1>11,
     <1>12, <1>13, <1>14, <1>15, <1>16
     DEF DriverNext, Handler, Sender

----------------------------------------------------------------------------
\* The receive ring.

LEMMA RxInit ==
  ASSUME InitDriver
  PROVE  RxInv
BY SlotZero, RingAssumption
   DEF InitDriver, RxInv, Looking, ReceiveInStep, NoBadFrame

\* What does not touch the ring does not disturb it, unless the handler
\* begins to look at a frame.
LEMMA RxFrame ==
  ASSUME RxInv, Looking' => Looking,
         UNCHANGED <<rx, currentRecvBuffer, rxDevice, stored, taken>>
  PROVE  RxInv'
BY DEF RxInv, Looking, ReceiveInStep, NoBadFrame

\* The card stores a frame.
LEMMA RxDeviceReceive ==
  ASSUME Typed, RxInv, NEW f, NEW ok \in BOOLEAN, DeviceReceive(f, ok)
  PROVE  RxInv'
<1> USE DEF Typed, RxTyped, Descriptor
<1>1. \A i \in Buffers : rx'[i].own = "device" => rx'[i].ok
  BY DEF DeviceReceive, RxInv
<1>2. Looking' => /\ rx'[currentRecvBuffer'].own = "host"
                  /\ rx'[currentRecvBuffer'].ok
  BY DEF DeviceReceive, RxInv, Looking
<1>3. ASSUME NoBadFrame' PROVE ReceiveInStep'
  <2> DEFINE n == Len(stored)
  <2>0. n \in Nat /\ Len(stored') = n + 1
    BY Appended DEF DeviceReceive
  <2>1. NoBadFrame
    BY <1>3 DEF NoBadFrame, DeviceReceive, RxInv
  <2>2. /\ rxDevice = Slot(n) /\ currentRecvBuffer = Slot(taken)
        /\ taken <= n /\ n - taken <= NumBuffers
        /\ \A i \in Buffers :
             rx[i].own = "host" <=> \E k \in taken .. (n - 1) : Slot(k) = i
    BY <2>1 DEF RxInv, ReceiveInStep
  <2> HIDE DEF n
  <2>3. n - taken # NumBuffers
    <3> SUFFICES ASSUME n = taken + NumBuffers PROVE FALSE
      BY <2>0, RingAssumption
    <3>1. Slot(n) = Slot(taken)
      BY SlotOnceRound
    <3>2. taken \in taken .. (n - 1)
      BY RingAssumption
    <3>3. rx[rxDevice].own = "host"
      BY <2>2, <3>1, <3>2
    <3> QED
      BY <3>3 DEF DeviceReceive
  <2>4. rxDevice' = Slot(n + 1)
    BY <2>0, <2>2, SlotAfter DEF DeviceReceive
  <2>5. ASSUME NEW i \in Buffers
        PROVE  rx'[i].own = "host" <=> \E k \in taken .. n : Slot(k) = i
    <3>1. CASE i = rxDevice
      <4>1. rx'[i].own = "host"
        BY <3>1 DEF DeviceReceive
      <4>2. n \in taken .. n /\ Slot(n) = i
        BY <2>0, <2>2, <3>1
      <4> QED
        BY <4>1, <4>2
    <3>2. CASE i # rxDevice
      <4>1. rx'[i] = rx[i]
        BY <3>2 DEF DeviceReceive
      <4>2. \A k \in taken .. n : Slot(k) = i => k \in taken .. (n - 1)
        BY <2>0, <2>2, <3>2
      <4>3. \A k \in taken .. (n - 1) : k \in taken .. n
        BY <2>0
      <4> QED
        BY <4>1, <4>2, <4>3, <2>2
    <3> QED
      BY <3>1, <3>2
  <2>6. taken' = taken /\ currentRecvBuffer' = currentRecvBuffer
    BY DEF DeviceReceive
  <2>7. taken <= n + 1 /\ (n + 1) - taken <= NumBuffers
    BY <2>0, <2>2, <2>3, RingAssumption
  <2>8. (n + 1) - 1 = n
    BY <2>0
  <2> QED
    BY <2>0, <2>2, <2>4, <2>5, <2>6, <2>7, <2>8 DEF ReceiveInStep
<1> QED
  BY <1>1, <1>2, <1>3 DEF RxInv, ReceiveInStep

\* The handler gives a descriptor back.
LEMMA RxGiveBack ==
  ASSUME Typed, RxInv, GiveBack
  PROVE  RxInv'
<1> USE DEF Typed, RxTyped, Descriptor
<1>1. \A i \in Buffers : rx'[i].own = "device" => rx'[i].ok
  BY DEF GiveBack, RxInv
<1>2. ~Looking'
  BY DEF GiveBack, Looking, ControlTyped
<1>3. ASSUME NoBadFrame' PROVE ReceiveInStep'
  <2> DEFINE n == Len(stored)
  <2>0. n \in Nat /\ stored' = stored /\ rxDevice' = rxDevice
    BY DEF GiveBack
  <2>1. NoBadFrame /\ rx[currentRecvBuffer].own = "host"
    BY <1>3 DEF NoBadFrame, GiveBack, RxInv, Looking
  <2>2. /\ rxDevice = Slot(n) /\ currentRecvBuffer = Slot(taken)
        /\ taken <= n /\ n - taken <= NumBuffers
        /\ \A i \in Buffers :
             rx[i].own = "host" <=> \E k \in taken .. (n - 1) : Slot(k) = i
    BY <2>1 DEF RxInv, ReceiveInStep
  <2> HIDE DEF n
  <2>3. taken + 1 <= n
    BY <2>0, <2>1, <2>2
  <2>4. currentRecvBuffer' = Slot(taken + 1) /\ taken' = taken + 1
    BY <2>2, SlotAfter DEF GiveBack
  <2>5. \A k \in (taken + 1) .. (n - 1) : Slot(k) # Slot(taken)
    BY <2>0, <2>2, SlotsApart, RingAssumption
  <2>6. ASSUME NEW i \in Buffers
        PROVE  rx'[i].own = "host"
                 <=> \E k \in (taken + 1) .. (n - 1) : Slot(k) = i
    <3>1. CASE i = currentRecvBuffer
      <4>1. rx'[i].own # "host"
        BY <3>1 DEF GiveBack
      <4> QED
        BY <4>1, <3>1, <2>2, <2>5
    <3>2. CASE i # currentRecvBuffer
      <4>1. rx'[i] = rx[i]
        BY <3>2 DEF GiveBack
      <4>2. \A k \in taken .. (n - 1) :
              Slot(k) = i => k \in (taken + 1) .. (n - 1)
        BY <2>0, <2>2, <3>2
      <4>3. \A k \in (taken + 1) .. (n - 1) : k \in taken .. (n - 1)
        BY <2>0
      <4> QED
        BY <4>1, <4>2, <4>3, <2>2
    <3> QED
      BY <3>1, <3>2
  <2>7. n - (taken + 1) <= NumBuffers
    BY <2>0, <2>2, RingAssumption
  <2> QED
    BY <2>0, <2>2, <2>3, <2>4, <2>6, <2>7 DEF ReceiveInStep, n
<1> QED
  BY <1>1, <1>2, <1>3 DEF RxInv, ReceiveInStep

LEMMA RxStep ==
  ASSUME Typed, RxInv, DriverNext
  PROVE  RxInv'
<1> USE DEF Typed, ControlTyped, rxVars, txVars, Looking
<1>1. ASSUME NEW f, NEW ok \in BOOLEAN, DeviceReceive(f, ok) PROVE RxInv'
  BY <1>1, RxDeviceReceive
<1>2. CASE DeviceMiss
  BY <1>2, RxFrame DEF DeviceMiss
<1>3. CASE DeviceTransmit
  BY <1>3, RxFrame DEF DeviceTransmit
<1>4. CASE HandleInterrupt
  BY <1>4, RxFrame DEF HandleInterrupt
<1>5. CASE ReceiveEnd
  BY <1>5, RxFrame DEF ReceiveEnd
<1>6. CASE ReceiveSkip
  BY <1>6 DEF ReceiveSkip, RxInv, ReceiveInStep, NoBadFrame, RxTyped
<1>7. ASSUME NEW a, NEW sendBack \in BOOLEAN, ReceiveFrame(sendBack, a)
      PROVE  RxInv'
  BY <1>7 DEF ReceiveFrame, RxInv, ReceiveInStep, NoBadFrame
<1>8. CASE HandlerSend
  BY <1>8, RxFrame DEF HandlerSend
<1>9. CASE HandlerPublish
  BY <1>9, RxFrame DEF HandlerPublish
<1>10. CASE GiveBack
  BY <1>10, RxGiveBack
<1>11. CASE Acknowledge
  BY <1>11, RxFrame DEF Acknowledge
<1>12. ASSUME NEW f, SendCall(f) PROVE RxInv'
  BY <1>12, RxFrame DEF SendCall
<1>13. CASE Sender
  BY <1>13, RxFrame DEF Sender, SendLoad, SendStore, SendCopy, SendPublish
<1> QED
  BY <1>1, <1>2, <1>3, <1>4, <1>5, <1>6, <1>7, <1>8, <1>9, <1>10, <1>11,
     <1>12, <1>13
     DEF DriverNext, Handler

----------------------------------------------------------------------------
\* The send ring.

LEMMA ClaimedType ==
  Claimed \in 0 .. 2
BY DEF Claimed

LEMMA DeviceOwnedFinite ==
  IsFiniteSet(DeviceOwned)
<1>1. IsFiniteSet(Buffers)
  BY FS_Interval, RingAssumption DEF Buffers
<1> QED
  BY <1>1, FS_Subset DEF DeviceOwned

LEMMA TxInit ==
  ASSUME InitDriver
  PROVE  TxInv
<1>1. DeviceOwned = {}
  BY DEF InitDriver, DeviceOwned
<1>2. Cardinality(DeviceOwned) = 0
  BY <1>1, FS_EmptySet
<1>3. Claimed = 0 /\ Handed = 0
  BY DEF InitDriver, Claimed, Handed
<1>4. Len(wire) = 0 /\ published = 0
  BY DEF InitDriver
<1>5. SenderInStep
  BY DEF InitDriver, SenderInStep
<1>6. OwnedInStep
  BY <1>3, <1>4 DEF InitDriver, OwnedInStep
<1>7. /\ currentSendBuffer = Slot(0) /\ txDevice = Slot(0)
      /\ irq.pc # "publish" /\ NextToSend = Handed
  BY SlotZero DEF InitDriver, NextToSend
<1> QED
  BY <1>2, <1>3, <1>4, <1>5, <1>6, <1>7, RingAssumption DEF TxInv, TxInStep

\* What does not touch the ring does not disturb it.
LEMMA TxFrame ==
  ASSUME TxInv, UNCHANGED sending,
         UNCHANGED <<tx, currentSendBuffer, txDevice, published, wire, spoiled>>,
         (irq'.pc = "publish") <=> (irq.pc = "publish"),
         irq.pc = "publish" => irq'.descriptor = irq.descriptor
  PROVE  TxInv'
<1>1. Handed' = Handed /\ NextToSend' = NextToSend /\ DeviceOwned' = DeviceOwned
  BY DEF Handed, Claimed, NextToSend, DeviceOwned
<1> QED
  BY <1>1 DEF TxInv, TxInStep, SenderInStep, OwnedInStep

\* The card takes the frame at its place in the ring.
LEMMA TxTransmit ==
  ASSUME Typed, TxInv, DeviceTransmit
  PROVE  TxInv'
<1> USE DEF Typed, TxTyped, ControlTyped
<1> DEFINE w == Len(wire)
<1> SUFFICES ASSUME ~spoiled PROVE TxInStep'
  BY DEF TxInv, DeviceTransmit, txVars
<1>0. TxInStep
  BY DEF TxInv
<1>1. w \in Nat /\ Len(wire') = w + 1
  BY Appended DEF DeviceTransmit
<1>2. /\ Handed' = Handed /\ NextToSend' = NextToSend
      /\ Handed \in published .. (published + 2)
  BY ClaimedType DEF DeviceTransmit, Handed, Claimed, NextToSend
<1> HIDE DEF w
<1>3. txDevice = Slot(w) /\ tx[txDevice].own = "device"
  BY <1>0 DEF TxInStep, DeviceTransmit, w
<1>4. /\ w < published /\ Cardinality(DeviceOwned') = published - (w + 1)
  <2>1. DeviceOwned' = DeviceOwned \ {txDevice} /\ txDevice \in DeviceOwned
    BY <1>3 DEF DeviceOwned, DeviceTransmit
  <2>2. /\ Cardinality(DeviceOwned') = Cardinality(DeviceOwned) - 1
        /\ Cardinality(DeviceOwned') \in Nat
    BY <2>1, DeviceOwnedFinite, FS_RemoveElement, FS_CardinalityType
  <2>3. Cardinality(DeviceOwned) = published - w
    BY <1>0 DEF TxInStep, w
  <2> QED
    BY <2>2, <2>3, <1>1
<1>5. txDevice' = Slot(w + 1)
  BY <1>1, <1>3, SlotAfter DEF DeviceTransmit
<1>6. Handed - w <= NumBuffers
  BY <1>0 DEF TxInStep, w
<1>7. \A n \in (w + 1) .. (Handed - 1) : Slot(n) # Slot(w)
  BY <1>1, <1>2, <1>6, SlotsApart, RingAssumption
<1>8. SenderInStep'
  <2> SUFFICES ASSUME sending.pc # "idle" PROVE SenderInStep'
    BY DEF SenderInStep, DeviceTransmit
  <2>1. PICK m \in w .. (Handed - 1) :
          /\ sending.descriptor = Slot(m)
          /\ irq.pc = "publish" => m < Handed - 1
    BY <1>0 DEF TxInStep, SenderInStep, w
  <2>2. sending.descriptor # txDevice
    BY <1>0, <1>3 DEF TxInStep, OwnedInStep
  <2>3. m \in (w + 1) .. (Handed - 1)
    BY <1>1, <1>2, <1>3, <2>1, <2>2
  <2>4. UNCHANGED <<sending, irq, currentSendBuffer>>
    BY DEF DeviceTransmit
  <2> QED
    BY <1>0, <1>1, <1>2, <2>1, <2>3, <2>4 DEF TxInStep, SenderInStep
<1>9. OwnedInStep'
  <2> SUFFICES ASSUME NEW i \in Buffers
        PROVE  tx'[i].own = "device" <=>
                 /\ \E n \in (w + 1) .. (Handed - 1) : Slot(n) = i
                 /\ ~(irq.pc = "publish" /\ irq.descriptor = i)
                 /\ ~(sending.pc # "idle" /\ sending.descriptor = i)
    BY <1>1, <1>2 DEF OwnedInStep, DeviceTransmit
  <2>1. CASE i = txDevice
    BY <2>1, <1>3, <1>7 DEF DeviceTransmit
  <2>2. CASE i # txDevice
    <3>1. tx'[i] = tx[i]
      BY <2>2 DEF DeviceTransmit
    <3>2. (\E n \in w .. (Handed - 1) : Slot(n) = i)
            <=> \E n \in (w + 1) .. (Handed - 1) : Slot(n) = i
      <4>1. \A n \in w .. (Handed - 1) :
              Slot(n) = i => n \in (w + 1) .. (Handed - 1)
        BY <1>1, <1>2, <1>3, <2>2
      <4>2. \A n \in (w + 1) .. (Handed - 1) : n \in w .. (Handed - 1)
        BY <1>1, <1>2
      <4> QED
        BY <4>1, <4>2
    <3> QED
      BY <1>0, <3>1, <3>2 DEF TxInStep, OwnedInStep, w
  <2> QED
    BY <2>1, <2>2
<1>10. /\ UNCHANGED <<irq, currentSendBuffer, published>>
       /\ irq.pc = "publish" => irq.descriptor = Slot(Handed - 1)
       /\ currentSendBuffer = Slot(NextToSend)
  BY <1>0 DEF TxInStep, DeviceTransmit
<1>11. w + 1 <= published /\ Handed - (w + 1) <= NumBuffers
  BY <1>1, <1>2, <1>4, <1>6, RingAssumption
<1> QED
  BY <1>1, <1>2, <1>4, <1>5, <1>8, <1>9, <1>10, <1>11 DEF TxInStep

\* A call of Send that finds room takes a descriptor no frame lies in.
LEMMA FreeSlot ==
  ASSUME Typed, TxInStep, ~RingFull, sending.pc \notin {"load", "store"}
  PROVE  /\ currentSendBuffer = Slot(Handed)
         /\ Handed \in published .. (published + 2)
         /\ Len(wire) <= Handed /\ Handed + 1 - Len(wire) <= NumBuffers
         /\ \A n \in Len(wire) .. (Handed - 1) : Slot(n) # Slot(Handed)
<1> USE DEF Typed, TxTyped
<1>1. Handed \in published .. (published + 2) /\ Len(wire) \in Nat
  BY ClaimedType DEF Handed
<1>2. Handed - Len(wire) < NumBuffers
  BY <1>1, ClaimedType, RingAssumption DEF RingFull, Handed
<1>3. \A n \in Len(wire) .. (Handed - 1) : Slot(n) # Slot(Handed)
  BY <1>1, <1>2, SlotsApart, RingAssumption
<1> QED
  BY <1>1, <1>2, <1>3, RingAssumption DEF TxInStep, NextToSend

\* The handler claims a descriptor for an answer.
LEMMA TxHandlerSend ==
  ASSUME Typed, TxInv, HandlerSend
  PROVE  TxInv'
<1> USE DEF Typed, TxTyped, ControlTyped
<1> DEFINE w == Len(wire)
<1> SUFFICES ASSUME ~spoiled' PROVE TxInStep'
  BY DEF TxInv
<1>0. ~spoiled /\ ~RingFull /\ sending.pc \notin {"load", "store"}
  BY DEF HandlerSend
<1>1. TxInStep
  BY <1>0 DEF TxInv
<1>2. /\ currentSendBuffer = Slot(Handed)
      /\ Handed \in published .. (published + 2)
      /\ w <= Handed /\ Handed + 1 - w <= NumBuffers
      /\ \A n \in w .. (Handed - 1) : Slot(n) # Slot(Handed)
  BY <1>0, <1>1, FreeSlot
<1>3. /\ UNCHANGED <<tx, txDevice, published, wire, sending>>
      /\ irq.pc = "send" /\ irq'.pc = "publish"
      /\ irq'.descriptor = currentSendBuffer
      /\ currentSendBuffer' = After(currentSendBuffer)
  BY DEF HandlerSend
<1>4. Handed' = Handed + 1 /\ w' = w /\ w \in Nat
  BY <1>3 DEF Handed, Claimed
<1>5. NextToSend' = Handed + 1 /\ currentSendBuffer' = Slot(Handed + 1)
  BY <1>0, <1>2, <1>3, <1>4, SlotAfter DEF NextToSend
<1> HIDE DEF w
<1>6. SenderInStep'
  <2> SUFFICES ASSUME sending.pc # "idle" PROVE SenderInStep'
    BY <1>3 DEF SenderInStep
  <2>1. PICK m \in w .. (Handed - 1) : sending.descriptor = Slot(m)
    BY <1>1 DEF TxInStep, SenderInStep, w
  <2>2. m \in w .. Handed /\ m < Handed
    BY <1>2, <1>4, <2>1
  <2>3. Handed' - 1 = Handed
    BY <1>2, <1>4
  <2> QED
    BY <1>0, <1>3, <1>4, <2>1, <2>2, <2>3 DEF SenderInStep, w
<1>7. OwnedInStep'
  <2> SUFFICES ASSUME NEW i \in Buffers
        PROVE  tx[i].own = "device" <=>
                 /\ \E n \in w .. Handed : Slot(n) = i
                 /\ i # currentSendBuffer
                 /\ ~(sending.pc # "idle" /\ sending.descriptor = i)
    BY <1>2, <1>3, <1>4 DEF OwnedInStep, w
  <2>1. tx[i].own = "device" <=>
          /\ \E n \in w .. (Handed - 1) : Slot(n) = i
          /\ ~(sending.pc # "idle" /\ sending.descriptor = i)
    BY <1>1, <1>3 DEF TxInStep, OwnedInStep, w
  <2>2. CASE i = currentSendBuffer
    BY <2>1, <2>2, <1>2
  <2>3. CASE i # currentSendBuffer
    <3>1. \A n \in w .. Handed : Slot(n) = i => n \in w .. (Handed - 1)
      BY <1>2, <1>4, <2>3
    <3>2. \A n \in w .. (Handed - 1) : n \in w .. Handed
      BY <1>2, <1>4
    <3> QED
      BY <2>1, <2>3, <3>1, <3>2
  <2> QED
    BY <2>2, <2>3
<1>8. DeviceOwned' = DeviceOwned
  BY <1>3 DEF DeviceOwned
<1>9. w <= published /\ (Handed + 1) - 1 = Handed
  BY <1>1, <1>2 DEF TxInStep, w
<1> QED
  BY <1>1, <1>2, <1>3, <1>4, <1>5, <1>6, <1>7, <1>8, <1>9 DEF TxInStep, w

\* The main program begins to send.
LEMMA TxSendCall ==
  ASSUME Typed, TxInv, NEW f, SendCall(f)
  PROVE  TxInv'
<1> USE DEF Typed, TxTyped, ControlTyped
<1> DEFINE w == Len(wire)
<1> SUFFICES ASSUME ~spoiled' PROVE TxInStep'
  BY DEF TxInv
<1>0. ~spoiled /\ ~RingFull /\ sending.pc = "idle" /\ irq.pc = "idle"
  BY DEF SendCall
<1>1. TxInStep
  BY <1>0 DEF TxInv
<1>2. /\ currentSendBuffer = Slot(Handed)
      /\ Handed \in published .. (published + 2)
      /\ w <= Handed /\ Handed + 1 - w <= NumBuffers
      /\ \A n \in w .. (Handed - 1) : Slot(n) # Slot(Handed)
  BY <1>0, <1>1, FreeSlot
<1>3. /\ UNCHANGED <<tx, txDevice, published, wire, irq, currentSendBuffer>>
      /\ sending'.pc = "load" /\ sending'.descriptor = currentSendBuffer
  BY DEF SendCall
<1>4. Handed' = Handed + 1 /\ w' = w /\ w \in Nat
  BY <1>0, <1>3 DEF Handed, Claimed
<1>5. NextToSend' = Handed /\ Handed' - 1 = Handed
  BY <1>2, <1>3, <1>4 DEF NextToSend
<1> HIDE DEF w
<1>6. SenderInStep'
  <2>1. Handed \in w .. (Handed' - 1)
    BY <1>2, <1>4, <1>5
  <2> QED
    BY <1>0, <1>2, <1>3, <1>4, <2>1 DEF SenderInStep, w
<1>7. OwnedInStep'
  <2> SUFFICES ASSUME NEW i \in Buffers
        PROVE  tx[i].own = "device" <=>
                 /\ \E n \in w .. Handed : Slot(n) = i
                 /\ i # currentSendBuffer
    BY <1>0, <1>3, <1>4, <1>5 DEF OwnedInStep, w
  <2>1. tx[i].own = "device" <=> \E n \in w .. (Handed - 1) : Slot(n) = i
    BY <1>0, <1>1 DEF TxInStep, OwnedInStep, w
  <2>2. CASE i = currentSendBuffer
    BY <2>1, <2>2, <1>2
  <2>3. CASE i # currentSendBuffer
    <3>1. \A n \in w .. Handed : Slot(n) = i => n \in w .. (Handed - 1)
      BY <1>2, <1>4, <2>3
    <3>2. \A n \in w .. (Handed - 1) : n \in w .. Handed
      BY <1>2, <1>4
    <3> QED
      BY <2>1, <2>3, <3>1, <3>2
  <2> QED
    BY <2>2, <2>3
<1>8. DeviceOwned' = DeviceOwned
  BY <1>3 DEF DeviceOwned
<1> QED
  BY <1>0, <1>1, <1>2, <1>3, <1>4, <1>5, <1>6, <1>7, <1>8 DEF TxInStep, w

\* A descriptor that was claimed and not handed over is not in the card's
\* hands; handing it over makes it one more.
LEMMA OneMore ==
  ASSUME Typed, NEW d \in Buffers, tx[d].own # "device",
         tx' = [tx EXCEPT ![d].own = "device"]
  PROVE  /\ Cardinality(DeviceOwned') = Cardinality(DeviceOwned) + 1
         /\ \A i \in Buffers :
              tx'[i].own = "device" <=> (i = d \/ tx[i].own = "device")
<1> USE DEF Typed, TxTyped
<1>1. \A i \in Buffers :
        tx'[i].own = "device" <=> (i = d \/ tx[i].own = "device")
  OBVIOUS
<1>2. DeviceOwned' = DeviceOwned \cup {d} /\ d \notin DeviceOwned
  BY <1>1 DEF DeviceOwned
<1> QED
  BY <1>1, <1>2, DeviceOwnedFinite, FS_AddElement

\* The handler hands over the descriptor of its answer.
LEMMA TxHandlerPublish ==
  ASSUME Typed, TxInv, HandlerPublish
  PROVE  TxInv'
<1> USE DEF Typed, TxTyped, ControlTyped
<1> DEFINE w == Len(wire)
           d == irq.descriptor
<1> SUFFICES ASSUME ~spoiled PROVE TxInStep'
  BY DEF TxInv, HandlerPublish
<1>0. TxInStep
  BY DEF TxInv
<1>1. /\ UNCHANGED <<txDevice, currentSendBuffer, wire, sending>>
      /\ irq.pc = "publish" /\ irq'.pc = "giveBack"
      /\ tx' = [tx EXCEPT ![d].own = "device"]
      /\ published' = published + 1
  BY DEF HandlerPublish
<1>2. /\ Handed' = Handed /\ NextToSend' = NextToSend
      /\ Handed \in (published + 1) .. (published + 2)
  BY <1>1 DEF Handed, Claimed, NextToSend
<1> HIDE DEF w, d
<1>3. d = Slot(Handed - 1) /\ d \in Buffers
  BY <1>0, <1>1 DEF TxInStep, d
<1>4. w \in Nat /\ w <= published /\ Handed - w <= NumBuffers
  BY <1>0 DEF TxInStep, w
<1>5. tx[d].own # "device"
  BY <1>0, <1>1, <1>3 DEF TxInStep, OwnedInStep, d
<1>6. /\ Cardinality(DeviceOwned') = Cardinality(DeviceOwned) + 1
      /\ \A i \in Buffers :
           tx'[i].own = "device" <=> (i = d \/ tx[i].own = "device")
  BY <1>1, <1>3, <1>5, OneMore
<1>7. sending.pc # "idle" =>
        /\ sending.pc \notin {"load", "store"}
        /\ \E m \in w .. (Handed - 2) : sending.descriptor = Slot(m)
  <2> SUFFICES ASSUME sending.pc # "idle"
        PROVE  /\ sending.pc \notin {"load", "store"}
               /\ \E m \in w .. (Handed - 2) : sending.descriptor = Slot(m)
    OBVIOUS
  <2>1. PICK m \in w .. (Handed - 1) :
          sending.descriptor = Slot(m) /\ m < Handed - 1
    BY <1>0, <1>1 DEF TxInStep, SenderInStep, w
  <2>2. m \in w .. (Handed - 2)
    BY <1>2, <1>4, <2>1
  <2>3. sending.pc \notin {"load", "store"}
    BY <1>0, <1>1 DEF TxInStep, SenderInStep
  <2> QED
    BY <2>1, <2>2, <2>3
<1>8. SenderInStep'
  <2>1. \A m \in w .. (Handed - 2) : m \in w .. (Handed - 1)
    BY <1>2, <1>4
  <2> QED
    BY <1>1, <1>2, <1>7, <2>1 DEF SenderInStep, w
<1>9. sending.pc # "idle" => sending.descriptor # d
  <2>1. ASSUME NEW m \in w .. (Handed - 2)
        PROVE  Slot(m) # Slot(Handed - 1)
    <3>1. /\ m \in Nat /\ Handed - 1 \in Nat
          /\ m < Handed - 1 /\ Handed - 1 < m + NumBuffers
      BY <1>2, <1>4, RingAssumption
    <3> QED
      BY <3>1, SlotsApart
  <2> QED
    BY <1>3, <1>7, <2>1
<1>10. OwnedInStep'
  <2> SUFFICES ASSUME NEW i \in Buffers
        PROVE  tx'[i].own = "device" <=>
                 /\ \E n \in w .. (Handed - 1) : Slot(n) = i
                 /\ ~(sending.pc # "idle" /\ sending.descriptor = i)
    BY <1>1, <1>2 DEF OwnedInStep, w
  <2>1. tx[i].own = "device" <=>
          /\ \E n \in w .. (Handed - 1) : Slot(n) = i
          /\ d # i
          /\ ~(sending.pc # "idle" /\ sending.descriptor = i)
    BY <1>0, <1>1 DEF TxInStep, OwnedInStep, w, d
  <2>2. Handed - 1 \in w .. (Handed - 1)
    BY <1>2, <1>4
  <2> QED
    BY <1>3, <1>6, <1>9, <2>1, <2>2
<1>11. /\ w' = w
       /\ w <= published + 1
       /\ Cardinality(DeviceOwned') = (published + 1) - w
  BY <1>0, <1>1, <1>4, <1>6 DEF TxInStep, w
<1> QED
  BY <1>0, <1>1, <1>2, <1>4, <1>8, <1>10, <1>11 DEF TxInStep, w

\* The main program hands over the descriptor of its frame.
LEMMA TxSendPublish ==
  ASSUME Typed, TxInv, SendPublish
  PROVE  TxInv'
<1> USE DEF Typed, TxTyped, ControlTyped
<1> DEFINE w == Len(wire)
           d == sending.descriptor
<1> SUFFICES ASSUME ~spoiled PROVE TxInStep'
  BY DEF TxInv, SendPublish
<1>0. TxInStep
  BY DEF TxInv
<1>1. /\ UNCHANGED <<txDevice, currentSendBuffer, wire, irq>>
      /\ sending.pc = "publish" /\ sending'.pc = "idle" /\ irq.pc = "idle"
      /\ tx' = [tx EXCEPT ![d].own = "device"]
      /\ published' = published + 1
  BY DEF SendPublish
<1>2. /\ Handed' = Handed /\ NextToSend' = NextToSend
      /\ Handed = published + 1
  BY <1>1 DEF Handed, Claimed, NextToSend
<1> HIDE DEF w, d
<1>3. d \in Buffers /\ \E m \in w .. (Handed - 1) : d = Slot(m)
  BY <1>0, <1>1 DEF TxInStep, SenderInStep, w, d
<1>4. w \in Nat /\ w <= published
  BY <1>0 DEF TxInStep, w
<1>5. tx[d].own # "device"
  BY <1>0, <1>1, <1>3 DEF TxInStep, OwnedInStep, d
<1>6. /\ Cardinality(DeviceOwned') = Cardinality(DeviceOwned) + 1
      /\ \A i \in Buffers :
           tx'[i].own = "device" <=> (i = d \/ tx[i].own = "device")
  BY <1>1, <1>3, <1>5, OneMore
<1>7. OwnedInStep'
  <2> SUFFICES ASSUME NEW i \in Buffers
        PROVE  tx'[i].own = "device"
                 <=> \E n \in w .. (Handed - 1) : Slot(n) = i
    BY <1>1, <1>2 DEF OwnedInStep, w
  <2>1. tx[i].own = "device" <=>
          /\ \E n \in w .. (Handed - 1) : Slot(n) = i
          /\ d # i
    BY <1>0, <1>1 DEF TxInStep, OwnedInStep, w, d
  <2> QED
    BY <1>3, <1>6, <2>1
<1>8. /\ w' = w
      /\ w <= published + 1
      /\ Cardinality(DeviceOwned') = (published + 1) - w
  BY <1>0, <1>1, <1>4, <1>6 DEF TxInStep, w
<1>9. SenderInStep'
  BY <1>1 DEF SenderInStep
<1> QED
  BY <1>0, <1>1, <1>2, <1>4, <1>7, <1>8, <1>9 DEF TxInStep, w

\* The steps of Send in between move nothing but the index.
LEMMA TxSenderMoves ==
  ASSUME Typed, TxInv, SendLoad \/ SendStore \/ SendCopy
  PROVE  TxInv'
<1> USE DEF Typed, TxTyped, ControlTyped
<1> SUFFICES ASSUME ~spoiled PROVE TxInStep'
  BY DEF TxInv, SendLoad, SendStore, SendCopy, txVars
<1>0. TxInStep
  BY DEF TxInv
<1>1. /\ UNCHANGED <<tx, txDevice, published, wire, irq>>
      /\ irq.pc = "idle" /\ sending.pc # "idle" /\ sending'.pc # "idle"
      /\ sending'.descriptor = sending.descriptor
  BY DEF SendLoad, SendStore, SendCopy, txVars
<1>2. Handed' = Handed /\ DeviceOwned' = DeviceOwned /\ Handed = published + 1
  BY <1>1 DEF Handed, Claimed, DeviceOwned
<1>3. /\ currentSendBuffer' = Slot(NextToSend')
      /\ sending'.pc = "store" => sending'.loaded = currentSendBuffer'
  <2>1. currentSendBuffer = Slot(NextToSend)
    BY <1>0 DEF TxInStep
  <2>2. CASE SendLoad
    BY <1>2, <2>1, <2>2 DEF SendLoad, NextToSend, txVars
  <2>3. CASE SendCopy
    BY <1>2, <2>1, <2>3 DEF SendCopy, NextToSend
  <2>4. CASE SendStore
    <3>1. sending.loaded = Slot(published)
      BY <1>0, <1>2, <2>1, <2>4
         DEF SendStore, NextToSend, TxInStep, SenderInStep
    <3>2. currentSendBuffer' = Slot(published + 1)
      BY <2>4, <3>1, SlotAfter DEF SendStore
    <3>3. sending'.pc = "copy"
      BY <2>4 DEF SendStore
    <3> QED
      BY <1>2, <3>2, <3>3 DEF NextToSend
  <2> QED
    BY <2>2, <2>3, <2>4
<1>4. SenderInStep'
  BY <1>0, <1>1, <1>2, <1>3 DEF TxInStep, SenderInStep
<1>5. OwnedInStep'
  BY <1>0, <1>1, <1>2 DEF TxInStep, OwnedInStep
<1> QED
  BY <1>0, <1>1, <1>2, <1>3, <1>4, <1>5 DEF TxInStep

LEMMA TxStep ==
  ASSUME Typed, TxInv, DriverNext
  PROVE  TxInv'
<1> USE DEF Typed, ControlTyped, rxVars, txVars
<1>1. ASSUME NEW f, NEW ok \in BOOLEAN, DeviceReceive(f, ok) PROVE TxInv'
  BY <1>1, TxFrame DEF DeviceReceive
<1>2. CASE DeviceMiss
  BY <1>2, TxFrame DEF DeviceMiss
<1>3. CASE DeviceTransmit
  BY <1>3, TxTransmit
<1>4. CASE HandleInterrupt
  BY <1>4, TxFrame DEF HandleInterrupt
<1>5. CASE ReceiveEnd
  BY <1>5, TxFrame DEF ReceiveEnd
<1>6. CASE ReceiveSkip
  BY <1>6, TxFrame DEF ReceiveSkip
<1>7. ASSUME NEW a, NEW sendBack \in BOOLEAN, ReceiveFrame(sendBack, a)
      PROVE  TxInv'
  BY <1>7, TxFrame DEF ReceiveFrame
<1>8. CASE HandlerSend
  BY <1>8, TxHandlerSend
<1>9. CASE HandlerPublish
  BY <1>9, TxHandlerPublish
<1>10. CASE GiveBack
  BY <1>10, TxFrame DEF GiveBack
<1>11. CASE Acknowledge
  BY <1>11, TxFrame DEF Acknowledge
<1>12. ASSUME NEW f, SendCall(f) PROVE TxInv'
  BY <1>12, TxSendCall
<1>13. CASE SendPublish
  BY <1>13, TxSendPublish
<1>14. CASE SendLoad \/ SendStore \/ SendCopy
  BY <1>14, TxSenderMoves
<1> QED
  BY <1>1, <1>2, <1>3, <1>4, <1>5, <1>6, <1>7, <1>8, <1>9, <1>10, <1>11,
     <1>12, <1>13, <1>14
     DEF DriverNext, Handler, Sender

----------------------------------------------------------------------------
\* Together.

LEMMA DriverInit ==
  ASSUME InitDriver
  PROVE  DriverInv
BY TypedInit, RxInit, TxInit DEF DriverInv

LEMMA DriverStep ==
  ASSUME DriverInv, DriverNext
  PROVE  DriverInv'
BY TypedStep, RxStep, TxStep DEF DriverInv

LEMMA DriverStutter ==
  ASSUME DriverInv, UNCHANGED driverVars
  PROVE  DriverInv'
<1> USE DEF driverVars, DriverInv
<1>1. Typed'
  BY DEF Typed, RxTyped, TxTyped, ControlTyped
<1>2. RxInv'
  BY RxFrame DEF Looking
<1>3. TxInv'
  BY TxFrame
<1> QED
  BY <1>1, <1>2, <1>3

\* What the inductive invariant says in terms of the driver's properties.
LEMMA DriverInvMeans ==
  ASSUME DriverInv
  PROVE  DriverTypeOK /\ ReceiveInStep /\ SendInStep
<1> USE DEF DriverInv, Typed, TxTyped
<1>1. DriverTypeOK
  BY DEF DriverTypeOK, RxTyped, ControlTyped, Causes
<1>2. ReceiveInStep
  BY DEF RxInv
<1>3. SendInStep
  <2> SUFFICES ASSUME ~spoiled PROVE SendInStep
    BY DEF SendInStep
  <2>1. TxInStep
    BY DEF TxInv
  <2>2. /\ currentSendBuffer = Slot(published + Claimed -
                 (IF sending.pc \in {"load", "store"} THEN 1 ELSE 0))
    BY <2>1, ClaimedType DEF TxInStep, NextToSend, Handed
  <2>3. \A i \in Buffers : tx[i].own = "device" =>
          \E n \in Len(wire) .. (published + Claimed - 1) : Slot(n) = i
    <3>1. \A i \in Buffers : tx[i].own = "device" =>
            \E n \in Len(wire) .. (Handed - 1) : Slot(n) = i
      BY <2>1 DEF TxInStep, OwnedInStep
    <3>2. Handed - 1 = published + Claimed - 1
      BY ClaimedType DEF Handed
    <3> QED
      BY <3>1, <3>2, Zenon
  <2> QED
    BY <2>1, <2>2, <2>3 DEF SendInStep, TxInStep, DeviceOwned
<1> QED
  BY <1>1, <1>2, <1>3

---------------------------------------------------------------------------
\* The whole stack.

MainPcs == {"boot", "lookup", "read", "relookup", "reread", "resolved"}

ArpTyped ==
  /\ cache \in [Cache -> Entries(cache)]
  /\ numCacheEntries \in Cache
  /\ main \in [pc : MainPcs, i : 0 .. SizeOfCache, result : {main.result}]
  /\ asked \in BOOLEAN
  /\ heard \in Seq(Entries(heard))
  /\ \A k \in 1 .. Len(heard) :
       heard[k] = [ip |-> heard[k].ip, mac |-> heard[k].mac]

\* The memory under the cache happened to hold an entry for the gateway.
Misled == \E l \in Leftover : l.ip = Gateway

\* Until it wraps, the cache holds what was heard, in order, and then what
\* the memory held before.
CacheInStep ==
  Len(heard) <= SizeOfCache =>
    /\ numCacheEntries = IF Len(heard) = SizeOfCache THEN 0 ELSE Len(heard)
    /\ \A i \in Cache :
         IF i < Len(heard) THEN cache[i] = heard[i + 1]
                           ELSE cache[i] \in Leftover

\* The entry that GetMACFromCache has matched stays the gateway's until its
\* MAC is read.
MatchHolds ==
  main.pc \in {"read", "reread"} =>
    /\ main.i \in Cache
    /\ Len(heard) <= SizeOfCache /\ ~Misled => cache[main.i].ip = Gateway

ArpInv == ArpTyped /\ CacheInStep /\ MatchHolds /\ ResolvedIsAnnounced

NetworkInv == DriverInv /\ ArpInv

----------------------------------------------------------------------------
\* Every step of the stack is one of the driver's, or leaves it alone.
LEMMA DriverMoves ==
  ASSUME Next
  PROVE  DriverNext \/ UNCHANGED driverVars
<1>1. CASE PeerSends \/ FrameLost \/ CardTransmits \/ GatewayAnswers \/ AnswerLost
  BY <1>1, StackAssumption
     DEF PeerSends, FrameLost, CardTransmits, GatewayAnswers, AnswerLost,
         DriverNext
<1>2. CASE HandlerStep
  BY <1>2 DEF HandlerStep, DriverNext
<1>3. CASE OnReceived
  <2>1. IsRequest(rxBuffer[currentRecvBuffer]) \in BOOLEAN
    BY DEF IsRequest
  <2> QED
    BY <1>3, <2>1 DEF OnReceived, DriverNext
<1>4. CASE Main
  BY <1>4
     DEF Main, ActivateInterrupts, LookupMatch, LookupReadMAC,
         RequestMACAddress, LookAgain, MainSends, DriverNext
<1> QED
  BY <1>1, <1>2, <1>3, <1>4 DEF Next, Interrupt

\* A number below the modulus is its own remainder.
LEMMA SmallModulo ==
  ASSUME NEW s \in Nat \ {0}, NEW a \in 0 .. (s - 1)
  PROVE  a % s = a
<1> DEFINE q == a \div s
           r == a % s
<1>1. q \in Nat /\ r \in 0 .. (s - 1) /\ a = s * q + r
  OBVIOUS
<1> HIDE DEF q, r
<1>2. ~(q >= 1)
  <2> SUFFICES ASSUME q >= 1 PROVE FALSE
    OBVIOUS
  <2>1. s * q >= s /\ s * q \in Int
    BY <1>1
  <2> QED
    BY <1>1, <2>1
<1>3. q = 0
  BY <1>1, <1>2
<1> QED
  BY <1>1, <1>3 DEF r

LEMMA ArpInit ==
  ASSUME Init
  PROVE  ArpInv
<1> USE StackAssumption DEF Init
<1>1. heard \in Seq(Entries(heard)) /\ Len(heard) = 0
  OBVIOUS
<1>2. cache \in [Cache -> Entries(cache)]
  BY DEF Entries
<1>3. ArpTyped
  BY <1>1, <1>2 DEF ArpTyped, Cache, MainPcs
<1>4. CacheInStep
  BY <1>1 DEF CacheInStep, Cache
<1> QED
  BY <1>3, <1>4 DEF ArpInv, MatchHolds, ResolvedIsAnnounced

\* What touches neither the cache nor kernel_main keeps the invariant.
LEMMA ArpFrame ==
  ASSUME ArpInv, UNCHANGED <<arpVars, main>>, asked' \in BOOLEAN
  PROVE  ArpInv'
BY DEF arpVars, ArpInv, ArpTyped, CacheInStep, MatchHolds,
       ResolvedIsAnnounced, Misled

\* A reply is put into the cache.
LEMMA ArpAdd ==
  ASSUME ArpInv, NEW m, AddToCache(m), UNCHANGED <<main, asked>>
  PROVE  ArpInv'
<1> USE StackAssumption DEF ArpInv, ArpTyped
<1> DEFINE e == [ip |-> m.srcIP, mac |-> m.srcMAC]
           n == Len(heard)
<1>1. /\ heard' = Append(heard, e) /\ n \in Nat
      /\ heard' \in Seq(Entries(heard')) /\ Len(heard') = n + 1
      /\ heard'[n + 1] = e
      /\ \A k \in 1 .. n : heard'[k] = heard[k]
  BY Appended DEF AddToCache
<1>2. /\ cache' \in [Cache -> Entries(cache')]
      /\ \A i \in Cache :
           cache'[i] = IF i = numCacheEntries THEN e ELSE cache[i]
  <2>1. cache' = [cache EXCEPT ![numCacheEntries] = e]
    BY DEF AddToCache
  <2> HIDE DEF e
  <2> QED
    BY <2>1 DEF Entries
<1>3. numCacheEntries' = (numCacheEntries + 1) % SizeOfCache
  BY DEF AddToCache
<1>4. e = [ip |-> e.ip, mac |-> e.mac]
  OBVIOUS
<1> HIDE DEF e, n
<1>5. ArpTyped'
  <2>1. numCacheEntries' \in Cache
    BY <1>3 DEF Cache
  <2>2. \A k \in 1 .. Len(heard') :
          heard'[k] = [ip |-> heard'[k].ip, mac |-> heard'[k].mac]
    <3> SUFFICES ASSUME NEW k \in 1 .. (n + 1)
          PROVE  heard'[k] = [ip |-> heard'[k].ip, mac |-> heard'[k].mac]
      BY <1>1
    <3>1. CASE k = n + 1
      BY <3>1, <1>1, <1>4
    <3>2. CASE k \in 1 .. n
      BY <3>2, <1>1 DEF n
    <3> QED
      BY <3>1, <3>2, <1>1
  <2> QED
    BY <1>1, <1>2, <2>1, <2>2
<1>6. ASSUME Len(heard') <= SizeOfCache
      PROVE  /\ numCacheEntries = n /\ n < SizeOfCache
             /\ \A i \in Cache :
                  IF i < n THEN cache[i] = heard[i + 1]
                           ELSE cache[i] \in Leftover
  BY <1>1, <1>6 DEF CacheInStep, n
<1>7. CacheInStep'
  <2> SUFFICES ASSUME Len(heard') <= SizeOfCache PROVE CacheInStep'
    BY DEF CacheInStep
  <2>1. numCacheEntries' = IF n + 1 = SizeOfCache THEN 0 ELSE n + 1
    <3>1. CASE n + 1 < SizeOfCache
      <4>1. (n + 1) % SizeOfCache = n + 1
        BY <3>1, <1>1, SmallModulo
      <4> QED
        BY <3>1, <4>1, <1>1, <1>3, <1>6
    <3>2. CASE n + 1 = SizeOfCache
      <4>1. SizeOfCache % SizeOfCache = 0
        OBVIOUS
      <4> QED
        BY <3>2, <4>1, <1>3, <1>6
    <3> QED
      BY <3>1, <3>2, <1>1, <1>6
  <2>2. ASSUME NEW i \in Cache
        PROVE  IF i < n + 1 THEN cache'[i] = heard'[i + 1]
                            ELSE cache'[i] \in Leftover
    <3>1. CASE i = n
      BY <3>1, <1>1, <1>2, <1>6
    <3>2. CASE i < n
      <4>1. i + 1 \in 1 .. n
        BY <3>2, <1>1 DEF Cache
      <4> QED
        BY <3>2, <4>1, <1>1, <1>2, <1>6 DEF Cache
    <3>3. CASE i > n
      BY <3>3, <1>1, <1>2, <1>6 DEF Cache
    <3> QED
      BY <3>1, <3>2, <3>3, <1>1 DEF Cache
  <2> QED
    BY <1>1, <2>1, <2>2 DEF CacheInStep
<1>8. MatchHolds'
  <2> SUFFICES ASSUME main.pc \in {"read", "reread"} PROVE MatchHolds'
    BY DEF MatchHolds
  <2>1. main.i \in Cache
    BY DEF MatchHolds
  <2>2. ASSUME Len(heard') <= SizeOfCache, ~Misled
        PROVE  cache'[main.i].ip = Gateway
    <3>1. cache[main.i].ip = Gateway
      BY <1>1, <2>2 DEF MatchHolds, n
    <3>2. main.i # n
      BY <1>1, <1>6, <2>1, <2>2, <3>1 DEF Misled
    <3> QED
      BY <1>2, <1>6, <2>1, <2>2, <3>1, <3>2
  <2> QED
    BY <2>1, <2>2 DEF MatchHolds, Misled
<1>9. ResolvedIsAnnounced'
  <2> SUFFICES ASSUME main.pc = "resolved", ~Misled, Len(heard') <= SizeOfCache
        PROVE  \E k \in 1 .. Len(heard') :
                 heard'[k] = [ip |-> Gateway, mac |-> main.result]
    BY <1>1 DEF ResolvedIsAnnounced, Misled
  <2>1. PICK k \in 1 .. n : heard[k] = [ip |-> Gateway, mac |-> main.result]
    BY <1>1 DEF ResolvedIsAnnounced, Misled, n
  <2> QED
    BY <1>1, <2>1
<1> QED
  BY <1>5, <1>7, <1>8, <1>9

\* kernel_main looks the gateway up.
LEMMA ArpMain ==
  ASSUME ArpInv, Main
  PROVE  ArpInv'
<1> USE StackAssumption DEF ArpInv, ArpTyped, MainPcs, arpVars
<1>1. CASE ActivateInterrupts
  BY <1>1 DEF ActivateInterrupts, CacheInStep, MatchHolds, ResolvedIsAnnounced
<1>2. CASE LookupMatch
  <2>1. ArpTyped' /\ CacheInStep'
    BY <1>2 DEF LookupMatch, CacheInStep, Cache
  <2>2. MatchHolds' /\ ResolvedIsAnnounced'
    BY <1>2 DEF LookupMatch, MatchHolds, ResolvedIsAnnounced, Misled
  <2> QED
    BY <2>1, <2>2
<1>3. CASE LookupReadMAC
  <2>0. ArpTyped'
    <3>1. CASE cache[main.i].mac = Broadcast
      <4>1. /\ main'.pc \in MainPcs /\ main'.i = SizeOfCache
            /\ main' \in [pc : {main'.pc}, i : {main'.i}, result : {main'.result}]
            /\ UNCHANGED <<cache, numCacheEntries, heard, asked>>
        BY <1>3, <3>1 DEF LookupReadMAC
      <4> QED
        BY <4>1
    <3>2. CASE cache[main.i].mac # Broadcast
      BY <1>3, <3>2 DEF LookupReadMAC
    <3> QED
      BY <3>1, <3>2
  <2>1. CacheInStep' /\ MatchHolds'
    BY <1>3 DEF LookupReadMAC, CacheInStep, MatchHolds
  <2>2. ResolvedIsAnnounced'
    <3> SUFFICES ASSUME main'.pc = "resolved", ~Misled, Len(heard) <= SizeOfCache
          PROVE  \E k \in 1 .. Len(heard) :
                   heard[k] = [ip |-> Gateway, mac |-> main'.result]
      BY <1>3 DEF LookupReadMAC, ResolvedIsAnnounced, Misled
    <3>1. /\ main.i \in Cache /\ cache[main.i].ip = Gateway
          /\ main'.result = cache[main.i].mac
      BY <1>3 DEF LookupReadMAC, MatchHolds
    <3>2. main.i < Len(heard) /\ cache[main.i] = heard[main.i + 1]
      BY <3>1 DEF CacheInStep, Misled
    <3>3. main.i + 1 \in 1 .. Len(heard)
      BY <3>1, <3>2 DEF Cache
    <3> QED
      BY <3>1, <3>2, <3>3
  <2> QED
    BY <2>0, <2>1, <2>2
<1>4. CASE RequestMACAddress \/ LookAgain
  <2>1. ArpTyped'
    <3>1. /\ main'.pc \in MainPcs /\ main'.i = 0
          /\ main' \in [pc : {main'.pc}, i : {main'.i}, result : {main'.result}]
          /\ UNCHANGED <<cache, numCacheEntries, heard, asked>>
      BY <1>4 DEF RequestMACAddress, LookAgain
    <3> QED
      BY <3>1
  <2>2. CacheInStep'
    BY <1>4 DEF RequestMACAddress, LookAgain, CacheInStep
  <2>3. main'.pc = "relookup"
    BY <1>4 DEF RequestMACAddress, LookAgain
  <2> QED
    BY <2>1, <2>2, <2>3 DEF MatchHolds, ResolvedIsAnnounced
<1>5. CASE MainSends
  BY <1>5, ArpFrame DEF MainSends
<1> QED
  BY <1>1, <1>2, <1>3, <1>4, <1>5 DEF Main

LEMMA ArpStep ==
  ASSUME ArpInv, Next
  PROVE  ArpInv'
<1>0. asked \in BOOLEAN
  BY DEF ArpInv, ArpTyped
<1>1. CASE PeerSends \/ FrameLost \/ CardTransmits \/ GatewayAnswers \/ AnswerLost
  BY <1>0, <1>1, ArpFrame
     DEF PeerSends, FrameLost, CardTransmits, GatewayAnswers, AnswerLost
<1>2. CASE HandlerStep
  BY <1>0, <1>2, ArpFrame DEF HandlerStep
<1>3. CASE OnReceived
  BY <1>0, <1>3, ArpFrame, ArpAdd DEF OnReceived
<1>4. CASE Main
  BY <1>4, ArpMain
<1> QED
  BY <1>1, <1>2, <1>3, <1>4 DEF Next, Interrupt

----------------------------------------------------------------------------
\* The rings of the driver, and what lies in the cache, in every reachable
\* state of the stack.
THEOREM NetworkInvariant ==
  Spec => []NetworkInv
<1>1. Init => NetworkInv
  BY DriverInit, ArpInit DEF Init, NetworkInv
<1>2. NetworkInv /\ [Next]_vars => NetworkInv'
  <2> SUFFICES ASSUME NetworkInv, [Next]_vars PROVE NetworkInv'
    OBVIOUS
  <2>1. CASE Next
    BY <2>1, DriverMoves, DriverStep, DriverStutter, ArpStep DEF NetworkInv
  <2>2. CASE UNCHANGED vars
    <3>1. UNCHANGED driverVars /\ UNCHANGED <<arpVars, main>> /\ asked' = asked
      BY <2>2 DEF vars
    <3>2. asked \in BOOLEAN
      BY DEF NetworkInv, ArpInv, ArpTyped
    <3> QED
      BY <3>1, <3>2, DriverStutter, ArpFrame DEF NetworkInv
  <2> QED
    BY <2>1, <2>2
<1> QED
  BY <1>1, <1>2, PTL DEF Spec

\* Every index of the driver, of the cache and of the lookup stays inside its
\* array, whatever the sizes.
THEOREM TypeCorrect ==
  Spec => []TypeOK
<1>1. NetworkInv => TypeOK
  BY DriverInvMeans DEF NetworkInv, ArpInv, ArpTyped, TypeOK
<1> QED
  BY <1>1, NetworkInvariant, PTL

\* am79c973::Receive and the card stay in step, as long as every frame comes
\* in whole.
THEOREM ReceiveCorrect ==
  Spec => []ReceiveInStep
<1>1. NetworkInv => ReceiveInStep
  BY DriverInvMeans DEF NetworkInv
<1> QED
  BY <1>1, NetworkInvariant, PTL

\* Calls of am79c973::Send and the card stay in step, unless two calls meet
\* inside the update of the index or the ring is full.
THEOREM SendCorrect ==
  Spec => []SendInStep
<1>1. NetworkInv => SendInStep
  BY DriverInvMeans DEF NetworkInv
<1> QED
  BY <1>1, NetworkInvariant, PTL

\* AddressResolutionProtocol::Resolve returns an address that was announced,
\* although the cache is filled while it is searched.
THEOREM ResolveCorrect ==
  Spec => []ResolvedIsAnnounced
<1>1. NetworkInv => ResolvedIsAnnounced
  BY DEF NetworkInv, ArpInv
<1> QED
  BY <1>1, NetworkInvariant, PTL

----------------------------------------------------------------------------
\* Contents of the buffers, if they did not overlap.

\* What Send has copied lies in the buffer whose descriptor it will hand over.
SentIsCopied ==
  ~spoiled =>
    /\ irq.pc = "publish" => txBuffer[irq.descriptor] = rxBuffer[currentRecvBuffer]
    /\ sending.pc = "publish" => txBuffer[sending.descriptor] = sending.frame

\* Nobody writes into a buffer that the card is to transmit.
SentStaysIntact ==
  [][~spoiled' => \A i \in Buffers : tx[i].own = "device" => txBuffer'[i] = txBuffer[i]]_vars

\* Rounded up to 16, an address moves by less than 16.
LEMMA AddressBounds ==
  ASSUME NEW i \in Buffers
  PROVE  /\ Address(i) \in Nat
         /\ RowWidth * i <= Address(i) /\ Address(i) <= RowWidth * i + 15
<1> DEFINE a == RowWidth * i
           q == (a + 15) \div 16
<1>1. a \in Nat
  BY RingAssumption DEF Buffers
<1> HIDE DEF a
<1>2. q \in Nat /\ 16 * q <= a + 15 /\ a + 15 <= 16 * q + 15
  BY <1>1
<1> HIDE DEF q
<1>3. Address(i) = q * 16
  BY DEF Address, q, a
<1>4. a <= q * 16 /\ q * 16 <= a + 15 /\ q * 16 \in Nat
  BY <1>1, <1>2
<1> QED
  BY <1>3, <1>4 DEF a

LEMMA AddressesApart ==
  ASSUME RoomyBuffers, NEW i \in Buffers, NEW j \in Buffers, i < j
  PROVE  /\ Address(j) >= Address(i) + FrameSize
         /\ Address(j) >= Address(i) + AnswerSize
<1>1. /\ RowWidth \in Nat /\ FrameSize \in Nat /\ AnswerSize \in Nat
      /\ i \in Nat /\ j \in Nat
  BY RingAssumption DEF Buffers, AnswerSize
<1>2. RowWidth * j >= RowWidth * i + RowWidth
  <2>1. PICK k \in Nat : j = i + 1 + k
    BY <1>1
  <2>2. RowWidth * j = RowWidth * i + RowWidth + RowWidth * k
    BY <1>1, <2>1
  <2>3. RowWidth * k \in Nat /\ RowWidth * i \in Nat
    BY <1>1
  <2> QED
    BY <1>1, <2>2, <2>3
<1>3. RowWidth * i \in Nat /\ RowWidth * j \in Nat
  BY <1>1
<1> QED
  BY <1>1, <1>2, <1>3, AddressBounds DEF RoomyBuffers

\* Then a frame goes into its own buffer and no other.
Lengths == {FrameSize, MessageSize, AnswerSize}

LEMMA StoreWrites ==
  ASSUME NEW buffer, NEW i \in Buffers, NEW f, NEW n
  PROVE  Store(buffer, i, f, n)[i] = f
BY DEF Store

LEMMA StoreChangesOne ==
  ASSUME RoomyBuffers, NEW buffer, NEW i \in Buffers, NEW f, NEW n \in Lengths,
         NEW j \in Buffers
  PROVE  /\ j = i => Store(buffer, i, f, n)[j] = f
         /\ j # i => Store(buffer, i, f, n)[j] = buffer[j]
<1>1. FrameSize \in Nat /\ FrameSize > 0 /\ AnswerSize = 1518 /\ MessageSize = 42
  BY RingAssumption DEF AnswerSize, MessageSize
<1>2. Address(i) \in Nat /\ Address(j) \in Nat
  BY AddressBounds
<1>3. CASE j = i
  BY <1>3, StoreWrites
<1>4. CASE j # i
  <2>1. \/ /\ Address(j) >= Address(i) + FrameSize
           /\ Address(j) >= Address(i) + AnswerSize
        \/ /\ Address(i) >= Address(j) + FrameSize
           /\ Address(i) >= Address(j) + AnswerSize
    <3>1. i < j \/ j < i
      BY <1>4 DEF Buffers
    <3> QED
      BY <3>1, AddressesApart
  <2>2. Address(j) # Address(i)
    BY <1>1, <1>2, <2>1
  <2>3. ~RunsOver(i, j, n)
    BY <1>1, <1>2, <2>1 DEF RunsOver, Lengths
  <2> QED
    BY <1>4, <2>2, <2>3 DEF Store
<1> QED
  BY <1>3, <1>4

\* A frame received stays what it is until Receive has taken it.
LEMMA IntactFrame ==
  ASSUME FramesStayIntact, UNCHANGED <<rx, rxBuffer, stored, taken>>,
         Looking => Looking'
  PROVE  FramesStayIntact'
BY DEF FramesStayIntact, NoBadFrame, Looking

LEMMA IntactDeviceReceive ==
  ASSUME RoomyBuffers, Typed, RxInv, FramesStayIntact,
         NEW f, NEW ok \in BOOLEAN, DeviceReceive(f, ok)
  PROVE  FramesStayIntact'
<1> USE DEF Typed, RxTyped, Descriptor
<1> DEFINE l == Len(stored)
<1> SUFFICES ASSUME NoBadFrame', NEW n \in taken .. l
    PROVE  \/ rxBuffer'[Slot(n)] = stored'[n + 1]
           \/ n = taken /\ Looking
  <2>1. taken' = taken /\ irq' = irq /\ Len(stored') - 1 = l /\ l \in Nat
    BY Appended DEF DeviceReceive
  <2> QED
    BY <2>1 DEF FramesStayIntact, Looking
<1>1. /\ stored' = Append(stored, f) /\ l \in Nat
      /\ rxBuffer' = Store(rxBuffer, rxDevice, f, FrameSize)
  BY DEF DeviceReceive
<1>2. NoBadFrame
  BY DEF NoBadFrame, DeviceReceive, RxInv
<1>3. rxDevice = Slot(l)
      /\ \A i \in Buffers : rx[i].own = "host" <=> \E k \in taken .. (l - 1) : Slot(k) = i
  BY <1>2 DEF RxInv, ReceiveInStep
<1>4. n \in Nat /\ Slot(n) \in Buffers /\ rxDevice \in Buffers
  BY <1>1, SlotType
<1>5. CASE n = l
  <2>1. rxBuffer'[Slot(n)] = f
    <3>1. Store(rxBuffer, rxDevice, f, FrameSize)[rxDevice] = f
      BY <1>4, StoreWrites
    <3> QED
      BY <1>1, <1>3, <1>5, <3>1, Zenon
  <2>2. stored'[n + 1] = f
    BY <1>1, <1>5
  <2> QED
    BY <2>1, <2>2
<1>6. CASE n # l
  <2>1. n \in taken .. (l - 1) /\ n + 1 \in 1 .. l
    BY <1>1, <1>6
  <2>2. Slot(n) # rxDevice
    <3>1. rx[Slot(n)].own = "host" /\ rx[rxDevice].own = "device"
      BY <1>3, <1>4, <2>1 DEF DeviceReceive
    <3> QED
      BY <3>1
  <2>3. rxBuffer'[Slot(n)] = rxBuffer[Slot(n)]
    BY <1>1, <1>4, <2>2, StoreChangesOne DEF Lengths
  <2>4. stored'[n + 1] = stored[n + 1]
    BY <1>1, <2>1
  <2> QED
    BY <1>2, <2>1, <2>3, <2>4 DEF FramesStayIntact, Looking
<1> QED
  BY <1>5, <1>6

\* The answer is built in the buffer Receive is looking at.
LEMMA IntactReceiveFrame ==
  ASSUME RoomyBuffers, Typed, RxInv, FramesStayIntact,
         NEW a, NEW sendBack \in BOOLEAN, ReceiveFrame(sendBack, a)
  PROVE  FramesStayIntact'
<1> USE DEF Typed, RxTyped
<1> SUFFICES ASSUME NoBadFrame, NEW n \in taken .. (Len(stored) - 1), n # taken
    PROVE  rxBuffer'[Slot(n)] = stored[n + 1]
  <2>1. Looking' /\ UNCHANGED <<rx, stored, taken>>
    BY DEF ReceiveFrame, Looking, ControlTyped
  <2> QED
    BY <2>1 DEF FramesStayIntact, NoBadFrame, Looking
<1>1. rxBuffer[Slot(n)] = stored[n + 1]
  BY DEF FramesStayIntact
<1>2. /\ currentRecvBuffer = Slot(taken)
      /\ taken <= Len(stored) /\ Len(stored) - taken <= NumBuffers
  BY DEF RxInv, ReceiveInStep
<1>3. n \in Nat /\ taken < n /\ n < taken + NumBuffers
  BY <1>2, RingAssumption
<1>4. Slot(n) # currentRecvBuffer /\ Slot(n) \in Buffers
  BY <1>2, <1>3, SlotsApart, SlotType
<1>5. rxBuffer'[Slot(n)] = rxBuffer[Slot(n)]
  BY <1>4, StoreChangesOne DEF ReceiveFrame, Lengths
<1> QED
  BY <1>1, <1>5

LEMMA IntactGiveBack ==
  ASSUME Typed, RxInv, FramesStayIntact, GiveBack
  PROVE  FramesStayIntact'
<1> USE DEF Typed, RxTyped
<1>1. NoBadFrame' => NoBadFrame
  BY DEF NoBadFrame, GiveBack, RxInv, Looking
<1>2. taken' = taken + 1 /\ UNCHANGED <<rxBuffer, stored>>
  BY DEF GiveBack
<1>3. \A n \in taken' .. (Len(stored) - 1) : n \in taken .. (Len(stored) - 1) /\ n # taken
  BY <1>2
<1> QED
  BY <1>1, <1>2, <1>3 DEF FramesStayIntact

LEMMA IntactStep ==
  ASSUME RoomyBuffers, DriverInv, FramesStayIntact, DriverNext
  PROVE  FramesStayIntact'
<1> USE DEF DriverInv, rxVars
<1>1. ASSUME NEW f, NEW ok \in BOOLEAN, DeviceReceive(f, ok) PROVE FramesStayIntact'
  BY <1>1, IntactDeviceReceive
<1>2. ASSUME NEW a, NEW sendBack \in BOOLEAN, ReceiveFrame(sendBack, a)
      PROVE  FramesStayIntact'
  BY <1>2, IntactReceiveFrame
<1>3. CASE GiveBack
  BY <1>3, IntactGiveBack
<1>4. CASE ReceiveSkip
  <2>1. ~NoBadFrame'
    BY <1>4 DEF ReceiveSkip, NoBadFrame, Typed, RxTyped
  <2> QED
    BY <2>1 DEF FramesStayIntact
<1>5. CASE DeviceMiss \/ DeviceTransmit
  BY <1>5, IntactFrame DEF DeviceMiss, DeviceTransmit, Looking
<1>6. CASE HandleInterrupt \/ ReceiveEnd \/ Acknowledge
  BY <1>6, IntactFrame DEF HandleInterrupt, ReceiveEnd, Acknowledge, Looking
<1>7. CASE HandlerSend \/ HandlerPublish
  <2>1. Looking'
    BY <1>7 DEF HandlerSend, HandlerPublish, Looking, Typed, ControlTyped
  <2> QED
    BY <1>7, <2>1, IntactFrame DEF HandlerSend, HandlerPublish
<1>8. CASE Sender \/ \E f : SendCall(f)
  BY <1>8, IntactFrame
     DEF Sender, SendLoad, SendStore, SendCopy, SendPublish, SendCall, Looking
<1> QED
  BY <1>1, <1>2, <1>3, <1>4, <1>5, <1>6, <1>7, <1>8 DEF DriverNext, Handler

\* With buffers of the documented size, each frame the card has stored reaches
\* Receive as it came: only the exchanged dimensions of the array (the run
\* network_overlap) break this.
THEOREM RoomyBuffersKeepFrames ==
  ASSUME RoomyBuffers
  PROVE  Spec => []FramesStayIntact
<1>1. Init => FramesStayIntact
  BY DEF Init, InitDriver, FramesStayIntact
<1>2. NetworkInv /\ FramesStayIntact /\ [Next]_vars => FramesStayIntact'
  <2> SUFFICES ASSUME NetworkInv, FramesStayIntact, [Next]_vars
      PROVE  FramesStayIntact'
    OBVIOUS
  <2>1. CASE DriverNext
    BY <2>1, IntactStep DEF NetworkInv
  <2>2. CASE UNCHANGED driverVars
    BY <2>2, IntactFrame DEF driverVars, Looking
  <2> QED
    BY <2>1, <2>2, DriverMoves DEF vars
<1> QED
  BY <1>1, <1>2, NetworkInvariant, PTL DEF Spec

\* What the card is to transmit, and what the interrupted call of Send has
\* copied, lies outside the buffer that a call of Send fills.
LEMMA SendsApart ==
  ASSUME Typed, TxInStep, HandlerSend, ~spoiled'
  PROVE  /\ currentSendBuffer \in Buffers
         /\ \A i \in Buffers : tx[i].own = "device" => i # currentSendBuffer
         /\ sending.pc # "idle" => sending.descriptor # currentSendBuffer
<1>0. ~RingFull /\ sending.pc \notin {"load", "store"}
  BY DEF HandlerSend
<1>1. /\ currentSendBuffer = Slot(Handed)
      /\ \A n \in Len(wire) .. (Handed - 1) : Slot(n) # Slot(Handed)
  BY <1>0, FreeSlot
<1>2. \A i \in Buffers : tx[i].own = "device" =>
        \E n \in Len(wire) .. (Handed - 1) : Slot(n) = i
  BY DEF TxInStep, OwnedInStep
<1>3. sending.pc # "idle" =>
        \E n \in Len(wire) .. (Handed - 1) : sending.descriptor = Slot(n)
  BY DEF TxInStep, SenderInStep
<1>4. currentSendBuffer \in Buffers
  BY DEF Typed, TxTyped
<1> QED
  BY <1>1, <1>2, <1>3, <1>4

LEMMA CopiedFrame ==
  ASSUME SentIsCopied, UNCHANGED <<txBuffer, rxBuffer, currentRecvBuffer>>,
         spoiled => spoiled',
         irq'.pc = "publish" => irq.pc = "publish" /\ irq'.descriptor = irq.descriptor,
         sending'.pc = "publish" => sending' = sending
  PROVE  SentIsCopied'
BY DEF SentIsCopied

\* One step of the driver or the card: both facts about the send buffers.
LEMMA CopiedStep ==
  ASSUME RoomyBuffers, DriverInv, SentIsCopied, DriverNext
  PROVE  /\ SentIsCopied'
         /\ ~spoiled' => \A i \in Buffers : tx[i].own = "device" => txBuffer'[i] = txBuffer[i]
<1> USE DEF DriverInv, rxVars, txVars
<1> DEFINE Untouched == \A i \in Buffers : tx[i].own = "device" => txBuffer'[i] = txBuffer[i]
<1>1. ASSUME NEW f, NEW ok \in BOOLEAN, DeviceReceive(f, ok)
      PROVE  SentIsCopied' /\ txBuffer' = txBuffer
  <2>1. irq.pc = "publish" => rxBuffer'[currentRecvBuffer] = rxBuffer[currentRecvBuffer]
    <3> SUFFICES ASSUME irq.pc = "publish"
        PROVE  rxBuffer'[currentRecvBuffer] = rxBuffer[currentRecvBuffer]
      OBVIOUS
    <3>1. rx[currentRecvBuffer].own = "host" /\ rx[rxDevice].own = "device"
      BY <1>1 DEF DeviceReceive, RxInv, Looking
    <3>2. currentRecvBuffer \in Buffers /\ rxDevice \in Buffers /\ currentRecvBuffer # rxDevice
      BY <3>1 DEF Typed, RxTyped
    <3> QED
      BY <1>1, <3>2, StoreChangesOne DEF DeviceReceive, Lengths
  <2>2. UNCHANGED <<txBuffer, currentRecvBuffer, irq, sending, spoiled>>
    BY <1>1 DEF DeviceReceive
  <2> QED
    BY <2>1, <2>2 DEF SentIsCopied
<1>2. ASSUME NEW a, NEW sendBack \in BOOLEAN, ReceiveFrame(sendBack, a)
      PROVE  SentIsCopied' /\ txBuffer' = txBuffer
  <2>1. /\ UNCHANGED <<txBuffer, sending, spoiled>>
        /\ irq'.pc # "publish"
    BY <1>2 DEF ReceiveFrame, Typed, ControlTyped
  <2> QED
    BY <2>1 DEF SentIsCopied
<1>3. CASE HandlerSend
  <2> SUFFICES ASSUME ~spoiled' PROVE SentIsCopied' /\ Untouched
    BY DEF SentIsCopied
  <2>1. ~spoiled /\ TxInStep
    BY <1>3 DEF HandlerSend, TxInv
  <2>2. /\ currentSendBuffer \in Buffers
        /\ \A i \in Buffers : tx[i].own = "device" => i # currentSendBuffer
        /\ sending.pc # "idle" => sending.descriptor # currentSendBuffer
    BY <1>3, <2>1, SendsApart
  <2>3. /\ txBuffer'[currentSendBuffer] = rxBuffer[currentRecvBuffer]
        /\ \A j \in Buffers : j # currentSendBuffer => txBuffer'[j] = txBuffer[j]
    <3>1. txBuffer' = Store(txBuffer, currentSendBuffer, rxBuffer[currentRecvBuffer],
                            AnswerSize)
      BY <1>3 DEF HandlerSend
    <3> QED
      BY <2>2, <3>1, StoreChangesOne DEF Lengths
  <2>4. /\ UNCHANGED <<rxBuffer, currentRecvBuffer, sending>>
        /\ irq'.descriptor = currentSendBuffer /\ sending.descriptor \in Buffers
    BY <1>3 DEF HandlerSend, Typed, ControlTyped
  <2>5. Untouched
    BY <2>2, <2>3
  <2>6. SentIsCopied'
    BY <2>1, <2>2, <2>3, <2>4 DEF SentIsCopied
  <2> QED
    BY <2>5, <2>6
<1>4. CASE SendCopy
  <2> SUFFICES ASSUME ~spoiled' PROVE SentIsCopied' /\ Untouched
    BY DEF SentIsCopied
  <2>1. ~spoiled /\ TxInStep /\ sending.pc = "copy" /\ irq.pc = "idle" /\ irq' = irq
    BY <1>4 DEF SendCopy, TxInv
  <2>2. sending.descriptor \in Buffers
    BY DEF Typed, ControlTyped
  <2>3. /\ txBuffer'[sending.descriptor] = sending.frame
        /\ \A j \in Buffers : j # sending.descriptor => txBuffer'[j] = txBuffer[j]
    <3>1. txBuffer' = Store(txBuffer, sending.descriptor, sending.frame, MessageSize)
      BY <1>4 DEF SendCopy
    <3> QED
      BY <2>2, <3>1, StoreWrites, StoreChangesOne DEF Lengths
  <2>4. \A i \in Buffers : tx[i].own = "device" => i # sending.descriptor
    BY <2>1 DEF TxInStep, OwnedInStep
  <2>5. sending'.descriptor = sending.descriptor /\ sending'.frame = sending.frame
    BY <1>4 DEF SendCopy, Typed, ControlTyped
  <2> QED
    BY <2>1, <2>2, <2>3, <2>4, <2>5 DEF SentIsCopied
<1>5. CASE DeviceMiss \/ DeviceTransmit
  BY <1>5, CopiedFrame DEF DeviceMiss, DeviceTransmit
<1>6. CASE HandleInterrupt \/ ReceiveEnd \/ ReceiveSkip \/ Acknowledge
  <2>1. /\ UNCHANGED <<txBuffer, sending, spoiled>>
        /\ irq'.pc # "publish"
    BY <1>6 DEF HandleInterrupt, ReceiveEnd, ReceiveSkip, Acknowledge, Typed, ControlTyped
  <2> QED
    BY <2>1 DEF SentIsCopied
<1>7. CASE HandlerPublish \/ GiveBack
  <2>1. /\ UNCHANGED <<txBuffer, sending, spoiled>>
        /\ irq'.pc # "publish"
    BY <1>7 DEF HandlerPublish, GiveBack, Typed, ControlTyped
  <2> QED
    BY <2>1 DEF SentIsCopied
<1>8. CASE SendLoad \/ SendStore \/ SendPublish \/ \E f : SendCall(f)
  <2>1. /\ UNCHANGED <<txBuffer, rxBuffer, currentRecvBuffer, irq>>
        /\ spoiled => spoiled'
        /\ sending'.pc # "publish"
    <3>1. CASE SendLoad
      BY <3>1 DEF SendLoad, Typed, ControlTyped
    <3>2. CASE SendStore
      BY <3>2 DEF SendStore, Typed, ControlTyped
    <3>3. CASE SendPublish
      BY <3>3 DEF SendPublish
    <3>4. ASSUME NEW f, SendCall(f)
          PROVE  /\ UNCHANGED <<txBuffer, rxBuffer, currentRecvBuffer, irq>>
                 /\ spoiled => spoiled'
                 /\ sending'.pc # "publish"
      BY <3>4 DEF SendCall
    <3> QED
      BY <1>8, <3>1, <3>2, <3>3, <3>4
  <2> QED
    BY <2>1, CopiedFrame
<1> QED
  BY <1>1, <1>2, <1>3, <1>4, <1>5, <1>6, <1>7, <1>8 DEF DriverNext, Handler, Sender

LEMMA CopiedInvariant ==
  ASSUME RoomyBuffers
  PROVE  Spec => []SentIsCopied
<1>1. Init => SentIsCopied
  BY DEF Init, InitDriver, SentIsCopied
<1>2. NetworkInv /\ SentIsCopied /\ [Next]_vars => SentIsCopied'
  <2> SUFFICES ASSUME NetworkInv, SentIsCopied, [Next]_vars PROVE SentIsCopied'
    OBVIOUS
  <2>1. CASE DriverNext
    BY <2>1, CopiedStep DEF NetworkInv
  <2>2. CASE UNCHANGED driverVars
    BY <2>2, CopiedFrame DEF driverVars
  <2> QED
    BY <2>1, <2>2, DriverMoves DEF vars
<1> QED
  BY <1>1, <1>2, NetworkInvariant, PTL DEF Spec

\* With buffers of the documented size a frame that was copied for the card is
\* in its buffer when it is handed over, and stays there until it is sent,
\* although the handler may call Send inside a call of kernel_main's.
THEOREM RoomyBuffersSendFrames ==
  ASSUME RoomyBuffers
  PROVE  Spec => []SentIsCopied /\ SentStaysIntact
<1> DEFINE Untouched ==
      ~spoiled' => \A i \in Buffers : tx[i].own = "device" => txBuffer'[i] = txBuffer[i]
<1>1. NetworkInv /\ SentIsCopied /\ [Next]_vars => [Untouched]_vars
  <2> SUFFICES ASSUME NetworkInv, SentIsCopied, Next PROVE Untouched
    BY Zenon
  <2>1. CASE DriverNext
    BY <2>1, CopiedStep DEF NetworkInv
  <2>2. CASE UNCHANGED driverVars
    BY <2>2 DEF driverVars
  <2> QED
    BY <2>1, <2>2, DriverMoves
<1> QED
  BY <1>1, NetworkInvariant, CopiedInvariant, PTL DEF Spec, SentStaysIntact
----------------------------------------------------------------------------
\* Where what is sent comes from, if the buffers did not overlap.

OurRequest == Request(OurIP, OurMAC, Gateway)

\* A frame that came in.
Received(log, c) == \E k \in 1 .. Len(log) : c = log[k]

\* An answer of the handler to a request that came in.
IsAnswer(log, c) ==
  \E k \in 1 .. Len(log) :
    /\ log[k].command = "request" /\ log[k].dstIP = OurIP
    /\ c = AnswerTo(log[k])

\* What the card is meant to transmit.
Meant(log, c) == c = OurRequest \/ IsAnswer(log, c)

\* The buffers of the host hold what came in or was made of it; what the
\* handler is about to send, or has copied, is an answer.
OriginRx ==
  /\ \A i \in Buffers : rx[i].own = "host" =>
       Received(stored, rxBuffer[i]) \/ IsAnswer(stored, rxBuffer[i])
  /\ irq.pc \in {"send", "publish"} => IsAnswer(stored, rxBuffer[currentRecvBuffer])

\* The main program sends one frame, the request.
OriginSending == sending.pc # "idle" => sending.frame = OurRequest

OriginTx ==
  ~spoiled =>
    /\ \A i \in Buffers : tx[i].own = "device" => Meant(stored, txBuffer[i])
    /\ \A n \in 1 .. Len(wire) : Meant(stored, wire[n])

OriginInv == OriginRx /\ OriginSending /\ OriginTx

\* As one more frame comes in, what was legitimate stays so.
LEMMA OriginStays ==
  ASSUME NEW log, log \in Seq(Entries(log)), NEW f, NEW c
  PROVE  /\ Received(log, c) => Received(Append(log, f), c)
         /\ IsAnswer(log, c) => IsAnswer(Append(log, f), c)
         /\ Meant(log, c) => Meant(Append(log, f), c)
         /\ Received(Append(log, f), f)
<1> DEFINE next == Append(log, f)
<1>1. /\ Len(log) \in Nat /\ Len(next) = Len(log) + 1
      /\ \A k \in 1 .. Len(log) : next[k] = log[k]
      /\ next[Len(log) + 1] = f
  BY Appended
<1> HIDE DEF next
<1>2. /\ \A k \in 1 .. Len(log) : k \in 1 .. Len(next)
      /\ Len(log) + 1 \in 1 .. Len(next)
  BY <1>1
<1>3. /\ Received(log, c) => Received(next, c)
      /\ Received(next, f)
  BY <1>1, <1>2 DEF Received
<1>4. IsAnswer(log, c) => IsAnswer(next, c)
  BY <1>1, <1>2 DEF IsAnswer
<1>5. Meant(log, c) => Meant(next, c)
  BY <1>4 DEF Meant
<1> QED
  BY <1>3, <1>4, <1>5 DEF next

\* A request for our address that lies in a buffer of the host came in: an
\* answer is no request.
LEMMA RequestCameIn ==
  ASSUME NEW log, NEW m, Received(log, m) \/ IsAnswer(log, m), IsRequest(m)
  PROVE  IsAnswer(log, AnswerTo(m))
<1>1. m.command = "request" /\ m.dstIP = OurIP
  BY DEF IsRequest, ForUs
<1>2. ASSUME NEW k \in 1 .. Len(log) PROVE m # AnswerTo(log[k])
  BY <1>1 DEF AnswerTo, Frame
<1>3. Received(log, m)
  BY <1>2 DEF IsAnswer
<1> QED
  BY <1>1, <1>3 DEF Received, IsAnswer

LEMMA OriginInit ==
  ASSUME Init
  PROVE  OriginInv
BY DEF Init, InitDriver, OriginInv, OriginRx, OriginSending, OriginTx

LEMMA OriginFrame ==
  ASSUME OriginInv, UNCHANGED driverVars
  PROVE  OriginInv'
BY DEF OriginInv, OriginRx, OriginSending, OriginTx, driverVars

\* The buffers of the receive ring.
LEMMA OriginRxFrame ==
  ASSUME OriginRx, UNCHANGED <<rxBuffer, currentRecvBuffer, stored>>,
         \A i \in Buffers : rx'[i].own = "host" => rx[i].own = "host",
         irq'.pc \in {"send", "publish"} => irq.pc \in {"send", "publish"}
  PROVE  OriginRx'
BY DEF OriginRx

\* A frame comes in.
LEMMA OriginReceive ==
  ASSUME RoomyBuffers, Typed, RxInv, OriginInv, NEW f, NEW ok, DeviceReceive(f, ok)
  PROVE  OriginInv'
<1>0. /\ stored \in Seq(Entries(stored)) /\ stored' = Append(stored, f)
      /\ UNCHANGED <<irq, currentRecvBuffer, sending, spoiled, tx, txBuffer, wire>>
      /\ rxBuffer' = Store(rxBuffer, rxDevice, f, FrameSize)
      /\ rxDevice \in Buffers /\ rx[rxDevice].own = "device"
      /\ \A i \in Buffers : i # rxDevice => rx'[i] = rx[i]
  BY DEF Typed, RxTyped, DeviceReceive, txVars
<1>1. /\ \A c : Received(stored, c) => Received(stored', c)
      /\ \A c : IsAnswer(stored, c) => IsAnswer(stored', c)
      /\ \A c : Meant(stored, c) => Meant(stored', c)
      /\ Received(stored', f)
  BY <1>0, OriginStays
<1>2. /\ rxBuffer'[rxDevice] = f
      /\ \A i \in Buffers : i # rxDevice => rxBuffer'[i] = rxBuffer[i]
  BY <1>0, StoreChangesOne DEF Lengths
<1>3. irq.pc \in {"send", "publish"} =>
        currentRecvBuffer \in Buffers /\ currentRecvBuffer # rxDevice
  BY <1>0 DEF RxInv, Looking, Typed, RxTyped
<1>4. OriginRx'
  BY <1>0, <1>1, <1>2, <1>3 DEF OriginInv, OriginRx
<1>5. OriginSending'
  BY <1>0 DEF OriginInv, OriginSending
<1>6. OriginTx'
  BY <1>0, <1>1 DEF OriginInv, OriginTx
<1> QED
  BY <1>4, <1>5, <1>6 DEF OriginInv

\* The handler looks at a frame and may turn it into an answer.
LEMMA OriginLook ==
  ASSUME RoomyBuffers, Typed, OriginInv, OnReceived
  PROVE  OriginInv'
<1> DEFINE m == rxBuffer[currentRecvBuffer]
<1>0. /\ UNCHANGED <<rx, currentRecvBuffer, stored, sending, spoiled, tx, txBuffer, wire>>
      /\ currentRecvBuffer \in Buffers /\ rx[currentRecvBuffer].own = "host"
  BY DEF OnReceived, ReceiveFrame, txVars, Typed, RxTyped
<1>1. Received(stored, m) \/ IsAnswer(stored, m)
  BY <1>0 DEF OriginInv, OriginRx
<1>2. OriginRx'
  <2>1. CASE IsRequest(m)
    <3>1. rxBuffer' = Store(rxBuffer, currentRecvBuffer, AnswerTo(m), MessageSize)
      BY <2>1 DEF OnReceived, ReceiveFrame
    <3>2. IsAnswer(stored, AnswerTo(m))
      BY <1>1, <2>1, RequestCameIn
    <3> HIDE DEF m
    <3>3. /\ rxBuffer'[currentRecvBuffer] = AnswerTo(m)
          /\ \A i \in Buffers : i # currentRecvBuffer => rxBuffer'[i] = rxBuffer[i]
      BY <1>0, <3>1, StoreChangesOne DEF Lengths
    <3> QED
      BY <1>0, <3>2, <3>3 DEF OriginInv, OriginRx
  <2>2. CASE ~IsRequest(m)
    <3>1. rxBuffer' = rxBuffer /\ irq'.pc = "giveBack"
      BY <2>2 DEF OnReceived, ReceiveFrame, Typed, ControlTyped
    <3> QED
      BY <1>0, <3>1, OriginRxFrame DEF OriginInv
  <2> QED
    BY <2>1, <2>2
<1>3. OriginSending' /\ OriginTx'
  BY <1>0 DEF OriginInv, OriginSending, OriginTx
<1> QED
  BY <1>2, <1>3 DEF OriginInv

\* A frame goes out.
LEMMA OriginTransmit ==
  ASSUME Typed, OriginInv, DeviceTransmit
  PROVE  OriginInv'
<1>0. /\ wire \in Seq(Entries(wire)) /\ txDevice \in Buffers
      /\ tx[txDevice].own = "device"
      /\ \A i \in Buffers : tx'[i].own = "device" => tx[i].own = "device"
      /\ wire' = Append(wire, txBuffer[txDevice])
      /\ UNCHANGED <<rx, rxBuffer, currentRecvBuffer, txBuffer, irq, sending,
                     stored, spoiled>>
  BY DEF Typed, TxTyped, DeviceTransmit, rxVars
<1>1. /\ Len(wire) \in Nat /\ Len(wire') = Len(wire) + 1
      /\ \A n \in 1 .. Len(wire) : wire'[n] = wire[n]
      /\ wire'[Len(wire) + 1] = txBuffer[txDevice]
  BY <1>0, Appended
<1>2. OriginRx' /\ OriginSending'
  BY <1>0 DEF OriginInv, OriginRx, OriginSending
<1>3. OriginTx'
  <2> SUFFICES ASSUME ~spoiled PROVE OriginTx'
    BY <1>0 DEF OriginTx
  <2>1. ASSUME NEW n \in 1 .. Len(wire') PROVE Meant(stored, wire'[n])
    <3>1. CASE n = Len(wire) + 1
      BY <3>1, <1>0, <1>1 DEF OriginInv, OriginTx
    <3>2. CASE n \in 1 .. Len(wire)
      BY <3>2, <1>1 DEF OriginInv, OriginTx
    <3> QED
      BY <3>1, <3>2, <1>1
  <2>2. \A i \in Buffers : tx'[i].own = "device" => Meant(stored, txBuffer[i])
    BY <1>0 DEF OriginInv, OriginTx
  <2> QED
    BY <1>0, <2>1, <2>2 DEF OriginTx
<1> QED
  BY <1>2, <1>3 DEF OriginInv

\* What the card is to transmit stays what it was, or is handed over now.
LEMMA OriginTxStays ==
  ASSUME OriginTx, spoiled => spoiled', UNCHANGED <<wire, stored>>,
         ~spoiled' => \A i \in Buffers : tx[i].own = "device" => txBuffer'[i] = txBuffer[i],
         ~spoiled' => \A i \in Buffers : tx'[i].own = "device" =>
                        tx[i].own = "device" \/ Meant(stored, txBuffer'[i])
  PROVE  OriginTx'
BY DEF OriginTx

\* The handler sends.
LEMMA OriginHandler ==
  ASSUME RoomyBuffers, DriverInv, SentIsCopied, OriginInv, HandlerStep
  PROVE  OriginInv'
<1>1. ~spoiled' => \A i \in Buffers : tx[i].own = "device" => txBuffer'[i] = txBuffer[i]
  BY CopiedStep DEF HandlerStep, DriverNext
<1>2. /\ UNCHANGED <<rxBuffer, wire, stored, sending>>
      /\ spoiled => spoiled'
  <2>1. CASE HandlerSend
    BY <2>1 DEF HandlerSend, rxVars
  <2>2. CASE HandlerPublish
    BY <2>2 DEF HandlerPublish, rxVars
  <2>3. CASE HandleInterrupt \/ ReceiveEnd \/ ReceiveSkip \/ GiveBack \/ Acknowledge
    <3>1. UNCHANGED <<rxBuffer, wire, stored, sending, spoiled>>
      BY <2>3 DEF HandleInterrupt, ReceiveEnd, ReceiveSkip, GiveBack, Acknowledge,
                  rxVars, txVars
    <3> QED
      BY <3>1
  <2> QED
    BY <2>1, <2>2, <2>3 DEF HandlerStep, Handler
<1>3. OriginRx'
  <2>1. CASE HandlerSend \/ HandlerPublish
    <3>1. /\ UNCHANGED <<rx, currentRecvBuffer>>
          /\ irq.pc \in {"send", "publish"}
      BY <2>1 DEF HandlerSend, HandlerPublish, rxVars
    <3> QED
      BY <1>2, <3>1, OriginRxFrame DEF OriginInv
  <2>2. CASE ~(HandlerSend \/ HandlerPublish)
    <3>1. irq'.pc \notin {"send", "publish"}
      BY <2>2 DEF HandlerStep, Handler, HandleInterrupt, ReceiveEnd, ReceiveSkip,
                  GiveBack, Acknowledge, DriverInv, Typed, ControlTyped
    <3>2. \A i \in Buffers : rx'[i].own = "host" => rx[i].own = "host"
      BY <2>2 DEF HandlerStep, Handler, HandleInterrupt, ReceiveEnd, ReceiveSkip,
                  GiveBack, Acknowledge, rxVars, DriverInv, Typed, RxTyped, Descriptor
    <3> QED
      BY <1>2, <3>1, <3>2 DEF OriginInv, OriginRx
  <2> QED
    BY <2>1, <2>2
<1>4. OriginTx'
  <2>1. CASE HandlerPublish
    <3>1. /\ irq.pc = "publish" /\ UNCHANGED <<txBuffer, spoiled>>
          /\ \A i \in Buffers : i # irq.descriptor => tx'[i] = tx[i]
      BY <2>1 DEF HandlerPublish, DriverInv, Typed, TxTyped
    <3>2. ~spoiled => Meant(stored, txBuffer[irq.descriptor])
      BY <3>1 DEF SentIsCopied, OriginInv, OriginRx, Meant
    <3> QED
      BY <1>1, <1>2, <3>1, <3>2, OriginTxStays DEF OriginInv
  <2>2. CASE ~HandlerPublish
    <3>1. tx' = tx
      BY <2>2 DEF HandlerStep, Handler, HandleInterrupt, ReceiveEnd, ReceiveSkip,
                  HandlerSend, GiveBack, Acknowledge, txVars
    <3> QED
      BY <1>1, <1>2, <3>1, OriginTxStays DEF OriginInv
  <2> QED
    BY <2>1, <2>2
<1>5. OriginSending'
  BY <1>2 DEF OriginInv, OriginSending
<1> QED
  BY <1>3, <1>4, <1>5 DEF OriginInv

\* kernel_main sends its request.
LEMMA OriginMain ==
  ASSUME RoomyBuffers, DriverInv, SentIsCopied, OriginInv,
         RequestMACAddress \/ MainSends
  PROVE  OriginInv'
<1>1. ~spoiled' => \A i \in Buffers : tx[i].own = "device" => txBuffer'[i] = txBuffer[i]
  BY CopiedStep DEF RequestMACAddress, MainSends, DriverNext
<1>2. /\ UNCHANGED <<rx, rxBuffer, currentRecvBuffer, irq, wire, stored>>
      /\ spoiled => spoiled'
  <2>1. CASE RequestMACAddress
    BY <2>1 DEF RequestMACAddress, SendCall, rxVars
  <2>2. CASE SendLoad \/ SendStore \/ SendCopy \/ SendPublish
    <3>1. UNCHANGED <<rx, rxBuffer, currentRecvBuffer, irq, wire, stored, spoiled>>
      BY <2>2 DEF SendLoad, SendStore, SendCopy, SendPublish, rxVars, txVars
    <3> QED
      BY <3>1
  <2> QED
    BY <2>1, <2>2 DEF MainSends, Sender
<1>3. OriginRx'
  BY <1>2, OriginRxFrame DEF OriginInv
<1>4. OriginSending'
  <2>1. CASE RequestMACAddress
    BY <2>1 DEF RequestMACAddress, SendCall, OriginSending, OurRequest
  <2>2. CASE SendPublish
    BY <2>2 DEF SendPublish, OriginSending
  <2>3. CASE SendLoad \/ SendStore \/ SendCopy
    <3>1. sending.pc # "idle" /\ sending'.frame = sending.frame
      BY <2>3 DEF SendLoad, SendStore, SendCopy, DriverInv, Typed, ControlTyped
    <3> QED
      BY <3>1 DEF OriginInv, OriginSending
  <2> QED
    BY <2>1, <2>2, <2>3 DEF MainSends, Sender
<1>5. OriginTx'
  <2>1. CASE SendPublish
    <3>1. /\ sending.pc = "publish" /\ UNCHANGED <<txBuffer, spoiled>>
          /\ \A i \in Buffers : i # sending.descriptor => tx'[i] = tx[i]
      BY <2>1 DEF SendPublish, DriverInv, Typed, TxTyped
    <3>2. ~spoiled => Meant(stored, txBuffer[sending.descriptor])
      BY <3>1 DEF SentIsCopied, OriginInv, OriginSending, Meant
    <3> QED
      BY <1>1, <1>2, <3>1, <3>2, OriginTxStays DEF OriginInv
  <2>2. CASE ~SendPublish
    <3>1. tx' = tx
      BY <2>2 DEF RequestMACAddress, MainSends, Sender, SendCall, SendLoad, SendStore,
                  SendCopy, txVars
    <3> QED
      BY <1>1, <1>2, <3>1, OriginTxStays DEF OriginInv
  <2> QED
    BY <2>1, <2>2
<1> QED
  BY <1>3, <1>4, <1>5 DEF OriginInv

LEMMA OriginStep ==
  ASSUME RoomyBuffers, DriverInv, SentIsCopied, OriginInv, Next
  PROVE  OriginInv'
<1> USE DEF DriverInv
<1>1. CASE PeerSends \/ GatewayAnswers
  BY <1>1, OriginReceive DEF PeerSends, GatewayAnswers
<1>2. CASE FrameLost \/ AnswerLost
  <2>1. UNCHANGED <<rx, rxBuffer, currentRecvBuffer, stored, irq, sending, spoiled,
                    tx, txBuffer, wire>>
    BY <1>2 DEF FrameLost, AnswerLost, DeviceMiss, rxVars, txVars
  <2> QED
    BY <2>1 DEF OriginInv, OriginRx, OriginSending, OriginTx
<1>3. CASE CardTransmits
  BY <1>3, OriginTransmit DEF CardTransmits
<1>4. CASE OnReceived
  BY <1>4, OriginLook
<1>5. CASE HandlerStep
  BY <1>5, OriginHandler
<1>6. CASE Main
  <2>1. CASE RequestMACAddress \/ MainSends
    BY <2>1, OriginMain
  <2>2. CASE ~(RequestMACAddress \/ MainSends)
    BY <1>6, <2>2, OriginFrame
       DEF Main, ActivateInterrupts, LookupMatch, LookupReadMAC, LookAgain
  <2> QED
    BY <2>1, <2>2
<1> QED
  BY <1>1, <1>2, <1>3, <1>4, <1>5, <1>6 DEF Next, Interrupt

LEMMA OriginMeans ==
  ASSUME OriginInv
  PROVE  AnswersWereAskedFor
<1> SUFFICES ASSUME ~spoiled, NEW n \in 1 .. Len(wire), wire[n] # OurRequest
      PROVE  /\ wire[n].command = "reply" /\ wire[n].srcIP = OurIP
             /\ \E k \in 1 .. Len(stored) :
                  /\ stored[k].command = "request" /\ stored[k].dstIP = OurIP
                  /\ wire[n].dstIP = stored[k].srcIP
                  /\ wire[n].dstMac = stored[k].srcMac
  BY DEF AnswersWereAskedFor, OurRequest
<1>1. PICK k \in 1 .. Len(stored) :
        /\ stored[k].command = "request" /\ stored[k].dstIP = OurIP
        /\ wire[n] = AnswerTo(stored[k])
  BY DEF OriginInv, OriginTx, Meant, IsAnswer
<1>2. /\ wire[n].command = "reply" /\ wire[n].srcIP = OurIP
      /\ wire[n].dstIP = stored[k].srcIP /\ wire[n].dstMac = stored[k].srcMac
  BY <1>1 DEF AnswerTo, Frame
<1> QED
  BY <1>1, <1>2

\* In rows of the documented length, and unless calls of Send spoil each other,
\* all that leaves the kernel is its own request and answers of ours to
\* requests that came in, each sent to the station that asked.  Nothing is
\* assumed of what other hosts send.
THEOREM AnswersCorrect ==
  Spec => []AnswersWereAskedFor
<1>1. ASSUME RoomyBuffers PROVE Spec => []AnswersWereAskedFor
  <2>1. Init => OriginInv
    BY OriginInit
  <2>2. NetworkInv /\ SentIsCopied /\ OriginInv /\ [Next]_vars => OriginInv'
    <3> SUFFICES ASSUME NetworkInv, SentIsCopied, OriginInv, [Next]_vars
        PROVE  OriginInv'
      OBVIOUS
    <3>1. CASE Next
      BY <1>1, <3>1, OriginStep DEF NetworkInv
    <3>2. CASE UNCHANGED vars
      BY <3>2, OriginFrame DEF vars
    <3> QED
      BY <3>1, <3>2
  <2>3. OriginInv => AnswersWereAskedFor
    BY OriginMeans
  <2>4. Spec => []SentIsCopied
    BY <1>1, CopiedInvariant
  <2> QED
    BY <2>1, <2>2, <2>3, <2>4, NetworkInvariant, PTL DEF Spec
<1>2. ASSUME ~RoomyBuffers PROVE Spec => []AnswersWereAskedFor
  <2>1. AnswersWereAskedFor
    BY <1>2 DEF AnswersWereAskedFor
  <2> QED
    BY <2>1, PTL
<1> QED
  BY <1>1, <1>2
==============================================================================
