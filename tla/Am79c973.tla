------------------------------ MODULE Am79c973 ------------------------------
(****************************************************************************)
(* The driver of the AMD network card, os::driver::am79c973, and the card   *)
(* as the driver uses it: two rings of descriptors, each owned by the card  *)
(* or by the host, the buffers behind them, and the status register CSR0.   *)
(*                                                                          *)
(* Three actors take steps: the card, the interrupt handler (its steps are  *)
(* those of HandleInterrupt, Receive and the Send of an answer; the IDT     *)
(* uses interrupt gates, so nothing else runs on the processor meanwhile)   *)
(* and the main program, which may be inside Send when it is interrupted.   *)
(* What a frame means is left to the module that extends this one.          *)
(****************************************************************************)
EXTENDS Integers, Sequences, FiniteSets

CONSTANTS
  NumBuffers,   \* descriptors per ring, 8 in the driver
  RowWidth,     \* distance in bytes of &sendBuffers[i] and &sendBuffers[i+1]
  FrameSize,    \* bytes of a frame that comes in; 60 is the least there are
  Nothing       \* a buffer's content that is not followed: what the memory
                \* held before, or what is left where two frames overlap

ASSUME RingAssumption ==
  /\ NumBuffers \in Nat \ {0}
  /\ RowWidth \in Nat \ {0}
  /\ FrameSize \in Nat \ {0}

VARIABLES
  rx,                 \* recvBufferDescr: own and ok (no ERR, STP and ENP set)
  rxBuffer,           \* what a reader of recvBufferDescr[i].address finds
  currentRecvBuffer,
  tx,                 \* sendBufferDescr: own
  txBuffer,
  currentSendBuffer,
  csr0,               \* interrupt causes raised and not yet acknowledged
  rxDevice, txDevice, \* the card's own places in the two rings
  irq,                \* the interrupt handler: pc, status read, descriptor
  sending,            \* Send called by the main program: pc, locals
  stored, taken,      \* every frame the card stored; how many Receive passed
  published, wire,    \* descriptors handed to the card; what it transmitted
  spoiled             \* two calls of Send met, or the send ring was full

rxVars == <<rx, rxBuffer, currentRecvBuffer, rxDevice, stored, taken>>
txVars == <<tx, txBuffer, currentSendBuffer, txDevice, published, wire, spoiled>>
driverVars == <<rx, rxBuffer, currentRecvBuffer, tx, txBuffer,
                currentSendBuffer, csr0, rxDevice, txDevice, irq, sending,
                stored, taken, published, wire, spoiled>>

Buffers == 0 .. (NumBuffers - 1)

\* Mutant: the index does not wrap.
AfterNoWrap(i) == i + 1

After(i) == (i + 1) % NumBuffers

----------------------------------------------------------------------------
\* Memory.  The buffers are the rows of sendBuffers[2*1024+15][8]: a row is
\* RowWidth bytes, its address is rounded up to 16, a frame runs on over the
\* rows behind it.

Address(i) == ((RowWidth * i + 15) \div 16) * 16

\* What is read of a buffer: an EthernetFrameHeader and an
\* AddressResolutionProtocolMessage.
MessageSize == 42

\* Receive takes the length of the buffer for that of the frame, Send cuts it.
AnswerSize == 1518

\* n bytes written to buffer i reach what is read of buffer j.
RunsOver(i, j, n) ==
  /\ Address(j) < Address(i) + n
  /\ Address(i) < Address(j) + MessageSize

Store(buffer, i, f, n) ==
  [j \in Buffers |->
     CASE Address(j) = Address(i) -> f
       [] Address(j) # Address(i) /\ RunsOver(i, j, n) -> Nothing
       [] OTHER -> buffer[j]]

----------------------------------------------------------------------------
\* The constructor and Activate: the card owns the receive ring, has finished
\* its initialisation and may store frames; interrupts are still off.

InitDriver ==
  /\ rx = [i \in Buffers |-> [own |-> "device", ok |-> TRUE]]
  /\ tx = [i \in Buffers |-> [own |-> "host"]]
  /\ rxBuffer = [i \in Buffers |-> Nothing]
  /\ txBuffer = [i \in Buffers |-> Nothing]
  /\ currentRecvBuffer = 0 /\ currentSendBuffer = 0
  /\ rxDevice = 0 /\ txDevice = 0
  /\ csr0 = {"IDON"}
  /\ irq = [pc |-> "idle", temp |-> {}, descriptor |-> 0]
  /\ sending = [pc |-> "idle", descriptor |-> 0, loaded |-> 0,
                frame |-> Nothing]
  /\ stored = <<>> /\ taken = 0
  /\ published = 0 /\ wire = <<>> /\ spoiled = FALSE

----------------------------------------------------------------------------
\* The card.

\* A frame comes in: into the next descriptor if the card owns it.
DeviceReceive(f, ok) ==
  /\ rx[rxDevice].own = "device"
  /\ rx' = [rx EXCEPT ![rxDevice] = [own |-> "host", ok |-> ok]]
  /\ rxBuffer' = Store(rxBuffer, rxDevice, f, FrameSize)
  /\ rxDevice' = After(rxDevice)
  /\ csr0' = csr0 \cup {"RINT"}
  /\ stored' = Append(stored, f)
  /\ UNCHANGED <<txVars, currentRecvBuffer, irq, sending, taken>>

\* The frame is lost when the host still owns the descriptor.
DeviceMiss ==
  /\ rx[rxDevice].own = "host"
  /\ csr0' = csr0 \cup {"MISS"}
  /\ UNCHANGED <<rxVars, txVars, irq, sending>>

\* A frame goes out: the card reads the buffer now.
DeviceTransmit ==
  /\ tx[txDevice].own = "device"
  /\ tx' = [tx EXCEPT ![txDevice].own = "host"]
  /\ wire' = Append(wire, txBuffer[txDevice])
  /\ txDevice' = After(txDevice)
  /\ csr0' = csr0 \cup {"TINT"}
  /\ UNCHANGED <<rxVars, txBuffer, currentSendBuffer, irq, sending,
                 published, spoiled>>

----------------------------------------------------------------------------
\* HandleInterrupt and Receive.

\* The processor takes the interrupt, the handler reads CSR0.
HandleInterrupt ==
  /\ irq.pc = "idle"
  /\ csr0 # {}
  /\ irq' = [irq EXCEPT !.pc = IF "RINT" \in csr0 THEN "receive" ELSE "ack",
                        !.temp = csr0]
  /\ UNCHANGED <<rxVars, txVars, csr0, sending>>

\* The loop of Receive ends at the first descriptor the card owns.
ReceiveEnd ==
  /\ irq.pc = "receive"
  /\ rx[currentRecvBuffer].own = "device"
  /\ irq' = [irq EXCEPT !.pc = "ack"]
  /\ UNCHANGED <<rxVars, txVars, csr0, sending>>

\* Mutant: the loop does not move on from a frame with an error.
ReceiveSkipStays ==
  /\ irq.pc = "receive"
  /\ rx[currentRecvBuffer].own = "host" /\ ~rx[currentRecvBuffer].ok
  /\ UNCHANGED <<rxVars, txVars, csr0, irq, sending>>

\* A frame with an error, or not in one piece, is passed over; nothing gives
\* its descriptor back.
ReceiveSkip ==
  /\ irq.pc = "receive"
  /\ rx[currentRecvBuffer].own = "host" /\ ~rx[currentRecvBuffer].ok
  /\ currentRecvBuffer' = After(currentRecvBuffer)
  /\ taken' = IF taken < Len(stored) THEN taken + 1 ELSE taken
  /\ UNCHANGED <<txVars, rx, rxBuffer, rxDevice, stored, csr0, irq, sending>>

\* A good frame goes to the handler, which may turn it into an answer where
\* it lies and ask for it to be sent.  This is one step, and so is a copy of
\* Send: what the card or the handler writes into the same octets meanwhile is
\* not followed, so the contents are spoken of only where nobody does.
ReceiveFrame(sendBack, answer) ==
  /\ irq.pc = "receive"
  /\ rx[currentRecvBuffer].own = "host" /\ rx[currentRecvBuffer].ok
  /\ rxBuffer' = IF sendBack
                   THEN Store(rxBuffer, currentRecvBuffer, answer, MessageSize)
                   ELSE rxBuffer
  /\ irq' = [irq EXCEPT !.pc = IF sendBack THEN "send" ELSE "giveBack"]
  /\ UNCHANGED <<txVars, rx, currentRecvBuffer, rxDevice, stored, taken,
                 csr0, sending>>

\* Descriptors Send has claimed and not yet handed over.
Claimed ==
  (IF irq.pc = "publish" THEN 1 ELSE 0)
  + (IF sending.pc # "idle" THEN 1 ELSE 0)

\* Send does not ask whether the card still owns the descriptor it takes.
RingFull == published + Claimed - Len(wire) >= NumBuffers

\* Mutant: the index of the descriptor just filled is not moved on.
HandlerSendNoAdvance ==
  /\ irq.pc = "send"
  /\ irq' = [irq EXCEPT !.pc = "publish", !.descriptor = currentSendBuffer]
  /\ txBuffer' = Store(txBuffer, currentSendBuffer, rxBuffer[currentRecvBuffer],
                       AnswerSize)
  /\ spoiled' = (spoiled \/ RingFull \/ sending.pc \in {"load", "store"})
  /\ UNCHANGED <<rxVars, tx, currentSendBuffer, txDevice, published, wire, csr0,
                 sending>>

\* Send, called by the handler: index and copy.
HandlerSend ==
  /\ irq.pc = "send"
  /\ irq' = [irq EXCEPT !.pc = "publish", !.descriptor = currentSendBuffer]
  /\ currentSendBuffer' = After(currentSendBuffer)
  /\ txBuffer' = Store(txBuffer, currentSendBuffer, rxBuffer[currentRecvBuffer],
                       AnswerSize)
  /\ spoiled' = (spoiled \/ RingFull \/ sending.pc \in {"load", "store"})
  /\ UNCHANGED <<rxVars, tx, txDevice, published, wire, csr0, sending>>

\* Send: the flags that give the descriptor to the card, and the command.
HandlerPublish ==
  /\ irq.pc = "publish"
  /\ irq' = [irq EXCEPT !.pc = "giveBack"]
  /\ tx' = [tx EXCEPT ![irq.descriptor].own = "device"]
  /\ published' = published + 1
  /\ UNCHANGED <<rxVars, txBuffer, currentSendBuffer, txDevice, wire, spoiled,
                 csr0, sending>>

\* Mutant: the loop moves on but the descriptor stays with the host.
GiveBackNever ==
  /\ irq.pc = "giveBack"
  /\ irq' = [irq EXCEPT !.pc = "receive"]
  /\ currentRecvBuffer' = After(currentRecvBuffer)
  /\ taken' = taken + 1
  /\ UNCHANGED <<txVars, rx, rxBuffer, rxDevice, stored, csr0, sending>>

\* The card gets the descriptor back and the loop moves on.
GiveBack ==
  /\ irq.pc = "giveBack"
  /\ irq' = [irq EXCEPT !.pc = "receive"]
  /\ rx' = [rx EXCEPT ![currentRecvBuffer] = [own |-> "device", ok |-> TRUE]]
  /\ currentRecvBuffer' = After(currentRecvBuffer)
  /\ taken' = taken + 1
  /\ UNCHANGED <<txVars, rxBuffer, rxDevice, stored, csr0, sending>>

\* Mutant: every cause is acknowledged, not only those that were read.
AcknowledgeAll ==
  /\ irq.pc = "ack"
  /\ csr0' = {}
  /\ irq' = [irq EXCEPT !.pc = "idle", !.temp = {}, !.descriptor = 0]
  /\ UNCHANGED <<rxVars, txVars, sending>>

\* The status that was read is written back: a one clears its cause, even if
\* the card has raised that cause again meanwhile.
Acknowledge ==
  /\ irq.pc = "ack"
  /\ csr0' = csr0 \ irq.temp
  /\ irq' = [irq EXCEPT !.pc = "idle", !.temp = {}, !.descriptor = 0]
  /\ UNCHANGED <<rxVars, txVars, sending>>

----------------------------------------------------------------------------
\* Send, called by the main program, which an interrupt may stop between any
\* two of these steps.  The build does not optimise: currentSendBuffer is
\* read once for the descriptor and once more for the increment.

SendCall(f) ==
  /\ irq.pc = "idle" /\ sending.pc = "idle"
  /\ sending' = [pc |-> "load", descriptor |-> currentSendBuffer, loaded |-> 0,
                 frame |-> f]
  /\ spoiled' = (spoiled \/ RingFull)
  /\ UNCHANGED <<rxVars, tx, txBuffer, currentSendBuffer, txDevice, published,
                 wire, csr0, irq>>

SendLoad ==
  /\ irq.pc = "idle" /\ sending.pc = "load"
  /\ sending' = [sending EXCEPT !.pc = "store", !.loaded = currentSendBuffer]
  /\ UNCHANGED <<rxVars, txVars, csr0, irq>>

SendStore ==
  /\ irq.pc = "idle" /\ sending.pc = "store"
  /\ sending' = [sending EXCEPT !.pc = "copy"]
  /\ currentSendBuffer' = After(sending.loaded)
  /\ UNCHANGED <<rxVars, tx, txBuffer, txDevice, published, wire, spoiled, csr0,
                 irq>>

SendCopy ==
  /\ irq.pc = "idle" /\ sending.pc = "copy"
  /\ sending' = [sending EXCEPT !.pc = "publish"]
  /\ txBuffer' = Store(txBuffer, sending.descriptor, sending.frame, MessageSize)
  /\ UNCHANGED <<rxVars, tx, currentSendBuffer, txDevice, published, wire,
                 spoiled, csr0, irq>>

SendPublish ==
  /\ irq.pc = "idle" /\ sending.pc = "publish"
  /\ sending' = [pc |-> "idle", descriptor |-> 0, loaded |-> 0,
                 frame |-> Nothing]
  /\ tx' = [tx EXCEPT ![sending.descriptor].own = "device"]
  /\ published' = published + 1
  /\ UNCHANGED <<rxVars, txBuffer, currentSendBuffer, txDevice, wire, spoiled,
                 csr0, irq>>

Handler ==
  \/ HandleInterrupt \/ ReceiveEnd \/ ReceiveSkip
  \/ HandlerSend \/ HandlerPublish \/ GiveBack \/ Acknowledge
Sender == SendLoad \/ SendStore \/ SendCopy \/ SendPublish

----------------------------------------------------------------------------
\* Correctness.

Descriptor == [own : {"device", "host"}, ok : BOOLEAN]

DriverTypeOK ==
  /\ rx \in [Buffers -> Descriptor]
  /\ tx \in [Buffers -> [own : {"device", "host"}]]
  /\ currentRecvBuffer \in Buffers /\ currentSendBuffer \in Buffers
  /\ rxDevice \in Buffers /\ txDevice \in Buffers
  /\ csr0 \subseteq {"IDON", "RINT", "TINT", "MISS"}
  /\ irq.temp \subseteq {"IDON", "RINT", "TINT", "MISS"}
  /\ irq.descriptor \in Buffers /\ sending.descriptor \in Buffers

\* The n-th frame of a ring lies in this buffer.
Slot(n) == n % NumBuffers

NoBadFrame == \A i \in Buffers : rx[i].ok

\* As long as no frame came in with an error, Receive and the card stay in
\* step: the descriptors the host owns are those of the frames stored and not
\* yet passed by Receive, so no frame is passed over, read twice, or left
\* behind by the loop of am79c973::Receive.
ReceiveInStep ==
  NoBadFrame =>
    /\ rxDevice = Slot(Len(stored))
    /\ currentRecvBuffer = Slot(taken)
    /\ taken <= Len(stored) /\ Len(stored) - taken <= NumBuffers
    /\ \A i \in Buffers :
         rx[i].own = "host" <=> \E n \in taken .. (Len(stored) - 1) : Slot(n) = i

\* Unless an answer is sent inside the main program's update of
\* currentSendBuffer, or Send is called with the ring full, no two calls of
\* am79c973::Send get the same descriptor, no frame handed to the card is
\* replaced by another one, and the card is never left waiting in front of a
\* descriptor that was skipped.
SendInStep ==
  ~spoiled =>
    /\ currentSendBuffer = Slot(published + Claimed -
                               (IF sending.pc \in {"load", "store"} THEN 1 ELSE 0))
    /\ txDevice = Slot(Len(wire))
    /\ Cardinality({i \in Buffers : tx[i].own = "device"}) = published - Len(wire)
    /\ \A i \in Buffers : tx[i].own = "device" =>
         \E n \in Len(wire) .. (published + Claimed - 1) : Slot(n) = i

\* A buffer holds the frame the card put there until Receive has taken it.
FramesStayIntact ==
  NoBadFrame =>
    \A n \in taken .. (Len(stored) - 1) :
      \/ rxBuffer[Slot(n)] = stored[n + 1]
      \/ n = taken /\ irq.pc \in {"send", "publish", "giveBack"}

\* The handler cannot leave the loop when it owns every descriptor and will
\* give none back.
AllLeaked == \A i \in Buffers : rx[i].own = "host" /\ ~rx[i].ok

\* The interrupt handler comes to an end, as long as one descriptor of the
\* receive ring is left.
HandlerReturns == (irq.pc # "idle") ~> (irq.pc = "idle" \/ AllLeaked)
==============================================================================
