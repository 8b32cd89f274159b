----------------------------- MODULE Ps2_proofs -----------------------------
(****************************************************************************)
(* Proofs about Ps2, for any keys, packets, status byte and length of the   *)
(* controller's queue: until a byte is read by whom it is not meant for,    *)
(* packets stay in frame, buttons and shift follow the user, and the byte   *)
(* in front of the queue has its interrupt.                                 *)
(****************************************************************************)
EXTENDS Ps2, TLAPS

Entries ==
  [byte : 0 .. 255, from : {Keyboard, Mouse}, place : 0 .. 2, first : 0 .. 255,
   shifted : BOOLEAN]

\* The order of the activation.  In Quiet no answer is in the queue; from
\* Listening on both interrupts are enabled; in Reporting the mouse sends.
Quiet == {"drain", "keyboardConfig", "keyboardStatus", "keyboardEnable",
          "mouseConfig", "mouseStatus", "mouseStream"}
Answered == {"mouseEnable", "waitEnabled"}
Reporting == {"waitStreaming", "ready", "on"}
Listening == {"mouseStream"} \cup Reporting
Unlocked == {"keyboardStatus", "keyboardEnable", "mouseEnable", "waitEnabled",
             "mouseConfig", "mouseStatus"}
Enabled == {"keyboardEnable", "mouseEnable", "waitEnabled", "mouseConfig",
            "mouseStatus"} \cup Listening

Typed ==
  /\ out \in Seq(Entries) /\ last \in 0 .. 255 /\ config \in 0 .. 255
  /\ irqs \subseteq {Keyboard, Mouse}
  /\ held \subseteq Keys /\ packet \in Packets /\ n \in 0 .. 2
  /\ reported \in 0 .. 255 /\ streaming \in BOOLEAN
  /\ pc \in Quiet \cup Answered \cup Reporting
  /\ shift \in BOOLEAN /\ disturbed \in BOOLEAN
  /\ mouse \in [buffer : [0 .. 2 -> 0 .. 255], offset : 0 .. 2, buttons : 0 .. 255]
  /\ typed \in [shifted : BOOLEAN, meant : BOOLEAN]

\* What is read before the interrupts are on is lost on nobody.
AtRest ==
  /\ streaming <=> pc \in Reporting
  /\ ~streaming => n = 0 /\ reported = 0
  /\ pc # "on" => /\ ~shift /\ ~typed.shifted
                  /\ mouse.offset = 0 /\ mouse.buttons = 0

\* The status byte, as long as it was read when it was asked for.
Configured ==
  /\ pc \in Unlocked => ~Bit(config, 4)
  /\ pc \in Enabled /\ ~disturbed => Bit(config, 0)
  /\ pc \in Listening /\ ~disturbed => Bit(config, 1)

\* The interrupt of the byte in front is pending.  One of the keyboard may be
\* left from a byte that a WaitACK has read: the byte read then is an answer.
Pending ==
  /\ pc \in Listening /\ ~disturbed /\ out # <<>> => out[1].from \in irqs
  /\ pc \in {"ready", "on"} /\ ~disturbed /\ Keyboard \in irqs /\ out = <<>> =>
       last = ACK

Follows == told = {i + 1 : i \in {b \in Buttons : Bit(mouse.buttons, b)}}

----------------------------------------------------------------------------
\* The queue behind position k.

Behind(k) == (k + 1) .. Len(out)
MouseBehind(k) == {i \in Behind(k) : out[i].from = Mouse}

Neighbours(i, j, s) == i < j /\ \A h \in s : h <= i \/ j <= h

\* Packets follow each other byte by byte, from the one that the driver is
\* reading to the one that the mouse is sending.
Chained(k) ==
  \A i, j \in MouseBehind(k) : Neighbours(i, j, MouseBehind(k)) =>
    /\ out[j].place = (out[i].place + 1) % 3
    /\ out[j].place # 0 => out[j].first = out[i].first
Headed(k) ==
  \A i \in MouseBehind(k) : out[i].place = 0 => out[i].byte = out[i].first
Sent(k) ==
  \A i \in MouseBehind(k) : (\A j \in MouseBehind(k) : j <= i) =>
    /\ n = (out[i].place + 1) % 3
    /\ out[i].first = IF n = 0 THEN reported ELSE packet[0]
Awaited(k) ==
  \A i \in MouseBehind(k) : (\A j \in MouseBehind(k) : i <= j) =>
    /\ mouse.offset = out[i].place
    /\ mouse.offset # 0 => out[i].first = mouse.buffer[0]
AllRead(k) ==
  MouseBehind(k) = {} =>
    /\ mouse.offset = n
    /\ IF n = 0 THEN mouse.buttons = reported ELSE mouse.buffer[0] = packet[0]
Stream(k) == Chained(k) /\ Headed(k) /\ Sent(k) /\ Awaited(k) /\ AllRead(k)

Shifts == {LeftShift, RightShift}
Unshifts == {LeftShift + 128, RightShift + 128}
IsShift(e) == e.from = Keyboard /\ e.byte \in Shifts
IsUnshift(e) == e.from = Keyboard /\ e.byte \in Unshifts
IsKey(e) == e.from = Keyboard /\ e.byte \in 1 .. 127 \ Shifts

\* No shift key is released between the two positions, and after one.
Kept(i, j) == \A h \in 1 .. Len(out) : i < h /\ h < j => ~IsUnshift(out[h])
KeptOn(i) == \A h \in 1 .. Len(out) : i < h => ~IsUnshift(out[h])

\* Where a shift key was pressed, or the driver takes it to be, and none was
\* released since, the user holds one.
ShiftedBehind(k) ==
  \A i, j \in Behind(k) :
    i < j /\ IsShift(out[i]) /\ Kept(i, j) /\ IsKey(out[j]) => out[j].shifted
HeldBehind(k) ==
  \A i \in Behind(k) : IsShift(out[i]) /\ KeptOn(i) => ShiftHeld(held)
DriverShifted(k) ==
  shift => /\ \A j \in Behind(k) : Kept(k, j) /\ IsKey(out[j]) => out[j].shifted
           /\ KeptOn(k) => ShiftHeld(held)
Capitals(k) == ShiftedBehind(k) /\ HeldBehind(k) /\ DriverShifted(k)

Queue(k) == Stream(k) /\ Capitals(k)

----------------------------------------------------------------------------
\* The answers the two WaitACK are waiting for.

Plain(e) == e.from = Keyboard /\ e.byte # ACK

OnlyAnswer(k) == /\ k \in 1 .. Len(out) /\ out[k].byte = ACK
                 /\ \A i \in 1 .. Len(out) : out[i].from = Keyboard
                 /\ \A i \in 1 .. Len(out) : i # k => out[i].byte # ACK
FirstAnswer(k) == /\ k \in 1 .. Len(out) /\ out[k].byte = ACK /\ out[k].from = Mouse
                  /\ \A i \in 1 .. (k - 1) : Plain(out[i])

Answers ==
  /\ pc \in Quiet => \A i \in 1 .. Len(out) : Plain(out[i])
  /\ pc \in Answered => \E k \in 1 .. Len(out) : OnlyAnswer(k)
  /\ pc = "waitStreaming" => \E k \in 1 .. Len(out) : FirstAnswer(k) /\ Queue(k)
  /\ pc \in {"ready", "on"} /\ ~disturbed => Queue(0)

IInv ==
  /\ Typed /\ AtRest /\ Configured /\ Pending /\ Follows /\ Answers
  /\ CapitalsWereMeant
----------------------------------------------------------------------------
\* Bits of the status byte, and the queue as a sequence.

LEMMA StatusBits ==
  ASSUME NEW b \in 0 .. 255
  PROVE  /\ Clear(b, 4) \in 0 .. 255 /\ Clear(b, 5) \in 0 .. 255
         /\ Set(b, 0) \in 0 .. 255 /\ Set(b, 1) \in 0 .. 255
         /\ ~Bit(Clear(b, 4), 4)
         /\ ~Bit(b, 4) => ~Bit(Clear(b, 5), 4)
         /\ Bit(Clear(Set(b, 0), 4), 0)
         /\ Bit(b, 0) => Bit(Clear(b, 5), 0) /\ Bit(Set(b, 1), 0)
         /\ Bit(Set(b, 1), 1)
         /\ Bit(ACK, 4)
<1>1. Clear(b, 4) \in 0 .. 255 /\ Clear(b, 5) \in 0 .. 255
  BY SMT DEF Bit, Clear
<1>2. Set(b, 0) \in 0 .. 255 /\ Set(b, 1) \in 0 .. 255
  BY SMT DEF Bit, Set
<1>3. ~Bit(Clear(b, 4), 4) /\ (~Bit(b, 4) => ~Bit(Clear(b, 5), 4))
  BY SMT DEF Bit, Clear
<1>4. Bit(Clear(Set(b, 0), 4), 0)
  BY SMT DEF Bit, Set, Clear
<1>5. Bit(b, 0) => Bit(Clear(b, 5), 0) /\ Bit(Set(b, 1), 0)
  BY SMT DEF Bit, Set, Clear
<1>6. Bit(Set(b, 1), 1) /\ Bit(ACK, 4)
  BY SMT DEF Bit, Set, ACK
<1>q. QED BY <1>1, <1>2, <1>3, <1>4, <1>5, <1>6

LEMMA PushedQueue ==
  ASSUME Typed, NEW e \in Entries, out' = Append(out, e)
  PROVE  /\ Len(out) \in Nat /\ Len(out') = Len(out) + 1
         /\ out' \in Seq(Entries) /\ out' # <<>>
         /\ \A i \in 1 .. Len(out) : out'[i] = out[i] /\ out[i] \in Entries
         /\ out'[Len(out) + 1] = e
BY DEF Typed

LEMMA PoppedQueue ==
  ASSUME Typed, out # <<>>, out' = Tail(out)
  PROVE  /\ Len(out) \in Nat \ {0} /\ Len(out') = Len(out) - 1
         /\ out' \in Seq(Entries)
         /\ \A i \in 1 .. Len(out') : out'[i] = out[i + 1]
         /\ \A i \in 1 .. Len(out) : out[i] \in Entries
BY DEF Typed

LEMMA DataPortByte ==
  ASSUME Typed
  PROVE  DataPort \in 0 .. 255
<1>1. CASE out = <<>> BY <1>1 DEF Typed, DataPort
<1>2. CASE out # <<>>
  <2>1. out[1] \in Entries BY <1>2 DEF Typed
  <2>q. QED BY <1>2, <2>1 DEF Entries, DataPort
<1>q. QED BY <1>1, <1>2

LEMMA LineInterrupts ==
  ASSUME NEW q, NEW c
  PROVE  Line(q, c) \subseteq {Keyboard, Mouse}
BY DEF Line

LEMMA ReadTyped ==
  ASSUME Typed, NEW t, ReadData(t)
  PROVE  out' \in Seq(Entries) /\ last' \in 0 .. 255 /\ irqs' \subseteq {Keyboard, Mouse}
<1>1. Line(out', config') \subseteq {Keyboard, Mouse} BY LineInterrupts
<1>2. CASE out = <<>>
  BY <1>2, DataPortByte DEF Typed, ReadData
<1>3. CASE out # <<>>
  BY <1>1, <1>3, DataPortByte, PoppedQueue DEF Typed, ReadData
<1>q. QED BY <1>2, <1>3

LEMMA PlainByte ==
  ASSUME NEW b \in 0 .. 255, NEW d \in {Keyboard, Mouse}
  PROVE  /\ Byte(b, d) \in Entries
         /\ Byte(b, d).byte = b /\ Byte(b, d).from = d /\ Byte(b, d).shifted = FALSE
BY DEF Byte, Entries

LEMMA PushTyped ==
  ASSUME Typed, NEW e \in Entries, Push(e)
  PROVE  out' \in Seq(Entries) /\ irqs' \subseteq {Keyboard, Mouse}
<1>1. Line(<<e>>, config) \subseteq {Keyboard, Mouse} BY LineInterrupts
<1>q. QED BY <1>1, PushedQueue DEF Typed, Push
----------------------------------------------------------------------------
\* The mouse's bytes behind a position, when a byte joins or leaves the queue.

LEMMA ChainMoved ==
  ASSUME NEW k \in Int, NEW d \in Int,
         Chained(k), Headed(k), Sent(k), UNCHANGED <<n, reported, packet>>,
         \A i \in MouseBehind(k - d)' : i \in Int /\ i + d \in MouseBehind(k),
         \A i \in MouseBehind(k) : i \in Int /\ i - d \in MouseBehind(k - d)',
         \A i \in MouseBehind(k - d)' : out'[i] = out[i + d]
  PROVE  Chained(k - d)' /\ Headed(k - d)' /\ Sent(k - d)'
<1>1. Chained(k - d)'
  <2> SUFFICES ASSUME NEW i \in MouseBehind(k - d)', NEW j \in MouseBehind(k - d)',
                      Neighbours(i, j, MouseBehind(k - d)')
               PROVE  /\ out'[j].place = (out'[i].place + 1) % 3
                      /\ out'[j].place # 0 => out'[j].first = out'[i].first
    BY DEF Chained, Neighbours
  <2>1. \A h \in MouseBehind(k) : h <= i + d \/ j + d <= h
    BY DEF Neighbours
  <2>q. QED BY <2>1 DEF Chained, Neighbours
<1>2. Headed(k - d)' BY DEF Headed
<1>3. Sent(k - d)'
  <2> SUFFICES ASSUME NEW i \in MouseBehind(k - d)',
                      \A j \in MouseBehind(k - d)' : j <= i
               PROVE  /\ n = (out'[i].place + 1) % 3
                      /\ out'[i].first = IF n = 0 THEN reported ELSE packet[0]
    BY DEF Sent
  <2>1. \A j \in MouseBehind(k) : j <= i + d OBVIOUS
  <2>q. QED BY <2>1 DEF Sent
<1>q. QED BY <1>1, <1>2, <1>3

LEMMA StreamMoved ==
  ASSUME NEW k \in Int, NEW d \in Int,
         Stream(k), UNCHANGED <<n, reported, packet, mouse>>,
         \A i \in MouseBehind(k - d)' : i \in Int /\ i + d \in MouseBehind(k),
         \A i \in MouseBehind(k) : i \in Int /\ i - d \in MouseBehind(k - d)',
         \A i \in MouseBehind(k - d)' : out'[i] = out[i + d]
  PROVE  Stream(k - d)'
<1>1. Chained(k - d)' /\ Headed(k - d)' /\ Sent(k - d)'
  BY ChainMoved DEF Stream
<1>2. Awaited(k - d)'
  <2> SUFFICES ASSUME NEW i \in MouseBehind(k - d)',
                      \A j \in MouseBehind(k - d)' : i <= j
               PROVE  /\ mouse.offset = out'[i].place
                      /\ mouse.offset # 0 => out'[i].first = mouse.buffer[0]
    BY DEF Awaited
  <2>1. \A j \in MouseBehind(k) : i + d <= j OBVIOUS
  <2>q. QED BY <2>1 DEF Stream, Awaited
<1>3. AllRead(k - d)' BY DEF Stream, AllRead
<1>q. QED BY <1>1, <1>2, <1>3 DEF Stream

\* A byte of the keyboard is not in the stream.
LEMMA StreamPushed ==
  ASSUME Typed, NEW e \in Entries, e.from = Keyboard, out' = Append(out, e),
         UNCHANGED <<n, reported, packet, mouse>>,
         NEW k \in 0 .. Len(out), Stream(k)
  PROVE  Stream(k)'
<1>1. k \in Int /\ 0 \in Int /\ k - 0 = k
  BY PushedQueue
<1>2. \A i \in MouseBehind(k)' : i \in Int /\ i + 0 \in MouseBehind(k)
  BY PushedQueue DEF MouseBehind, Behind, Keyboard, Mouse
<1>3. \A i \in MouseBehind(k) : i \in Int /\ i - 0 \in MouseBehind(k)'
  BY PushedQueue DEF MouseBehind, Behind
<1>4. \A i \in MouseBehind(k)' : out'[i] = out[i + 0]
  BY PushedQueue DEF MouseBehind, Behind, Keyboard, Mouse
<1>q. QED BY <1>1, <1>2, <1>3, <1>4, StreamMoved

LEMMA StreamPopped ==
  ASSUME Typed, out # <<>>, out' = Tail(out),
         UNCHANGED <<n, reported, packet, mouse>>,
         NEW k \in 1 .. Len(out), Stream(k)
  PROVE  Stream(k - 1)'
<1>1. k \in Int /\ 1 \in Int
  BY PoppedQueue
<1>2. \A i \in MouseBehind(k - 1)' : i \in Int /\ i + 1 \in MouseBehind(k)
  BY PoppedQueue DEF MouseBehind, Behind
<1>3. \A i \in MouseBehind(k) : i \in Int /\ i - 1 \in MouseBehind(k - 1)'
  <2> SUFFICES ASSUME NEW i \in MouseBehind(k)
               PROVE  i \in Int /\ i - 1 \in MouseBehind(k - 1)'
    OBVIOUS
  <2>1. i \in Int /\ i - 1 \in 1 .. Len(out') /\ k < i /\ (i - 1) + 1 = i
        /\ out[i].from = Mouse
    BY PoppedQueue DEF MouseBehind, Behind
  <2>2. out'[i - 1] = out[i]
    BY <2>1, PoppedQueue
  <2>q. QED BY <2>1, <2>2 DEF MouseBehind, Behind
<1>4. \A i \in MouseBehind(k - 1)' : out'[i] = out[i + 1]
  BY PoppedQueue DEF MouseBehind, Behind
<1>q. QED BY <1>1, <1>2, <1>3, <1>4, StreamMoved

\* The mouse adds the next byte of its packet.
LEMMA StreamSent ==
  ASSUME Typed, MouseSends, NEW k \in 0 .. Len(out), Stream(k)
  PROVE  Stream(k)'
<1> DEFINE m == [Byte(packet[n], Mouse) EXCEPT !.place = n, !.first = packet[0]]
           l == Len(out) + 1
<1>1. /\ m.byte = packet[n] /\ m.from = Mouse /\ m.place = n /\ m.first = packet[0]
      /\ m \in Entries /\ n \in 0 .. 2
  <2>1. packet \in [0 .. 2 -> 0 .. 255] /\ n \in 0 .. 2 /\ 0 \in 0 .. 2
    BY Ps2Assumption DEF Typed
  <2>2. packet[n] \in 0 .. 255 /\ packet[0] \in 0 .. 255
    BY <2>1
  <2> DEFINE b == Byte(packet[n], Mouse)
  <2>3. b \in Entries /\ b.byte = packet[n] /\ b.from = Mouse
    BY <2>2, PlainByte
  <2> HIDE DEF b
  <2>4. m = [b EXCEPT !.place = n, !.first = packet[0]]
    BY DEF b
  <2> HIDE DEF m
  <2>q. QED BY <2>1, <2>2, <2>3, <2>4 DEF Entries
<1>2. /\ out' = Append(out, m) /\ mouse' = mouse /\ n' = (n + 1) % 3
      /\ n = 2 => reported' = packet[0]
      /\ n # 2 => packet' = packet
  BY DEF MouseSends, Push, driver
<1> HIDE DEF m
<1>3. /\ k \in Int /\ Len(out) \in Nat /\ l \in MouseBehind(k)'
      /\ out'[l] = m
      /\ \A i \in MouseBehind(k) : i \in MouseBehind(k)' /\ i < l /\ out'[i] = out[i] /\ i \in Int
      /\ \A i \in MouseBehind(k)' : i \in Int /\ (i = l \/ i \in MouseBehind(k))
  BY <1>1, <1>2, PushedQueue DEF MouseBehind, Behind
<1> HIDE DEF l
<1>l. l \in Int BY <1>3
<1>4. Chained(k)'
  <2> SUFFICES ASSUME NEW i \in MouseBehind(k)', NEW j \in MouseBehind(k)',
                      Neighbours(i, j, MouseBehind(k)')
               PROVE  /\ out'[j].place = (out'[i].place + 1) % 3
                      /\ out'[j].place # 0 => out'[j].first = out'[i].first
    BY DEF Chained, Neighbours
  <2>1. i \in MouseBehind(k)
    <3>1. i < j BY DEF Neighbours
    <3>2. i \in Int /\ j \in Int /\ j <= l BY <1>3, <1>l
    <3>q. QED BY <1>3, <1>l, <3>1, <3>2
  <2>2. CASE j = l
    <3>1. \A h \in MouseBehind(k) : h <= i
      BY <1>3, <1>l, <2>2 DEF Neighbours
    <3>2. n = (out[i].place + 1) % 3 /\ out[i].first = IF n = 0 THEN reported ELSE packet[0]
      BY <2>1, <3>1 DEF Stream, Sent
    <3>q. QED BY <1>1, <1>3, <2>1, <2>2, <3>2
  <2>3. CASE j \in MouseBehind(k)
    <3>1. Neighbours(i, j, MouseBehind(k))
      BY <1>3 DEF Neighbours
    <3>q. QED BY <1>3, <2>1, <2>3, <3>1 DEF Stream, Chained
  <2>q. QED BY <1>3, <2>2, <2>3
<1>5. Headed(k)'
  BY <1>1, <1>3 DEF Stream, Headed
<1>6. Sent(k)'
  <2> SUFFICES ASSUME NEW i \in MouseBehind(k)', \A j \in MouseBehind(k)' : j <= i
               PROVE  /\ n' = (out'[i].place + 1) % 3
                      /\ out'[i].first = IF n' = 0 THEN reported' ELSE packet'[0]
    BY DEF Sent
  <2>1. i = l BY <1>3, <1>l
  <2>2. n' = 0 <=> n = 2 BY <1>1, <1>2
  <2>q. QED BY <1>1, <1>2, <1>3, <2>1, <2>2
<1>7. Awaited(k)'
  <2> SUFFICES ASSUME NEW i \in MouseBehind(k)', \A j \in MouseBehind(k)' : i <= j
               PROVE  /\ mouse.offset = out'[i].place
                      /\ mouse.offset # 0 => out'[i].first = mouse.buffer[0]
    BY <1>2 DEF Awaited
  <2>1. CASE MouseBehind(k) = {}
    <3>1. i = l BY <1>3, <2>1
    <3>q. QED BY <1>1, <1>3, <2>1, <3>1 DEF Stream, AllRead
  <2>2. CASE MouseBehind(k) # {}
    <3>1. i \in MouseBehind(k) /\ \A j \in MouseBehind(k) : i <= j
      BY <1>3, <1>l, <2>2
    <3>q. QED BY <1>3, <3>1 DEF Stream, Awaited
  <2>q. QED BY <2>1, <2>2
<1>8. AllRead(k)'
  BY <1>3 DEF AllRead
<1>q. QED BY <1>4, <1>5, <1>6, <1>7, <1>8 DEF Stream

\* The driver reads the byte in front: one of the keyboard.
LEMMA StreamReadPast ==
  ASSUME Typed, out # <<>>, out' = Tail(out), out[1].from = Keyboard,
         UNCHANGED <<n, reported, packet, mouse>>, Stream(0)
  PROVE  Stream(0)'
<1>1. MouseBehind(1) = MouseBehind(0)
  BY PoppedQueue DEF MouseBehind, Behind, Keyboard, Mouse
<1>2. Stream(1)
  BY <1>1 DEF Stream, Chained, Headed, Sent, Awaited, AllRead
<1>3. 1 \in 1 .. Len(out) /\ 1 - 1 = 0 BY PoppedQueue
<1>q. QED BY <1>2, <1>3, StreamPopped

\* One of the mouse.
LEMMA StreamReceived ==
  ASSUME Typed, out # <<>>, out' = Tail(out), out[1].from = Mouse,
         UNCHANGED <<n, reported, packet>>, Received(out[1].byte), Stream(0)
  PROVE  Stream(0)'
<1> DEFINE e == out[1]
           buffer == [mouse.buffer EXCEPT ![mouse.offset] = e.byte]
<1>1. /\ Len(out) \in Nat \ {0} /\ 1 \in MouseBehind(0)
      /\ \A i \in MouseBehind(0) : i \in Int /\ 1 <= i
  BY PoppedQueue DEF MouseBehind, Behind
<1>2. /\ mouse.offset = e.place
      /\ mouse.offset # 0 => e.first = mouse.buffer[0]
      /\ e.place = 0 => e.byte = e.first
      /\ mouse.offset \in 0 .. 2 /\ mouse.buffer \in [0 .. 2 -> 0 .. 255]
      /\ e \in Entries
  BY <1>1, PoppedQueue DEF Stream, Awaited, Headed, Typed
<1>3. buffer[0] = e.first
  <2>1. CASE mouse.offset = 0 BY <1>2, <2>1
  <2>2. CASE mouse.offset # 0 BY <1>2, <2>2
  <2>q. QED BY <2>1, <2>2
<1>4. /\ mouse'.buffer = buffer /\ mouse'.offset = (e.place + 1) % 3
      /\ mouse'.offset = 0 => mouse'.buttons = buffer[0]
  <2>1. NextOffset(mouse.offset) = (e.place + 1) % 3
    BY <1>2 DEF NextOffset
  <2>2. mouse \in [buffer : [0 .. 2 -> 0 .. 255], offset : 0 .. 2, buttons : 0 .. 255]
    BY DEF Typed
  <2>3. CASE NextOffset(mouse.offset) = 0
    <3>1. mouse' = [buffer |-> buffer, offset |-> 0, buttons |-> buffer[0]]
      BY <2>3 DEF Received
    <3>q. QED BY <2>1, <2>3, <3>1
  <2>4. CASE NextOffset(mouse.offset) # 0
    <3>1. mouse' = [mouse EXCEPT !.buffer = buffer, !.offset = NextOffset(mouse.offset)]
      BY <2>4 DEF Received
    <3> HIDE DEF buffer
    <3>q. QED BY <2>1, <2>2, <2>4, <3>1
  <2>q. QED BY <2>3, <2>4
<1> HIDE DEF buffer, e
<1>5. Chained(1) /\ Headed(1) /\ Sent(1)
  <2>1. \A i : i \in MouseBehind(1) <=> i \in MouseBehind(0) /\ i # 1
    BY PoppedQueue DEF MouseBehind, Behind
  <2>2. Chained(1)
    BY <1>1, <2>1 DEF Stream, Chained, Neighbours
  <2>3. Headed(1)
    BY <2>1 DEF Stream, Headed
  <2>4. Sent(1)
    BY <1>1, <2>1 DEF Stream, Sent
  <2>q. QED BY <2>2, <2>3, <2>4
<1>6. /\ \A i \in MouseBehind(0)' : /\ i \in Int /\ i + 1 \in MouseBehind(1)
                                    /\ i + 1 \in MouseBehind(0) /\ out'[i] = out[i + 1]
      /\ \A i \in MouseBehind(0) : i # 1 => i - 1 \in MouseBehind(0)'
      /\ \A i \in MouseBehind(1) : i \in Int /\ i - 1 \in MouseBehind(0)'
  <2>1. \A i \in MouseBehind(0) : i # 1 => i - 1 \in MouseBehind(0)'
    <3> SUFFICES ASSUME NEW i \in MouseBehind(0), i # 1
                 PROVE  i - 1 \in MouseBehind(0)'
      OBVIOUS
    <3>1. i \in Int /\ i - 1 \in 1 .. Len(out') /\ (i - 1) + 1 = i /\ out[i].from = Mouse
      BY PoppedQueue DEF MouseBehind, Behind
    <3>2. out'[i - 1] = out[i]
      BY <3>1, PoppedQueue
    <3>q. QED BY <3>1, <3>2 DEF MouseBehind, Behind
  <2>2. \A i \in MouseBehind(1) : i \in MouseBehind(0) /\ i # 1 /\ i \in Int
    BY PoppedQueue DEF MouseBehind, Behind
  <2>3. \A i \in MouseBehind(0)' : /\ i \in Int /\ i + 1 \in MouseBehind(1)
                                   /\ i + 1 \in MouseBehind(0) /\ out'[i] = out[i + 1]
    BY PoppedQueue DEF MouseBehind, Behind
  <2>q. QED BY <2>1, <2>2, <2>3
<1>7. Chained(0)' /\ Headed(0)' /\ Sent(0)'
  <2>1. 1 \in Int /\ 1 - 1 = 0 OBVIOUS
  <2>q. QED BY <1>5, <1>6, <2>1, ChainMoved
<1>8. Awaited(0)'
  <2> SUFFICES ASSUME NEW i \in MouseBehind(0)', \A j \in MouseBehind(0)' : i <= j
               PROVE  /\ mouse'.offset = out'[i].place
                      /\ mouse'.offset # 0 => out'[i].first = mouse'.buffer[0]
    BY DEF Awaited
  <2>1. 1 < i + 1 /\ i \in Int
    BY <1>6, PoppedQueue DEF MouseBehind, Behind
  <2>2. Neighbours(1, i + 1, MouseBehind(0))
    <3> SUFFICES ASSUME NEW h \in MouseBehind(0), h # 1
                 PROVE  i + 1 <= h
      BY <1>1, <2>1 DEF Neighbours
    <3>1. i <= h - 1 /\ h \in Int BY <1>1, <1>6
    <3>q. QED BY <2>1, <3>1
  <2>3. /\ out[i + 1].place = (out[1].place + 1) % 3
        /\ out[i + 1].place # 0 => out[i + 1].first = out[1].first
    BY <1>1, <1>6, <2>2 DEF Stream, Chained
  <2>q. QED BY <1>3, <1>4, <1>6, <2>3 DEF e
<1>9. AllRead(0)'
  <2> SUFFICES ASSUME MouseBehind(0)' = {}
               PROVE  /\ mouse'.offset = n
                      /\ IF n = 0 THEN mouse'.buttons = reported
                                  ELSE mouse'.buffer[0] = packet[0]
    BY DEF AllRead
  <2>1. \A j \in MouseBehind(0) : j <= 1
    BY <1>1, <1>6
  <2>2. /\ n = (out[1].place + 1) % 3
        /\ out[1].first = IF n = 0 THEN reported ELSE packet[0]
    BY <1>1, <2>1 DEF Stream, Sent
  <2>q. QED BY <1>3, <1>4, <2>2 DEF e
<1>q. QED BY <1>7, <1>8, <1>9 DEF Stream
----------------------------------------------------------------------------
\* The shift keys behind a position.

LEMMA KeptPopped ==
  ASSUME Typed, out # <<>>, out' = Tail(out), NEW i \in Int, 0 <= i
  PROVE  /\ \A j \in Int : Kept(i, j)' => Kept(i + 1, j + 1)
         /\ KeptOn(i)' => KeptOn(i + 1)
<1>1. ASSUME NEW h \in 1 .. Len(out), i + 1 < h
      PROVE  /\ h - 1 \in 1 .. Len(out') /\ (h - 1) + 1 = h /\ i < h - 1
             /\ out'[h - 1] = out[h]
  <2>1. h - 1 \in 1 .. Len(out') /\ (h - 1) + 1 = h /\ i < h - 1
    BY <1>1, PoppedQueue
  <2>q. QED BY <2>1, PoppedQueue
<1>2. ASSUME NEW j \in Int, Kept(i, j)'
      PROVE  Kept(i + 1, j + 1)
  <2> SUFFICES ASSUME NEW h \in 1 .. Len(out), i + 1 < h, h < j + 1
               PROVE  ~IsUnshift(out[h])
    BY DEF Kept
  <2>1. h - 1 < j BY PoppedQueue
  <2>q. QED BY <1>1, <1>2, <2>1 DEF Kept, IsUnshift
<1>3. ASSUME KeptOn(i)'
      PROVE  KeptOn(i + 1)
  BY <1>1, <1>3 DEF KeptOn, IsUnshift
<1>q. QED BY <1>2, <1>3

LEMMA CapitalsPopped ==
  ASSUME Typed, out # <<>>, out' = Tail(out),
         NEW k \in 1 .. Len(out), ShiftedBehind(k), HeldBehind(k), held' = held,
         shift' => /\ \A j \in Behind(k) : Kept(k, j) /\ IsKey(out[j]) => out[j].shifted
                   /\ KeptOn(k) => ShiftHeld(held)
  PROVE  Capitals(k - 1)'
<1>1. k \in Int /\ 0 <= k - 1 /\ k - 1 \in Int /\ (k - 1) + 1 = k
  BY PoppedQueue
<1>2. \A i \in Behind(k - 1)' : /\ i \in Int /\ 0 <= i /\ i + 1 \in Behind(k)
                                /\ out'[i] = out[i + 1]
  BY PoppedQueue DEF Behind
<1>3. ShiftedBehind(k - 1)'
  <2> SUFFICES ASSUME NEW i \in Behind(k - 1)', NEW j \in Behind(k - 1)',
                      i < j, IsShift(out'[i]), Kept(i, j)', IsKey(out'[j])
               PROVE  out'[j].shifted
    BY DEF ShiftedBehind, IsShift, IsKey
  <2>1. Kept(i + 1, j + 1)
    BY <1>2, KeptPopped
  <2>2. i + 1 < j + 1 BY <1>2
  <2>q. QED BY <1>2, <2>1, <2>2 DEF ShiftedBehind
<1>4. HeldBehind(k - 1)'
  <2> SUFFICES ASSUME NEW i \in Behind(k - 1)', IsShift(out'[i]), KeptOn(i)'
               PROVE  ShiftHeld(held)
    BY DEF HeldBehind, IsShift, ShiftHeld
  <2>1. KeptOn(i + 1)
    BY <1>1, <1>2, KeptPopped
  <2>q. QED BY <1>2, <2>1 DEF HeldBehind
<1>5. DriverShifted(k - 1)'
  <2> SUFFICES ASSUME shift'
               PROVE  /\ \A j \in Behind(k - 1)' :
                            Kept(k - 1, j)' /\ IsKey(out'[j]) => out'[j].shifted
                      /\ KeptOn(k - 1)' => ShiftHeld(held)
    BY DEF DriverShifted, IsKey, ShiftHeld
  <2>1. ASSUME NEW j \in Behind(k - 1)', Kept(k - 1, j)', IsKey(out'[j])
        PROVE  out'[j].shifted
    <3>1. Kept(k, j + 1)
      BY <1>1, <1>2, <2>1, KeptPopped
    <3>q. QED BY <1>2, <2>1, <3>1
  <2>2. ASSUME KeptOn(k - 1)'
        PROVE  ShiftHeld(held)
    <3>1. KeptOn(k)
      BY <1>1, <2>2, KeptPopped
    <3>q. QED BY <3>1
  <2>q. QED BY <2>1, <2>2
<1>q. QED BY <1>3, <1>4, <1>5 DEF Capitals

\* The driver reads the byte in front and makes of it what it is.
LEMMA CapitalsRead ==
  ASSUME Typed, out # <<>>, out' = Tail(out), held' = held, Capitals(0),
         IF out[1].from = Keyboard THEN shift' = ShiftAfter(out[1].byte)
                                   ELSE shift' = shift
  PROVE  Capitals(0)'
<1>1. /\ Len(out) \in Nat \ {0} /\ 1 \in Behind(0) /\ 1 \in 1 .. Len(out) /\ 1 - 1 = 0
      /\ \A i \in Behind(1) : i \in Behind(0) /\ i \in Int /\ 1 < i
      /\ shift \in BOOLEAN
  BY PoppedQueue DEF Behind, Typed
<1>2. ShiftedBehind(1) /\ HeldBehind(1)
  BY <1>1 DEF Capitals, ShiftedBehind, HeldBehind
<1>3. ASSUME shift'
      PROVE  /\ \A j \in Int : Kept(1, j) => IsShift(out[1]) \/ (shift /\ Kept(0, j))
             /\ KeptOn(1) => IsShift(out[1]) \/ (shift /\ KeptOn(0))
  <2>1. IsShift(out[1]) \/ (shift /\ ~IsUnshift(out[1]))
    <3>1. CASE out[1].from = Keyboard
      BY <1>3, <3>1 DEF ShiftAfter, IsShift, IsUnshift, Shifts, Unshifts
    <3>2. CASE out[1].from # Keyboard
      BY <1>3, <3>2 DEF IsUnshift
    <3>q. QED BY <3>1, <3>2
  <2>2. ASSUME ~IsUnshift(out[1]), NEW j \in Int, Kept(1, j) PROVE Kept(0, j)
    BY <1>1, <2>2 DEF Kept
  <2>3. ASSUME ~IsUnshift(out[1]), KeptOn(1) PROVE KeptOn(0)
    BY <1>1, <2>3 DEF KeptOn
  <2>q. QED BY <2>1, <2>2, <2>3
<1>4. ASSUME shift'
      PROVE  /\ \A j \in Behind(1) : Kept(1, j) /\ IsKey(out[j]) => out[j].shifted
             /\ KeptOn(1) => ShiftHeld(held)
  <2>1. ASSUME NEW j \in Behind(1), Kept(1, j), IsKey(out[j])
        PROVE  out[j].shifted
    <3>1. j \in Int /\ j \in Behind(0) /\ 1 < j BY <1>1
    <3>2. IsShift(out[1]) \/ (shift /\ Kept(0, j))
      BY <1>3, <1>4, <2>1, <3>1
    <3>3. CASE IsShift(out[1])
      BY <1>1, <2>1, <3>1, <3>3 DEF Capitals, ShiftedBehind
    <3>4. CASE shift /\ Kept(0, j)
      BY <2>1, <3>1, <3>4 DEF Capitals, DriverShifted
    <3>q. QED BY <3>2, <3>3, <3>4
  <2>2. ASSUME KeptOn(1)
        PROVE  ShiftHeld(held)
    <3>1. IsShift(out[1]) \/ (shift /\ KeptOn(0))
      BY <1>1, <1>3, <1>4, <2>2
    <3>q. QED BY <1>1, <2>2, <3>1 DEF Capitals, HeldBehind, DriverShifted
  <2>q. QED BY <2>1, <2>2
<1>q. QED BY <1>1, <1>2, <1>4, CapitalsPopped

\* A device sends a byte that tells the truth about the shift keys.
LEMMA CapitalsPushed ==
  ASSUME Typed, NEW e \in Entries, out' = Append(out, e), shift' = shift,
         IsKey(e) /\ ShiftHeld(held) => e.shifted,
         IsShift(e) => ShiftHeld(held'),
         ShiftHeld(held) /\ ~IsUnshift(e) => ShiftHeld(held'),
         NEW k \in 0 .. Len(out), Capitals(k)
  PROVE  Capitals(k)'
<1> DEFINE l == Len(out) + 1
<1>1. /\ k \in Int /\ Len(out) \in Nat /\ Len(out') = l /\ out'[l] = e /\ k < l
      /\ \A i \in 1 .. Len(out) : out'[i] = out[i] /\ i \in 1 .. Len(out')
      /\ l \in 1 .. Len(out')
      /\ \A i \in Behind(k)' : i \in Int /\ (i = l \/ i \in Behind(k))
      /\ \A i \in Behind(k) : i \in Int /\ i < l /\ out'[i] = out[i]
  BY PushedQueue DEF Behind
<1>2. ASSUME NEW i \in Int, NEW j \in Int, j <= l, Kept(i, j)'
      PROVE  Kept(i, j)
  <2> SUFFICES ASSUME NEW h \in 1 .. Len(out), i < h, h < j
               PROVE  ~IsUnshift(out[h])
    BY DEF Kept
  <2>q. QED BY <1>1, <1>2 DEF Kept, IsUnshift
<1>3. ASSUME NEW i \in Int, i < l, KeptOn(i)'
      PROVE  KeptOn(i) /\ ~IsUnshift(e)
  <2>1. ~IsUnshift(e)
    BY <1>1, <1>3 DEF KeptOn, IsUnshift
  <2>2. KeptOn(i)
    BY <1>1, <1>3 DEF KeptOn, IsUnshift
  <2>q. QED BY <2>1, <2>2
<1>4. l \in Int /\ l + 1 \in Int /\ l <= l BY <1>1
<1> HIDE DEF l
<1>5. ShiftedBehind(k)'
  <2> SUFFICES ASSUME NEW i \in Behind(k)', NEW j \in Behind(k)',
                      i < j, IsShift(out'[i]), Kept(i, j)', IsKey(out'[j])
               PROVE  out'[j].shifted
    BY DEF ShiftedBehind, IsShift, IsKey
  <2>1. i \in Behind(k) /\ i \in Int /\ j \in Int /\ j <= l
    BY <1>1, <1>4
  <2>2. Kept(i, j)
    BY <1>2, <2>1
  <2>3. CASE j = l
    <3>1. KeptOn(i)
      BY <1>1, <2>2, <2>3 DEF Kept, KeptOn
    <3>2. ShiftHeld(held)
      BY <1>1, <2>1, <3>1 DEF Capitals, HeldBehind
    <3>q. QED BY <1>1, <2>3, <3>2
  <2>4. CASE j \in Behind(k)
    BY <1>1, <2>1, <2>2, <2>4 DEF Capitals, ShiftedBehind
  <2>q. QED BY <1>1, <2>3, <2>4
<1>6. HeldBehind(k)'
  <2> SUFFICES ASSUME NEW i \in Behind(k)', IsShift(out'[i]), KeptOn(i)'
               PROVE  ShiftHeld(held')
    BY DEF HeldBehind, IsShift, ShiftHeld
  <2>1. CASE i = l
    BY <1>1, <2>1
  <2>2. CASE i \in Behind(k)
    <3>1. KeptOn(i) /\ ~IsUnshift(e)
      BY <1>1, <1>3, <2>2
    <3>2. ShiftHeld(held)
      BY <1>1, <2>2, <3>1 DEF Capitals, HeldBehind
    <3>q. QED BY <3>1, <3>2
  <2>q. QED BY <1>1, <2>1, <2>2
<1>7. DriverShifted(k)'
  <2> SUFFICES ASSUME shift
               PROVE  /\ \A j \in Behind(k)' :
                            Kept(k, j)' /\ IsKey(out'[j]) => out'[j].shifted
                      /\ KeptOn(k)' => ShiftHeld(held')
    BY DEF DriverShifted, IsKey, ShiftHeld
  <2>1. ASSUME NEW j \in Behind(k)', Kept(k, j)', IsKey(out'[j])
        PROVE  out'[j].shifted
    <3>1. j \in Int /\ j <= l BY <1>1, <1>4
    <3>2. Kept(k, j) BY <1>1, <1>2, <2>1, <3>1
    <3>3. CASE j = l
      <4>1. KeptOn(k)
        BY <1>1, <3>2, <3>3 DEF Kept, KeptOn
      <4>q. QED BY <1>1, <2>1, <3>3, <4>1 DEF Capitals, DriverShifted
    <3>4. CASE j \in Behind(k)
      BY <1>1, <2>1, <3>2, <3>4 DEF Capitals, DriverShifted
    <3>q. QED BY <1>1, <3>3, <3>4
  <2>2. ASSUME KeptOn(k)'
        PROVE  ShiftHeld(held')
    <3>1. KeptOn(k) /\ ~IsUnshift(e) BY <1>1, <1>3, <2>2
    <3>q. QED BY <3>1 DEF Capitals, DriverShifted
  <2>q. QED BY <2>1, <2>2
<1>q. QED BY <1>5, <1>6, <1>7 DEF Capitals
----------------------------------------------------------------------------
\* The user types and moves the mouse.

LEMMA LineRaised ==
  ASSUME NEW q, NEW c, q # <<>>, q[1].from \in {Keyboard, Mouse}, Bit(c, 0), Bit(c, 1)
  PROVE  q[1].from \in Line(q, c)
BY DEF Line, Keyboard, Mouse

LEMMA PendingSent ==
  ASSUME IInv, NEW e \in Entries, Push(e), UNCHANGED <<disturbed, last, config>>,
         pc' \in Listening => pc \in Listening
  PROVE  Pending'
<1>1. out' # <<>> /\ Typed /\ out' = Append(out, e)
  BY PushedQueue DEF IInv, Push
<1>2. ASSUME pc' \in Listening, ~disturbed
      PROVE  out'[1].from \in irqs'
  <2>1. CASE out = <<>>
    <3>1. Bit(config, 0) /\ Bit(config, 1)
      BY <1>2 DEF IInv, Configured, Enabled
    <3>2. <<e>>[1] = e /\ <<e>> # <<>> /\ out' = <<e>> /\ e.from \in {Keyboard, Mouse}
      BY <1>1, <2>1 DEF Entries
    <3>3. e.from \in Line(<<e>>, config)
      BY <3>1, <3>2, LineRaised
    <3>q. QED BY <2>1, <3>2, <3>3 DEF Push
  <2>2. CASE out # <<>>
    <3>1. out'[1] = out[1] /\ irqs' = irqs
      BY <1>1, <2>2 DEF Push, Typed
    <3>q. QED BY <1>2, <2>2, <3>1 DEF IInv, Pending
  <2>q. QED BY <2>1, <2>2
<1>q. QED BY <1>1, <1>2 DEF Pending

LEMMA AnswersSent ==
  ASSUME IInv, NEW e \in Entries, out' = Append(out, e), UNCHANGED <<pc, disturbed>>,
         e.from = Mouse => streaming, e.from = Keyboard => e.byte # ACK,
         \A k \in 0 .. Len(out) : Queue(k) => Queue(k)'
  PROVE  Answers'
<1>1. /\ Len(out) \in Nat /\ Len(out') = Len(out) + 1 /\ out'[Len(out) + 1] = e
      /\ \A i \in 1 .. Len(out) : out'[i] = out[i]
  BY PushedQueue DEF IInv
<1>2. e.from \in {Keyboard, Mouse} BY DEF Entries
<1>3. ASSUME pc \in Quiet \cup Answered PROVE e.from = Keyboard /\ e.byte # ACK
  BY <1>2, <1>3 DEF IInv, AtRest, Quiet, Answered, Reporting
<1>4. ASSUME pc \in Quiet PROVE \A i \in 1 .. Len(out') : Plain(out'[i])
  BY <1>1, <1>3, <1>4 DEF IInv, Answers, Plain
<1>5. ASSUME pc \in Answered PROVE \E k \in 1 .. Len(out') : OnlyAnswer(k)'
  <2>1. PICK k \in 1 .. Len(out) : OnlyAnswer(k)
    BY <1>5 DEF IInv, Answers
  <2>2. OnlyAnswer(k)'
    BY <1>1, <1>3, <1>5, <2>1 DEF OnlyAnswer
  <2>q. QED BY <1>1, <2>2
<1>6. ASSUME pc = "waitStreaming"
      PROVE  \E k \in 1 .. Len(out') : FirstAnswer(k)' /\ Queue(k)'
  <2>1. PICK k \in 1 .. Len(out) : FirstAnswer(k) /\ Queue(k)
    BY <1>6 DEF IInv, Answers
  <2>2. FirstAnswer(k)'
    BY <1>1, <2>1 DEF FirstAnswer, Plain
  <2>q. QED BY <1>1, <2>1, <2>2
<1>7. ASSUME pc \in {"ready", "on"}, ~disturbed PROVE Queue(0)'
  BY <1>1, <1>7 DEF IInv, Answers
<1>q. QED BY <1>4, <1>5, <1>6, <1>7 DEF Answers, Plain

\* What a key sends.
LEMMA KeySent ==
  ASSUME IInv, NEW e \in Entries, e.from = Keyboard, e.byte # ACK, Push(e),
         IsKey(e) /\ ShiftHeld(held) => e.shifted,
         IsShift(e) => ShiftHeld(held'),
         ShiftHeld(held) /\ ~IsUnshift(e) => ShiftHeld(held'),
         held' \subseteq Keys,
         UNCHANGED <<last, config, packet, n, reported, streaming, driver, pc, disturbed>>
  PROVE  IInv'
<1>1. Typed'
  BY PushTyped DEF IInv, Typed, driver
<1>2. AtRest' /\ Configured' /\ Follows' /\ CapitalsWereMeant'
  BY DEF IInv, AtRest, Configured, Follows, CapitalsWereMeant, driver
<1>3. Pending' BY PendingSent
<1>4. Answers'
  <2>1. ASSUME NEW k \in 0 .. Len(out), Queue(k) PROVE Queue(k)'
    <3>1. Stream(k)'
      BY <2>1, StreamPushed DEF IInv, Queue, Push, driver
    <3>2. Capitals(k)'
      BY <2>1, CapitalsPushed DEF IInv, Queue, Push, driver
    <3>q. QED BY <3>1, <3>2 DEF Queue
  <2>2. e.from = Mouse => streaming BY DEF Keyboard, Mouse
  <2>q. QED BY <2>1, <2>2, AnswersSent DEF Push
<1>q. QED BY <1>1, <1>2, <1>3, <1>4 DEF IInv

LEMMA TypingStep ==
  ASSUME IInv, Typing
  PROVE  IInv'
<1>1. PICK x \in Keys : PressKey(x) \/ ReleaseKey(x) BY DEF Typing
<1>2. /\ x \in 1 .. 127 /\ x # ACK /\ x + 128 # ACK /\ x + 128 \in 129 .. 255
      /\ held \subseteq Keys
  BY Ps2Assumption DEF ACK, IInv, Typed
<1>3. CASE PressKey(x)
  <2> DEFINE e == [Byte(x, Keyboard) EXCEPT !.shifted = ShiftHeld(held)]
  <2>1. /\ e \in Entries /\ e.from = Keyboard /\ e.byte = x
        /\ e.shifted = ShiftHeld(held)
    <3>1. ShiftHeld(held) \in BOOLEAN BY DEF ShiftHeld
    <3> DEFINE b == Byte(x, Keyboard)
    <3>2. b \in Entries /\ b.byte = x /\ b.from = Keyboard
      <4>1. x \in 0 .. 255 /\ Keyboard \in {Keyboard, Mouse} BY <1>2
      <4>q. QED BY <4>1, PlainByte
    <3> HIDE DEF b
    <3>3. e = [b EXCEPT !.shifted = ShiftHeld(held)] BY DEF b
    <3> HIDE DEF e
    <3>q. QED BY <3>1, <3>2, <3>3 DEF Entries
  <2>2. Push(e) /\ held' = held \cup {x}
        /\ UNCHANGED <<last, config, packet, n, reported, streaming, driver, pc, disturbed>>
    BY <1>3 DEF PressKey
  <2> HIDE DEF e
  <2>3. IsShift(e) => ShiftHeld(held')
    BY <2>1, <2>2 DEF IsShift, Shifts, ShiftHeld
  <2>4. ShiftHeld(held) => ShiftHeld(held') BY <2>2 DEF ShiftHeld
  <2>5. held' \subseteq Keys BY <1>2, <2>2
  <2>q. QED BY <1>2, <2>1, <2>2, <2>3, <2>4, <2>5, KeySent
<1>4. CASE ReleaseKey(x)
  <2> DEFINE e == Byte(x + 128, Keyboard)
  <2>1. e \in Entries /\ e.from = Keyboard /\ e.byte = x + 128
    <3>1. x + 128 \in 0 .. 255 /\ Keyboard \in {Keyboard, Mouse} BY <1>2
    <3>q. QED BY <3>1, PlainByte
  <2>2. Push(e) /\ held' = held \ {x}
        /\ UNCHANGED <<last, config, packet, n, reported, streaming, driver, pc, disturbed>>
    BY <1>4 DEF ReleaseKey
  <2> HIDE DEF e
  <2>3. ~IsKey(e) /\ ~IsShift(e)
    BY <1>2, <2>1 DEF IsKey, IsShift, Shifts, LeftShift, RightShift
  <2>4. ShiftHeld(held) /\ ~IsUnshift(e) => ShiftHeld(held')
    BY <1>2, <2>1, <2>2 DEF IsUnshift, Unshifts, ShiftHeld
  <2>5. held' \subseteq Keys BY <1>2, <2>2
  <2>q. QED BY <1>2, <2>1, <2>2, <2>3, <2>4, <2>5, KeySent
<1>q. QED BY <1>1, <1>3, <1>4

LEMMA MouseSendsStep ==
  ASSUME IInv, MouseSends
  PROVE  IInv'
<1> DEFINE m == [Byte(packet[n], Mouse) EXCEPT !.place = n, !.first = packet[0]]
<1>1. /\ packet \in [0 .. 2 -> 0 .. 255] /\ n \in 0 .. 2
      /\ packet[n] \in 0 .. 255 /\ packet[0] \in 0 .. 255
  <2>1. packet \in [0 .. 2 -> 0 .. 255] /\ n \in 0 .. 2 /\ 0 \in 0 .. 2
    BY Ps2Assumption DEF IInv, Typed
  <2>q. QED BY <2>1
<1>2. m \in Entries /\ m.from = Mouse
  <2> DEFINE b == Byte(packet[n], Mouse)
  <2>1. b \in Entries /\ b.from = Mouse BY <1>1, PlainByte
  <2> HIDE DEF b
  <2>2. m = [b EXCEPT !.place = n, !.first = packet[0]] BY DEF b
  <2> HIDE DEF m
  <2>q. QED BY <1>1, <2>1, <2>2 DEF Entries
<1>3. /\ Push(m) /\ out' = Append(out, m) /\ streaming /\ n' = (n + 1) % 3
      /\ packet' \in Packets /\ reported' \in 0 .. 255
      /\ UNCHANGED <<last, config, held, streaming, driver, pc, disturbed>>
  BY <1>1 DEF IInv, Typed, MouseSends, Push
<1> HIDE DEF m
<1>4. Typed'
  BY <1>1, <1>2, <1>3, PushTyped DEF IInv, Typed, driver
<1>5. AtRest' /\ Configured' /\ Follows' /\ CapitalsWereMeant'
  BY <1>3 DEF IInv, AtRest, Configured, Follows, CapitalsWereMeant, driver
<1>6. Pending' BY <1>2, <1>3, PendingSent
<1>7. Answers'
  <2>1. ASSUME NEW k \in 0 .. Len(out), Queue(k) PROVE Queue(k)'
    <3>1. Stream(k)'
      BY <2>1, StreamSent DEF IInv, Queue
    <3>2. ~IsKey(m) /\ ~IsShift(m) /\ (ShiftHeld(held) => ShiftHeld(held'))
      BY <1>2, <1>3 DEF IsKey, IsShift, Keyboard, Mouse
    <3>3. Capitals(k)'
      BY <1>2, <1>3, <2>1, <3>2, CapitalsPushed DEF IInv, Queue, driver
    <3>q. QED BY <3>1, <3>3 DEF Queue
  <2>2. m.from = Keyboard => m.byte # ACK BY <1>2 DEF Keyboard, Mouse
  <2>q. QED BY <1>2, <1>3, <2>1, <2>2, AnswersSent
<1>q. QED BY <1>4, <1>5, <1>6, <1>7 DEF IInv
----------------------------------------------------------------------------
\* The activation.

LEMMA DriverAtRest ==
  ASSUME IInv, UNCHANGED <<n, reported, streaming, driver>>, pc # "on",
         pc \in Reporting <=> pc' \in Reporting, disturbed => disturbed'
  PROVE  AtRest' /\ Follows' /\ CapitalsWereMeant'
BY DEF IInv, AtRest, Follows, CapitalsWereMeant, driver

\* Reading before the controller is asked for anything that matters.
LEMMA DrainStep ==
  ASSUME IInv, Drain
  PROVE  IInv'
<1>1. pc = "drain" /\ pc' \in {"drain", "keyboardConfig"} /\ config' = config
  BY DEF Drain, port
<1>2. Typed'
  <2>1. out' \in Seq(Entries) /\ last' \in 0 .. 255 /\ irqs' \subseteq {Keyboard, Mouse}
    <3>1. CASE out = <<>> BY <3>1 DEF IInv, Typed, Drain, port
    <3>2. CASE out # <<>> BY <3>2, ReadTyped DEF IInv, Drain
    <3>q. QED BY <3>1, <3>2
  <2>q. QED BY <1>1, <2>1 DEF IInv, Typed, Drain, device, driver, Quiet
<1>3. AtRest' /\ Follows' /\ CapitalsWereMeant'
  BY <1>1, DriverAtRest DEF Drain, device, Reporting
<1>4. Configured' /\ Pending'
  BY <1>1 DEF Configured, Pending, Unlocked, Enabled, Listening, Reporting
<1>5. Answers'
  <2>1. \A i \in 1 .. Len(out) : Plain(out[i])
    BY <1>1 DEF IInv, Answers, Quiet
  <2>2. \A i \in 1 .. Len(out') : Plain(out'[i])
    <3>1. CASE out = <<>> BY <2>1, <3>1 DEF Drain, port
    <3>2. CASE out # <<>>
      <4>1. out' = Tail(out) BY <3>2 DEF Drain, ReadData
      <4>2. \A i \in 1 .. Len(out') : out'[i] = out[i + 1] /\ i + 1 \in 1 .. Len(out)
        BY <3>2, <4>1, PoppedQueue DEF IInv
      <4>q. QED BY <2>1, <4>2
    <3>q. QED BY <3>1, <3>2
  <2>q. QED BY <1>1, <2>2 DEF Answers, Answered, Plain
<1>q. QED BY <1>2, <1>3, <1>4, <1>5 DEF IInv

\* A status byte that is asked for is no answer, for the keyboard is enabled.
LEMMA AskConfigStep ==
  ASSUME IInv, NEW c \in 0 .. 255, ~Bit(c, 4), AskConfig(c),
         UNCHANGED <<device, driver, disturbed>>, pc \in Quiet,
         \/ pc' = "keyboardStatus"
         \/ pc' = "mouseStatus" /\ (~disturbed => Bit(c, 0))
  PROVE  IInv'
<1> DEFINE e == Byte(c, Keyboard)
<1>1. e \in Entries /\ e.from = Keyboard /\ e.byte = c /\ c # ACK
  <2>1. Keyboard \in {Keyboard, Mouse} /\ 255 \in 0 .. 255 OBVIOUS
  <2>2. Bit(ACK, 4) BY StatusBits
  <2>q. QED BY <2>1, <2>2, PlainByte
<1>2. out' = Append(out, e) /\ config' = c /\ last' = last
      /\ irqs' \subseteq irqs \cup Line(out', c)
  BY DEF AskConfig
<1> HIDE DEF e
<1>3. Typed'
  <2>1. out' \in Seq(Entries) BY <1>1, <1>2, PushedQueue DEF IInv
  <2>2. Line(out', c) \subseteq {Keyboard, Mouse} BY LineInterrupts
  <2>q. QED BY <1>2, <2>1, <2>2 DEF IInv, Typed, device, driver, Quiet
<1>4. AtRest' /\ Follows' /\ CapitalsWereMeant'
  BY DriverAtRest DEF device, Reporting, Quiet
<1>5. Configured' /\ Pending'
  BY <1>2 DEF Configured, Pending, Unlocked, Enabled, Listening, Reporting
<1>6. Answers'
  <2>1. \A i \in 1 .. Len(out) : Plain(out[i])
    BY DEF IInv, Answers
  <2>2. \A i \in 1 .. Len(out') : Plain(out'[i])
    BY <1>1, <1>2, <2>1, PushedQueue DEF IInv, Plain
  <2>q. QED BY <2>2 DEF Answers, Answered, Plain
<1>q. QED BY <1>3, <1>4, <1>5, <1>6 DEF IInv

LEMMA KeyboardConfigStep ==
  ASSUME IInv, KeyboardConfig
  PROVE  IInv'
<1>1. config \in 0 .. 255 BY DEF IInv, Typed
<1>2. Clear(config, 4) \in 0 .. 255 /\ ~Bit(Clear(config, 4), 4)
  BY <1>1, StatusBits
<1>q. QED BY <1>2, AskConfigStep DEF KeyboardConfig, Quiet

LEMMA MouseConfigStep ==
  ASSUME IInv, MouseConfig
  PROVE  IInv'
<1>1. pc = "mouseConfig" /\ pc' = "mouseStatus" BY DEF MouseConfig
<1>2. /\ config \in 0 .. 255 /\ ~Bit(config, 4)
      /\ ~disturbed => Bit(config, 0)
  BY <1>1 DEF IInv, Typed, Configured, Unlocked, Enabled
<1>q. QED BY <1>1, <1>2, AskConfigStep DEF MouseConfig, Quiet

\* Reading the status byte back and writing it, changed by s.
LEMMA WriteConfigStep ==
  ASSUME IInv, NEW s \in 0 .. 255, WriteConfig(s), UNCHANGED <<device, driver>>,
         \/ pc = "keyboardStatus" /\ pc' = "keyboardEnable" /\ ~Bit(s, 4) /\ Bit(s, 0)
         \/ /\ pc = "mouseStatus" /\ pc' = "mouseStream" /\ Bit(s, 1)
            /\ Bit(DataPort, 0) => Bit(s, 0)
  PROVE  IInv'
<1>1. /\ config' = s /\ ReadData({}) /\ pc \in Quiet /\ pc' \in Quiet
      /\ disturbed' = (disturbed \/ DataPort # config)
  BY DEF WriteConfig, Quiet
<1>2. Typed'
  <2>1. out' \in Seq(Entries) /\ last' \in 0 .. 255 /\ irqs' \subseteq {Keyboard, Mouse}
    BY <1>1, ReadTyped DEF IInv
  <2>2. disturbed' \in BOOLEAN BY <1>1 DEF IInv, Typed
  <2>q. QED BY <1>1, <2>1, <2>2 DEF IInv, Typed, device, driver
<1>3. AtRest' /\ Follows' /\ CapitalsWereMeant'
  BY <1>1, DriverAtRest DEF device, Reporting, Quiet
<1>4. Configured'
  <2>1. CASE pc = "keyboardStatus"
    BY <1>1, <2>1 DEF Configured, Unlocked, Enabled, Listening, Reporting
  <2>2. CASE pc = "mouseStatus"
    <3>1. ~disturbed' => Bit(s, 0) /\ Bit(s, 1)
      BY <1>1, <2>2 DEF IInv, Configured, Enabled
    <3>q. QED BY <1>1, <2>2, <3>1 DEF Configured, Unlocked, Enabled, Listening, Reporting
  <2>q. QED BY <2>1, <2>2
<1>5. Pending'
  <2> SUFFICES ASSUME pc' \in Listening, ~disturbed', out' # <<>>
               PROVE  out'[1].from \in irqs'
    BY <1>1 DEF Pending, Quiet
  <2>1. Bit(s, 0) /\ Bit(s, 1)
    BY <1>1, <1>4 DEF Configured, Enabled
  <2>2. out # <<>> /\ out' = Tail(out) /\ Line(out', s) \subseteq irqs'
    BY <1>1 DEF ReadData
  <2>3. out'[1].from \in {Keyboard, Mouse}
    <3>1. out' \in Seq(Entries) /\ 1 \in 1 .. Len(out') BY <1>2 DEF Typed
    <3>2. out'[1] \in Entries BY <3>1
    <3>q. QED BY <3>2 DEF Entries
  <2>q. QED BY <2>1, <2>2, <2>3, LineRaised
<1>6. Answers'
  <2>1. \A i \in 1 .. Len(out) : Plain(out[i])
    BY <1>1 DEF IInv, Answers
  <2>2. \A i \in 1 .. Len(out') : Plain(out'[i])
    <3>1. CASE out = <<>> BY <1>1, <2>1, <3>1 DEF ReadData
    <3>2. CASE out # <<>>
      <4>1. out' = Tail(out) BY <1>1, <3>2 DEF ReadData
      <4>2. \A i \in 1 .. Len(out') : out'[i] = out[i + 1] /\ i + 1 \in 1 .. Len(out)
        BY <3>2, <4>1, PoppedQueue DEF IInv
      <4>q. QED BY <2>1, <4>2
    <3>q. QED BY <3>1, <3>2
  <2>q. QED BY <1>1, <2>2 DEF Answers, Answered, Quiet, Plain
<1>q. QED BY <1>2, <1>3, <1>4, <1>5, <1>6 DEF IInv

LEMMA KeyboardStatusStep ==
  ASSUME IInv, KeyboardStatus
  PROVE  IInv'
<1> DEFINE s == Clear(Set(DataPort, 0), 4)
<1>1. Set(DataPort, 0) \in 0 .. 255
  BY DataPortByte, StatusBits DEF IInv
<1>2. s \in 0 .. 255 /\ ~Bit(s, 4) BY <1>1, StatusBits
<1>3. Bit(s, 0) BY DataPortByte, StatusBits DEF IInv
<1>4. WriteConfig(s) BY DEF KeyboardStatus
<1> HIDE DEF s
<1>q. QED BY <1>2, <1>3, <1>4, WriteConfigStep DEF KeyboardStatus

LEMMA MouseStatusStep ==
  ASSUME IInv, MouseStatus
  PROVE  IInv'
<1> DEFINE s == Set(DataPort, 1)
<1>1. s \in 0 .. 255 /\ Bit(s, 1) /\ (Bit(DataPort, 0) => Bit(s, 0))
  BY DataPortByte, StatusBits DEF IInv
<1>2. WriteConfig(s) BY DEF MouseStatus
<1> HIDE DEF s
<1>q. QED BY <1>1, <1>2, WriteConfigStep DEF MouseStatus

\* The keyboard's answer is the only one.
LEMMA KeyboardEnableStep ==
  ASSUME IInv, KeyboardEnable
  PROVE  IInv'
<1> DEFINE e == Byte(ACK, Keyboard)
<1>1. e \in Entries /\ e.from = Keyboard /\ e.byte = ACK
  <2>1. Keyboard \in {Keyboard, Mouse} /\ ACK \in 0 .. 255 BY DEF ACK
  <2>q. QED BY <2>1, PlainByte
<1>2. Push(e) /\ out' = Append(out, e) /\ pc = "keyboardEnable" /\ pc' = "mouseEnable"
      /\ UNCHANGED <<last, config, device, driver, disturbed>>
  BY DEF KeyboardEnable, Push
<1> HIDE DEF e
<1>3. Typed'
  BY <1>1, <1>2, PushTyped DEF IInv, Typed, device, driver, Answered
<1>4. AtRest' /\ Follows' /\ CapitalsWereMeant'
  BY <1>2, DriverAtRest DEF device, Reporting
<1>5. Configured'
  BY <1>2 DEF IInv, Configured, Unlocked, Enabled, Listening, Reporting
<1>6. Pending'
  BY <1>2 DEF Pending, Listening, Reporting
<1>7. Answers'
  <2>1. \A i \in 1 .. Len(out) : Plain(out[i])
    BY <1>2 DEF IInv, Answers, Quiet
  <2>2. PICK l \in Int : l = Len(out) + 1
    BY <1>1, <1>2, PushedQueue DEF IInv
  <2>3. l \in 1 .. Len(out') /\ OnlyAnswer(l)'
    BY <1>1, <1>2, <2>1, <2>2, PushedQueue DEF IInv, OnlyAnswer, Plain
  <2>q. QED BY <1>2, <2>3 DEF Answers, Quiet
<1>q. QED BY <1>3, <1>4, <1>5, <1>6, <1>7 DEF IInv

LEMMA MouseEnableStep ==
  ASSUME IInv, MouseEnable
  PROVE  IInv'
<1>1. /\ pc = "mouseEnable" /\ pc' = "waitEnabled" /\ config' = Clear(config, 5)
      /\ UNCHANGED <<out, last, irqs, device, shift, calls, told, typed, disturbed>>
  BY DEF MouseEnable
<1>2. mouse' = mouse
  <2>1. /\ mouse \in [buffer : [0 .. 2 -> 0 .. 255], offset : 0 .. 2, buttons : 0 .. 255]
        /\ mouse.offset = 0 /\ mouse.buttons = 0
    BY <1>1 DEF IInv, Typed, AtRest
  <2>2. mouse' = [mouse EXCEPT !.offset = 0, !.buttons = 0]
    BY DEF MouseEnable
  <2>q. QED BY <2>1, <2>2
<1>3. config \in 0 .. 255 BY DEF IInv, Typed
<1>4. /\ config' \in 0 .. 255 /\ ~Bit(config', 4)
      /\ ~disturbed => Bit(config', 0)
  BY <1>1, <1>3, StatusBits DEF IInv, Configured, Unlocked, Enabled
<1>5. Typed'
  BY <1>1, <1>2, <1>4 DEF IInv, Typed, device, Answered
<1>6. AtRest' /\ Follows' /\ CapitalsWereMeant'
  BY <1>1, <1>2, DriverAtRest DEF device, driver, Reporting
<1>7. Configured' /\ Pending'
  BY <1>1, <1>4 DEF Configured, Pending, Unlocked, Enabled, Listening, Reporting
<1>8. Answers'
  <2>1. \E k \in 1 .. Len(out) : OnlyAnswer(k)
    BY <1>1 DEF IInv, Answers, Answered
  <2>q. QED BY <1>1, <2>1 DEF Answers, OnlyAnswer, Quiet
<1>q. QED BY <1>5, <1>6, <1>7, <1>8 DEF IInv
\* The mouse is told to report, and answers.
LEMMA MouseStreamStep ==
  ASSUME IInv, MouseStream
  PROVE  IInv'
<1> DEFINE e == Byte(ACK, Mouse)
<1>1. e \in Entries /\ e.from = Mouse /\ e.byte = ACK
  <2>1. Mouse \in {Keyboard, Mouse} /\ ACK \in 0 .. 255 BY DEF ACK
  <2>q. QED BY <2>1, PlainByte
<1>2. /\ Push(e) /\ out' = Append(out, e) /\ streaming' = TRUE
      /\ pc = "mouseStream" /\ pc' = "waitStreaming"
      /\ UNCHANGED <<last, config, held, packet, n, reported, driver, disturbed>>
  BY DEF MouseStream, Push
<1> HIDE DEF e
<1>3. Typed'
  BY <1>1, <1>2, PushTyped DEF IInv, Typed, driver, Reporting
<1>4. AtRest' /\ Follows' /\ CapitalsWereMeant'
  BY <1>2 DEF IInv, AtRest, Follows, CapitalsWereMeant, driver, Reporting
<1>5. Configured'
  BY <1>2 DEF IInv, Configured, Unlocked, Enabled, Listening, Reporting
<1>6. Pending'
  BY <1>1, <1>2, PendingSent DEF Listening
<1>7. Answers'
  <2>1. \A i \in 1 .. Len(out) : Plain(out[i])
    BY <1>2 DEF IInv, Answers, Quiet
  <2>2. PICK l \in Int : l = Len(out) + 1
    BY <1>1, <1>2, PushedQueue DEF IInv
  <2>3. l \in 1 .. Len(out') /\ FirstAnswer(l)'
    BY <1>1, <1>2, <2>1, <2>2, PushedQueue DEF IInv, FirstAnswer, Plain
  <2>4. Behind(l)' = {} /\ MouseBehind(l)' = {}
    BY <1>1, <1>2, <2>2, PushedQueue DEF IInv, Behind, MouseBehind
  <2>5. /\ mouse'.offset = 0 /\ n' = 0 /\ mouse'.buttons = 0 /\ reported' = 0
        /\ ~shift'
    BY <1>2 DEF IInv, AtRest, Reporting, driver
  <2>6. Stream(l)'
    BY <2>4, <2>5 DEF Stream, Chained, Headed, Sent, Awaited, AllRead
  <2>7. Capitals(l)'
    BY <2>4, <2>5 DEF Capitals, ShiftedBehind, HeldBehind, DriverShifted
  <2>q. QED BY <1>2, <2>3, <2>6, <2>7 DEF Answers, Quiet, Answered, Queue
<1>q. QED BY <1>3, <1>4, <1>5, <1>6, <1>7 DEF IInv

\* The first WaitACK ends with the keyboard's answer.
LEMMA WaitEnabledStep ==
  ASSUME IInv, WaitACK("waitEnabled", "mouseConfig")
  PROVE  IInv'
<1>1. /\ pc = "waitEnabled" /\ ReadData({})
      /\ pc' = IF DataPort = ACK THEN "mouseConfig" ELSE "waitEnabled"
      /\ UNCHANGED <<config, device, driver, disturbed>>
  BY DEF WaitACK
<1>2. PICK k \in 1 .. Len(out) : OnlyAnswer(k)
  BY <1>1 DEF IInv, Answers, Answered
<1>3. out # <<>> /\ out' = Tail(out) /\ DataPort = out[1].byte /\ k \in Int
  BY <1>1, <1>2 DEF ReadData, DataPort
<1>4. Typed'
  BY <1>1, ReadTyped DEF IInv, Typed, device, driver, Quiet, Answered
<1>5. AtRest' /\ Follows' /\ CapitalsWereMeant'
  BY <1>1, DriverAtRest DEF device, Reporting
<1>6. Configured' /\ Pending'
  BY <1>1 DEF IInv, Configured, Pending, Unlocked, Enabled, Listening, Reporting
<1>7. /\ Len(out) \in Nat \ {0} /\ Len(out') = Len(out) - 1
      /\ \A i \in 1 .. Len(out') : out'[i] = out[i + 1] /\ i + 1 \in 1 .. Len(out) /\ i \in Int
  BY <1>3, PoppedQueue DEF IInv
<1>8. CASE k = 1
  <2>1. pc' = "mouseConfig" BY <1>1, <1>2, <1>3, <1>8 DEF OnlyAnswer
  <2>2. \A i \in 1 .. Len(out') : Plain(out'[i])
    BY <1>2, <1>7, <1>8 DEF OnlyAnswer, Plain
  <2>3. Answers' BY <2>1, <2>2 DEF Answers, Answered, Plain
  <2>q. QED BY <1>4, <1>5, <1>6, <2>3 DEF IInv
<1>9. CASE k # 1
  <2>1. pc' = "waitEnabled" BY <1>1, <1>2, <1>3, <1>7, <1>9 DEF OnlyAnswer
  <2>2. k - 1 \in 1 .. Len(out') /\ (k - 1) + 1 = k BY <1>3, <1>7, <1>9
  <2>3. OnlyAnswer(k - 1)' BY <1>2, <1>3, <1>7, <2>2 DEF OnlyAnswer
  <2>4. Answers' BY <2>1, <2>2, <2>3 DEF Answers, Quiet
  <2>q. QED BY <1>4, <1>5, <1>6, <2>4 DEF IInv
<1>q. QED BY <1>8, <1>9

\* What is in front after a read has its interrupt pending.
LEMMA PendingRead ==
  ASSUME IInv, NEW t, ReadData(t), config' = config, pc \in Listening, ~disturbed,
         out' # <<>>
  PROVE  out # <<>> /\ out'[1].from \in irqs'
<1>1. out # <<>> /\ out' = Tail(out) /\ Line(out', config') \subseteq irqs'
  BY DEF ReadData
<1>2. Bit(config', 0) /\ Bit(config', 1)
  BY DEF IInv, Configured, Enabled
<1>3. out'[1].from \in {Keyboard, Mouse}
  <2>1. out' \in Seq(Entries) BY <1>1, PoppedQueue DEF IInv
  <2>2. 1 \in 1 .. Len(out') BY <2>1
  <2>3. out'[1] \in Entries BY <2>1, <2>2
  <2>q. QED BY <2>3 DEF Entries
<1>q. QED BY <1>1, <1>2, <1>3, LineRaised

\* The second WaitACK ends with the mouse's answer; all that the mouse sends
\* is behind it.
LEMMA WaitStreamingStep ==
  ASSUME IInv, WaitACK("waitStreaming", "ready")
  PROVE  IInv'
<1>1. /\ pc = "waitStreaming" /\ ReadData({})
      /\ pc' = IF DataPort = ACK THEN "ready" ELSE "waitStreaming"
      /\ UNCHANGED <<config, device, driver, disturbed>>
  BY DEF WaitACK
<1>2. PICK k \in 1 .. Len(out) : FirstAnswer(k) /\ Queue(k)
  BY <1>1 DEF IInv, Answers
<1>3. out # <<>> /\ out' = Tail(out) /\ DataPort = out[1].byte /\ k \in Int /\ last' = DataPort
  BY <1>1, <1>2 DEF ReadData, DataPort
<1>4. Typed'
  BY <1>1, ReadTyped DEF IInv, Typed, device, driver, Reporting
<1>5. AtRest' /\ Follows' /\ CapitalsWereMeant'
  BY <1>1, DriverAtRest DEF device, Reporting
<1>6. Configured'
  BY <1>1 DEF IInv, Configured, Unlocked, Enabled, Listening, Reporting
<1>7. Pending'
  BY <1>1, <1>3, PendingRead DEF Pending, Listening, Reporting
<1>8. /\ Len(out) \in Nat \ {0} /\ Len(out') = Len(out) - 1
      /\ \A i \in 1 .. Len(out') : out'[i] = out[i + 1] /\ i + 1 \in 1 .. Len(out) /\ i \in Int
  BY <1>3, PoppedQueue DEF IInv
<1>9. Queue(k - 1)'
  <2>1. Stream(k - 1)'
    BY <1>1, <1>2, <1>3, StreamPopped DEF IInv, Queue, device, driver
  <2>2. Capitals(k - 1)'
    BY <1>1, <1>2, <1>3, CapitalsPopped
    DEF IInv, Queue, Capitals, DriverShifted, device, driver
  <2>q. QED BY <2>1, <2>2 DEF Queue
<1>10. CASE k = 1
  <2>1. pc' = "ready" BY <1>1, <1>2, <1>3, <1>10 DEF FirstAnswer
  <2>2. Queue(0)' BY <1>9, <1>10
  <2>3. Answers' BY <2>1, <2>2 DEF Answers, Quiet, Answered
  <2>q. QED BY <1>4, <1>5, <1>6, <1>7, <2>3 DEF IInv
<1>11. CASE k # 1
  <2>1. pc' = "waitStreaming"
    BY <1>1, <1>2, <1>3, <1>8, <1>11 DEF FirstAnswer, Plain
  <2>2. k - 1 \in 1 .. Len(out') /\ (k - 1) + 1 = k BY <1>3, <1>8, <1>11
  <2>3. FirstAnswer(k - 1)' BY <1>2, <1>3, <1>8, <2>2 DEF FirstAnswer, Plain
  <2>4. Answers' BY <1>9, <2>1, <2>2, <2>3 DEF Answers, Quiet, Answered
  <2>q. QED BY <1>4, <1>5, <1>6, <1>7, <2>4 DEF IInv
<1>q. QED BY <1>10, <1>11

LEMMA InterruptsOnStep ==
  ASSUME IInv, InterruptsOn
  PROVE  IInv'
<1>1. /\ pc = "ready" /\ pc' = "on"
      /\ UNCHANGED <<out, last, config, irqs, held, packet, n, reported, streaming,
                     shift, mouse, calls, told, typed, disturbed>>
  BY DEF InterruptsOn, port, device, driver
<1>2. Typed' /\ AtRest' /\ Follows' /\ CapitalsWereMeant'
  BY <1>1 DEF IInv, Typed, AtRest, Follows, CapitalsWereMeant, Reporting
<1>3. Configured' /\ Pending'
  BY <1>1 DEF IInv, Configured, Pending, Unlocked, Enabled, Listening, Reporting
<1>4. Answers'
  <2>1. ~disturbed => Queue(0) BY <1>1 DEF IInv, Answers
  <2>2. ASSUME Queue(0) PROVE Queue(0)'
    <3>1. Stream(0)'
      BY <1>1, <2>2 DEF Queue, Stream, Chained, Headed, Sent, Awaited, AllRead,
                        MouseBehind, Behind
    <3>2. Capitals(0)'
      BY <1>1, <2>2 DEF Queue, Capitals, ShiftedBehind, HeldBehind, DriverShifted,
                        Behind, Kept, KeptOn, IsShift, IsKey, IsUnshift, ShiftHeld
    <3>q. QED BY <3>1, <3>2 DEF Queue
  <2>q. QED BY <1>1, <2>1, <2>2 DEF Answers, Quiet, Answered
<1>q. QED BY <1>2, <1>3, <1>4 DEF IInv

LEMMA ActivationStep ==
  ASSUME IInv, Activation
  PROVE  IInv'
BY DrainStep, KeyboardConfigStep, KeyboardStatusStep, KeyboardEnableStep,
   MouseEnableStep, WaitEnabledStep, MouseConfigStep, MouseStatusStep,
   MouseStreamStep, WaitStreamingStep, InterruptsOnStep
DEF Activation
----------------------------------------------------------------------------
\* The interrupts.

LEMMA KeyboardInterruptStep ==
  ASSUME IInv, KeyboardInterrupt
  PROVE  IInv'
<1>1. /\ pc = "on" /\ pc' = "on" /\ Keyboard \in irqs
      /\ config' = config /\ ReadData({Keyboard})
      /\ disturbed' = (disturbed \/ (out # <<>> /\ out[1].from = Mouse))
      /\ shift' = ShiftAfter(DataPort)
      /\ UNCHANGED <<held, packet, n, reported, streaming, mouse, calls, told>>
  BY DEF KeyboardInterrupt, device
<1>2. /\ Typed /\ shift \in BOOLEAN /\ disturbed \in BOOLEAN
      /\ typed \in [shifted : BOOLEAN, meant : BOOLEAN]
      /\ out \in Seq(Entries)
  BY DEF IInv, Typed
<1>3. Typed'
  <2>1. out' \in Seq(Entries) /\ last' \in 0 .. 255 /\ irqs' \subseteq {Keyboard, Mouse}
    BY <1>1, <1>2, ReadTyped
  <2>2. shift' \in BOOLEAN BY <1>1, <1>2 DEF ShiftAfter
  <2>3. disturbed' \in BOOLEAN BY <1>1, <1>2
  <2>4. ASSUME out # <<>> PROVE out[1].shifted \in BOOLEAN
    <3>1. 1 \in 1 .. Len(out) BY <1>2, <2>4
    <3>2. out[1] \in Entries BY <1>2, <3>1
    <3>q. QED BY <3>2 DEF Entries
  <2>5. typed' \in [shifted : BOOLEAN, meant : BOOLEAN]
    BY <1>2, <2>4 DEF KeyboardInterrupt
  <2>q. QED BY <1>1, <2>1, <2>2, <2>3, <2>5 DEF IInv, Typed
<1>4. AtRest' /\ Follows' /\ Configured'
  BY <1>1 DEF IInv, AtRest, Follows, Configured, Reporting
<1>5. Pending'
  <2>1. pc \in Listening BY <1>1 DEF Listening, Reporting
  <2>2. ASSUME out' = <<>> PROVE Keyboard \notin irqs'
    BY <1>1, <2>2 DEF ReadData, Line
  <2>q. QED BY <1>1, <2>1, <2>2, PendingRead DEF Pending
<1>6. CASE out = <<>>
  <2>1. out' = out BY <1>1, <1>6 DEF ReadData
  <2>2. ASSUME ~disturbed PROVE shift' = shift /\ typed' = typed
    <3>1. DataPort = 250
      BY <1>1, <1>6, <2>2 DEF IInv, Pending, DataPort, ACK
    <3>2. shift' = shift
      BY <1>1, <3>1 DEF ShiftAfter, LeftShift, RightShift
    <3>3. typed' = typed
      BY <3>1 DEF KeyboardInterrupt
    <3>q. QED BY <3>2, <3>3
  <2>3. Answers'
    <3>1. ASSUME ~disturbed PROVE Queue(0)'
      <4>1. Queue(0) BY <1>1, <3>1 DEF IInv, Answers
      <4>2. Stream(0)'
        BY <1>1, <2>1, <4>1 DEF Queue, Stream, Chained, Headed, Sent, Awaited, AllRead,
                                MouseBehind, Behind
      <4>3. Capitals(0)'
        BY <1>1, <2>1, <2>2, <3>1, <4>1
        DEF Queue, Capitals, ShiftedBehind, HeldBehind, DriverShifted,
            Behind, Kept, KeptOn, IsShift, IsKey, IsUnshift, ShiftHeld
      <4>q. QED BY <4>2, <4>3 DEF Queue
    <3>q. QED BY <1>1, <3>1 DEF Answers, Quiet, Answered
  <2>4. CapitalsWereMeant' BY <1>1, <2>2 DEF IInv, CapitalsWereMeant
  <2>q. QED BY <1>3, <1>4, <1>5, <2>3, <2>4 DEF IInv
<1>7. CASE out # <<>>
  <2>1. /\ out' = Tail(out) /\ DataPort = out[1].byte /\ 1 \in 1 .. Len(out)
        /\ out[1] \in Entries
    BY <1>1, <1>2, <1>7, PoppedQueue DEF ReadData, DataPort
  <2>2. ASSUME ~disturbed' PROVE ~disturbed /\ out[1].from = Keyboard /\ Queue(0)
    BY <1>1, <1>7, <2>1, <2>2 DEF IInv, Answers, Entries
  <2>3. Answers'
    <3>1. ASSUME ~disturbed' PROVE Queue(0)'
      <4>1. Stream(0)'
        BY <1>1, <1>2, <1>7, <2>1, <2>2, <3>1, StreamReadPast DEF Queue
      <4>2. Capitals(0)'
        BY <1>1, <1>2, <1>7, <2>1, <2>2, <3>1, CapitalsRead DEF Queue
      <4>q. QED BY <4>1, <4>2 DEF Queue
    <3>q. QED BY <1>1, <3>1 DEF Answers, Quiet, Answered
  <2>4. CapitalsWereMeant'
    <3> SUFFICES ASSUME ~disturbed', typed'.shifted
                 PROVE  typed'.meant
      BY DEF CapitalsWereMeant
    <3>1. CASE DataPort \in 1 .. 127 \ {LeftShift, RightShift}
      <4>1. typed' = [shifted |-> shift, meant |-> out # <<>> /\ out[1].shifted]
        BY <3>1 DEF KeyboardInterrupt
      <4>2. shift /\ (out[1].shifted => typed'.meant) BY <1>7, <4>1
      <4>3. IsKey(out[1]) BY <2>1, <2>2, <3>1 DEF IsKey, Shifts
      <4>4. 1 \in Behind(0) /\ Kept(0, 1) BY <1>2, <2>1 DEF Behind, Kept
      <4>5. out[1].shifted
        BY <2>2, <4>2, <4>3, <4>4 DEF Queue, Capitals, DriverShifted
      <4>q. QED BY <4>2, <4>5
    <3>2. CASE DataPort \notin 1 .. 127 \ {LeftShift, RightShift}
      <4>1. typed' = typed BY <3>2 DEF KeyboardInterrupt
      <4>q. QED BY <2>2, <4>1 DEF IInv, CapitalsWereMeant
    <3>q. QED BY <3>1, <3>2
  <2>q. QED BY <1>3, <1>4, <1>5, <2>3, <2>4 DEF IInv
<1>q. QED BY <1>6, <1>7

\* MouseDriver's state after a byte.
LEMMA ReceivedTyped ==
  ASSUME Typed, Follows, NEW b \in 0 .. 255, Received(b)
  PROVE  /\ mouse' \in [buffer : [0 .. 2 -> 0 .. 255], offset : 0 .. 2,
                        buttons : 0 .. 255]
         /\ Follows'
<1> DEFINE buffer == [mouse.buffer EXCEPT ![mouse.offset] = b]
           offset == NextOffset(mouse.offset)
<1>1. /\ mouse.buffer \in [0 .. 2 -> 0 .. 255] /\ mouse.offset \in 0 .. 2
      /\ mouse.buttons \in 0 .. 255
      /\ mouse \in [buffer : [0 .. 2 -> 0 .. 255], offset : 0 .. 2, buttons : 0 .. 255]
  BY DEF Typed
<1>2. buffer \in [0 .. 2 -> 0 .. 255] /\ buffer[0] \in 0 .. 255
  BY <1>1
<1>3. offset \in 0 .. 2 BY <1>1 DEF NextOffset
<1>4. CASE offset = 0
  <2>1. /\ mouse' = [buffer |-> buffer, offset |-> 0, buttons |-> buffer[0]]
        /\ calls' = Calls(mouse.buttons, buffer)
        /\ told' = (told \ calls'.up) \cup calls'.down
    BY <1>4 DEF Received
  <2> HIDE DEF buffer, offset
  <2>2. /\ calls'.up = Differs(mouse.buttons, buffer[0])
        /\ calls'.down = Differs(buffer[0], mouse.buttons)
    BY <2>1 DEF Calls
  <2>3. mouse'.buttons = buffer[0] BY <2>1
  <2>4. told' = {i + 1 : i \in {h \in Buttons : Bit(buffer[0], h)}}
    BY <2>1, <2>2 DEF Follows, Differs, Buttons
  <2>5. Follows' BY <2>3, <2>4 DEF Follows
  <2>q. QED BY <1>2, <2>1, <2>5
<1>5. CASE offset # 0
  <2>1. /\ mouse' = [mouse EXCEPT !.buffer = buffer, !.offset = offset]
        /\ told' = told
    BY <1>5 DEF Received
  <2> HIDE DEF buffer, offset
  <2>q. QED BY <1>1, <1>2, <1>3, <2>1 DEF Follows
<1>q. QED BY <1>4, <1>5

LEMMA MouseInterruptStep ==
  ASSUME IInv, MouseInterrupt
  PROVE  IInv'
<1>1. /\ pc = "on" /\ pc' = "on" /\ Mouse \in irqs /\ Keyboard \notin irqs
      /\ config' = config
      /\ UNCHANGED <<held, packet, n, reported, streaming, shift, typed, disturbed>>
  BY DEF MouseInterrupt, device
<1>2. Typed /\ Follows /\ out \in Seq(Entries) BY DEF IInv, Typed
<1>3. CapitalsWereMeant' /\ Configured'
  BY <1>1 DEF IInv, CapitalsWereMeant, Configured
<1>4. CASE IsMouseByte
  <2>1. /\ ReadData({Mouse}) /\ Received(out[1].byte)
        /\ out # <<>> /\ out[1].from = Mouse /\ out' = Tail(out)
    BY <1>4 DEF MouseInterrupt, IsMouseByte, ReadData, DataPort
  <2>2. out[1].byte \in 0 .. 255
    <3>1. out[1] \in Entries BY <1>2, <2>1
    <3>q. QED BY <3>1 DEF Entries
  <2>3. /\ mouse' \in [buffer : [0 .. 2 -> 0 .. 255], offset : 0 .. 2,
                       buttons : 0 .. 255]
        /\ Follows'
    BY <1>2, <2>1, <2>2, ReceivedTyped
  <2>4. Typed'
    <3>1. out' \in Seq(Entries) /\ last' \in 0 .. 255 /\ irqs' \subseteq {Keyboard, Mouse}
      BY <1>2, <2>1, ReadTyped
    <3>q. QED BY <1>1, <2>3, <3>1 DEF IInv, Typed
  <2>5. AtRest' BY <1>1 DEF IInv, AtRest
  <2>6. Pending'
    <3>1. pc \in Listening BY <1>1 DEF Listening, Reporting
    <3>2. ASSUME out' = <<>> PROVE Keyboard \notin irqs'
      BY <1>1, <2>1, <3>2 DEF ReadData, Line
    <3>q. QED BY <1>1, <2>1, <3>1, <3>2, PendingRead DEF Pending
  <2>7. Answers'
    <3>1. ASSUME ~disturbed PROVE Queue(0)'
      <4>1. Queue(0) BY <1>1, <3>1 DEF IInv, Answers
      <4>2. Stream(0)'
        BY <1>1, <1>2, <2>1, <4>1, StreamReceived DEF Queue
      <4>3. Capitals(0)'
        BY <1>1, <1>2, <2>1, <4>1, CapitalsRead DEF Queue, Keyboard, Mouse
      <4>q. QED BY <4>2, <4>3 DEF Queue
    <3>q. QED BY <1>1, <3>1 DEF Answers, Quiet, Answered
  <2>q. QED BY <1>3, <2>3, <2>4, <2>5, <2>6, <2>7 DEF IInv
<1>5. CASE ~IsMouseByte
  <2>1. irqs' = irqs \ {Mouse} /\ UNCHANGED <<out, last, mouse, calls, told>>
    BY <1>5 DEF MouseInterrupt
  <2>2. Typed' /\ AtRest' /\ Follows'
    BY <1>1, <2>1 DEF IInv, Typed, AtRest, Follows
  <2>3. Pending'
    BY <1>1, <1>5, <2>1 DEF IInv, Pending, IsMouseByte, Keyboard, Mouse
  <2>4. Answers'
    <3>1. ASSUME ~disturbed PROVE Queue(0)'
      <4>1. Queue(0) BY <1>1, <3>1 DEF IInv, Answers
      <4>2. Stream(0)'
        BY <1>1, <2>1, <4>1 DEF Queue, Stream, Chained, Headed, Sent, Awaited, AllRead,
                                MouseBehind, Behind
      <4>3. Capitals(0)'
        BY <1>1, <2>1, <4>1
        DEF Queue, Capitals, ShiftedBehind, HeldBehind, DriverShifted,
            Behind, Kept, KeptOn, IsShift, IsKey, IsUnshift, ShiftHeld
      <4>q. QED BY <4>2, <4>3 DEF Queue
    <3>q. QED BY <1>1, <3>1 DEF Answers, Quiet, Answered
  <2>q. QED BY <1>3, <2>2, <2>3, <2>4 DEF IInv
<1>q. QED BY <1>4, <1>5

----------------------------------------------------------------------------
\* The theorems.

LEMMA InitInvariant == Init => IInv
<1> SUFFICES ASSUME Init PROVE IInv
  OBVIOUS
<1>1. packet \in [0 .. 2 -> 0 .. 255] /\ config \in 0 .. 255
  BY Ps2Assumption DEF Init
<1>2. Typed
  <2>1. mouse \in [buffer : [0 .. 2 -> 0 .. 255], offset : 0 .. 2, buttons : 0 .. 255]
    BY DEF Init
  <2>2. typed \in [shifted : BOOLEAN, meant : BOOLEAN] BY DEF Init
  <2>3. out \in Seq(Entries) BY DEF Init
  <2>q. QED BY <1>1, <2>1, <2>2, <2>3 DEF Init, Typed, Quiet
<1>3. AtRest /\ Configured /\ Pending /\ CapitalsWereMeant
  BY DEF Init, AtRest, Configured, Pending, CapitalsWereMeant, Reporting, Listening,
         Unlocked, Enabled
<1>4. Follows
  <2>1. \A b \in Buttons : ~Bit(0, b)
    <3>1. ~Bit(0, 0) /\ ~Bit(0, 1) /\ ~Bit(0, 2) BY SMT DEF Bit
    <3>q. QED BY <3>1 DEF Buttons
  <2>q. QED BY <2>1 DEF Init, Follows
<1>5. Answers
  BY DEF Init, Answers, Answered
<1>q. QED BY <1>2, <1>3, <1>4, <1>5 DEF IInv

LEMMA NextInvariant == IInv /\ [Next]_vars => IInv'
<1> SUFFICES ASSUME IInv, [Next]_vars PROVE IInv'
  OBVIOUS
<1>1. CASE Typing BY <1>1, TypingStep
<1>2. CASE MouseSends BY <1>2, MouseSendsStep
<1>3. CASE Activation BY <1>3, ActivationStep
<1>4. CASE KeyboardInterrupt BY <1>4, KeyboardInterruptStep
<1>5. CASE MouseInterrupt BY <1>5, MouseInterruptStep
<1>6. CASE UNCHANGED vars
  <2>1. UNCHANGED <<out, last, config, irqs, held, packet, n, reported, streaming,
                    shift, mouse, calls, told, typed, pc, disturbed>>
    BY <1>6 DEF vars, port, device, driver
  <2>2. Typed' /\ AtRest' /\ Follows' /\ CapitalsWereMeant' /\ Configured' /\ Pending'
    BY <2>1 DEF IInv, Typed, AtRest, Follows, CapitalsWereMeant, Configured, Pending
  <2>3. ASSUME NEW k PROVE Queue(k) => Queue(k)'
    <3>1. Stream(k) => Stream(k)'
      BY <2>1 DEF Stream, Chained, Headed, Sent, Awaited, AllRead, MouseBehind, Behind
    <3>2. Capitals(k) => Capitals(k)'
      BY <2>1 DEF Capitals, ShiftedBehind, HeldBehind, DriverShifted,
                  Behind, Kept, KeptOn, IsShift, IsKey, IsUnshift, ShiftHeld
    <3>q. QED BY <3>1, <3>2 DEF Queue
  <2>4. Answers'
    BY <2>1, <2>3 DEF IInv, Answers, OnlyAnswer, FirstAnswer, Plain
  <2>q. QED BY <2>2, <2>4 DEF IInv
<1>q. QED BY <1>1, <1>2, <1>3, <1>4, <1>5, <1>6 DEF Next

\* The order of the activation, the status byte and the bytes in the queue fit
\* together at every step.
THEOREM Ps2Invariant == Spec => []IInv
<1>q. QED BY InitInvariant, NextInvariant, PTL DEF Spec

\* Every variable keeps its type, `offset` within `buffer` above all.
THEOREM TypeCorrect == Spec => []TypeOK
<1>1. IInv => TypeOK
  <2> SUFFICES ASSUME IInv PROVE TypeOK
    OBVIOUS
  <2>1. \A i \in 1 .. Len(out) : out[i].byte \in 0 .. 255
    <3>1. \A i \in 1 .. Len(out) : out[i] \in Entries BY DEF IInv, Typed
    <3>q. QED BY <3>1 DEF Entries
  <2>q. QED BY <2>1 DEF IInv, Typed, TypeOK
<1>q. QED BY <1>1, Ps2Invariant, PTL

\* MouseDriver::HandleInterrupt puts every byte of the mouse where it belongs,
\* for any packets: the two WaitACK leave no byte too few or too many.
THEOREM PacketsInFrame == Spec => []MouseInFrame
<1>1. IInv => MouseInFrame
  <2> SUFFICES ASSUME IInv, pc = "on", ~disturbed
               PROVE  /\ MouseBytes = {} => mouse.offset = n
                      /\ \A i \in MouseBytes :
                           (\A j \in MouseBytes : i <= j) => mouse.offset = out[i].place
    BY DEF MouseInFrame
  <2>1. AllRead(0) /\ Awaited(0) BY DEF IInv, Answers, Queue, Stream
  <2>2. MouseBytes = MouseBehind(0) BY DEF MouseBytes, MouseBehind, Behind
  <2>q. QED BY <2>1, <2>2 DEF AllRead, Awaited
<1>q. QED BY <1>1, Ps2Invariant, PTL

\* However many packets are behind, once they are read the handler of the
\* mouse has been told just the buttons that are down.
THEOREM ButtonsCorrect == Spec => []ButtonsFollow
<1>1. IInv => ButtonsFollow
  <2> SUFFICES ASSUME IInv, pc = "on", ~disturbed, MouseBytes = {}, n = 0
               PROVE  told = {i + 1 : i \in {b \in Buttons : Bit(reported, b)}}
    BY DEF ButtonsFollow
  <2>1. AllRead(0) /\ Follows BY DEF IInv, Answers, Queue, Stream
  <2>2. MouseBytes = MouseBehind(0) BY DEF MouseBytes, MouseBehind, Behind
  <2>3. mouse.buttons = reported BY <2>1, <2>2 DEF AllRead
  <2>q. QED BY <2>1, <2>3 DEF Follows
<1>q. QED BY <1>1, Ps2Invariant, PTL

\* However far behind the driver reads, its static `shift` says of a key what
\* the user meant when he pressed it.
THEOREM CapitalsCorrect == Spec => []CapitalsWereMeant
<1>1. IInv => CapitalsWereMeant BY DEF IInv
<1>q. QED BY <1>1, Ps2Invariant, PTL

\* No byte waits in front of the queue without an interrupt, whatever status
\* byte the boot loader left.
THEOREM BytesServed == Spec => []NoByteStuck
<1>1. IInv => NoByteStuck
  <2> SUFFICES ASSUME IInv, pc = "on", ~disturbed, out # <<>>
               PROVE  (IF out[1].from = Mouse THEN Mouse ELSE Keyboard) \in irqs
    BY DEF NoByteStuck
  <2>1. out[1].from \in irqs BY DEF IInv, Pending, Listening, Reporting
  <2>2. irqs \subseteq {Keyboard, Mouse} BY DEF IInv, Typed
  <2>q. QED BY <2>1, <2>2
<1>q. QED BY <1>1, Ps2Invariant, PTL
=============================================================================
