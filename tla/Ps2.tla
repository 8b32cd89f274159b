-------------------------------- MODULE Ps2 --------------------------------
(****************************************************************************)
(* KeyboardDriver and MouseDriver on the one data port they share.  The     *)
(* drivers are activated one after the other with interrupts off and read   *)
(* bytes by interrupt afterwards.  External: the controller (one queue of   *)
(* bytes for both devices; a read of the empty queue returns the last byte  *)
(* again; it answers a command at once, as the drivers, which do not wait,  *)
(* rely on), the keyboard and the mouse.                                    *)
(****************************************************************************)
EXTENDS Integers, Sequences, FiniteSets

CONSTANTS
  Keys,         \* make codes of the keys that are pressed, below 0x80
  Packets,      \* what the mouse reports: three bytes
  InitConfig,   \* the controller's status bytes the boot loader may leave
  QueueLimit    \* bound: bytes in the controller while the devices hold back

ACK == 250

ASSUME Ps2Assumption ==
  /\ Keys \subseteq 1 .. 127
  /\ ACK - 128 \notin Keys   \* whose release would look like an answer
  /\ Packets \subseteq [0 .. 2 -> 0 .. 255]
  /\ InitConfig \subseteq 0 .. 255
  /\ QueueLimit \in Nat

VARIABLES
  out,         \* the controller's queue: byte, who sent it, and ghosts: its
               \* place in the mouse's packet, the packet's first byte, whether
               \* shift was held when it was sent
  last,        \* the byte read last
  config,      \* the controller's status byte
  irqs,        \* interrupts 1 and 12, raised and not yet taken
  held,        \* keys that are down
  packet, n,   \* the packet the mouse is sending, its bytes sent so far
  reported,    \* ghost: the first byte of the last packet sent in full
  streaming,   \* the mouse reports
  pc,          \* kernel_main, from the keyboard's Activate on
  shift,       \* KeyboardDriver::HandleInterrupt's static
  mouse,       \* MouseDriver: buffer, offset, buttons
  calls,       \* of the mouse handler in the last interrupt: movement, buttons
  told,        \* ghost: the buttons that are down as far as the handler knows
  typed,       \* the last key handed on: in its shifted form, and meant so
  disturbed    \* ghost: a byte went to somebody it was not meant for

device == <<held, packet, n, reported, streaming>>
port == <<out, last, config, irqs>>
driver == <<shift, mouse, calls, told, typed>>
vars == <<port, device, driver, pc, disturbed>>

LeftShift == 42
RightShift == 54
Keyboard == 1
Mouse == 12

Bit(b, k) == (b \div 2^k) % 2 = 1
Set(b, k) == IF Bit(b, k) THEN b ELSE b + 2^k
Clear(b, k) == IF Bit(b, k) THEN b - 2^k ELSE b

NoCalls == [move |-> <<>>, up |-> {}, down |-> {}]

Init ==
  /\ out = <<>> /\ last = 0 /\ irqs = {}
  /\ config \in InitConfig
  /\ held = {} /\ packet \in Packets /\ n = 0 /\ reported = 0
  /\ streaming = FALSE
  /\ pc = "drain"
  /\ shift = FALSE
  /\ mouse = [buffer |-> [i \in 0 .. 2 |-> 0], offset |-> 0, buttons |-> 0]
  /\ calls = NoCalls /\ told = {}
  /\ typed = [shifted |-> FALSE, meant |-> FALSE]
  /\ disturbed = FALSE

----------------------------------------------------------------------------
\* The controller.

\* The byte in front raises its device's interrupt, if that is enabled.
Line(queue, c) ==
  IF queue = <<>> THEN {}
  ELSE IF queue[1].from = Mouse
    THEN {k \in {Mouse} : Bit(c, 1)}
    ELSE {k \in {Keyboard} : Bit(c, 0)}

Byte(b, from) ==
  [byte |-> b, from |-> from, place |-> 0, first |-> 0, shifted |-> FALSE]

\* A device sends e.
Push(e) ==
  /\ out' = Append(out, e)
  /\ irqs' = IF out = <<>> THEN irqs \cup Line(<<e>>, config) ELSE irqs

\* dataPort.Read: the byte it returns, and what reading it does.
DataPort == IF out = <<>> THEN last ELSE out[1].byte

ReadData(taken) ==
  /\ last' = DataPort
  /\ out' = IF out = <<>> THEN out ELSE Tail(out)
  /\ irqs' = IF out = <<>> THEN irqs \ taken
             ELSE (irqs \ taken) \cup Line(out', config')

----------------------------------------------------------------------------
\* The user.

ShiftHeld(keys) == keys \cap {LeftShift, RightShift} # {}

\* Keys repeat while they are down.
PressKey(k) ==
  /\ Len(out) < QueueLimit /\ ~Bit(config, 4)
  /\ held' = held \cup {k}
  /\ Push([Byte(k, Keyboard) EXCEPT !.shifted = ShiftHeld(held)])
  /\ UNCHANGED <<last, config, packet, n, reported, streaming, driver, pc, disturbed>>

ReleaseKey(k) ==
  /\ Len(out) < QueueLimit /\ ~Bit(config, 4)
  /\ k \in held
  /\ held' = held \ {k}
  /\ Push(Byte(k + 128, Keyboard))
  /\ UNCHANGED <<last, config, packet, n, reported, streaming, driver, pc, disturbed>>

MouseSends ==
  /\ streaming
  /\ Len(out) < QueueLimit /\ ~Bit(config, 5)
  /\ Push([Byte(packet[n], Mouse) EXCEPT !.place = n, !.first = packet[0]])
  /\ n' = (n + 1) % 3
  /\ IF n = 2 THEN packet' \in Packets /\ reported' = packet[0]
              ELSE UNCHANGED <<packet, reported>>
  /\ UNCHANGED <<last, config, held, streaming, driver, pc, disturbed>>

----------------------------------------------------------------------------
\* KeyboardDriver::Activate.

\* while (commandPort.Read() & 1) dataPort.Read();
Drain ==
  /\ pc = "drain"
  /\ IF out = <<>>
       THEN pc' = "keyboardConfig" /\ UNCHANGED port
       ELSE UNCHANGED <<pc, config>> /\ ReadData({})
  /\ UNCHANGED <<device, driver, disturbed>>

\* Commands 0xAE or 0xA8 enable one device; 0x20 asks for the status byte.
AskConfig(enabled) ==
  /\ config' = enabled
  /\ out' = Append(out, Byte(enabled, Keyboard))
  /\ irqs' = IF out = <<>> THEN irqs \cup Line(out', enabled) ELSE irqs
  /\ UNCHANGED last

KeyboardConfig ==
  /\ pc = "keyboardConfig"
  /\ AskConfig(Clear(config, 4))
  /\ pc' = "keyboardStatus"
  /\ UNCHANGED <<device, driver, disturbed>>

\* Whatever is read now goes back as the status byte, with some bits changed.
WriteConfig(status) ==
  /\ config' = status
  /\ ReadData({})
  /\ disturbed' = (disturbed \/ DataPort # config)

KeyboardStatus ==
  /\ pc = "keyboardStatus"
  /\ WriteConfig(Clear(Set(DataPort, 0), 4))
  /\ pc' = "keyboardEnable"
  /\ UNCHANGED <<device, driver>>

\* Mutant: the keyboard's last command is not sent.
KeyboardEnableNever ==
  /\ pc = "keyboardEnable"
  /\ pc' = "mouseEnable"
  /\ UNCHANGED <<port, device, driver, disturbed>>

\* 0xF4: the keyboard answers, and nobody here reads the answer.
KeyboardEnable ==
  /\ pc = "keyboardEnable"
  /\ Push(Byte(ACK, Keyboard))
  /\ pc' = "mouseEnable"
  /\ UNCHANGED <<last, config, device, driver, disturbed>>

----------------------------------------------------------------------------
\* MouseDriver::Activate.

MouseEnable ==
  /\ pc = "mouseEnable"
  /\ mouse' = [mouse EXCEPT !.offset = 0, !.buttons = 0]
  /\ config' = Clear(config, 5)
  /\ pc' = "waitEnabled"
  /\ UNCHANGED <<out, last, irqs, device, shift, calls, told, typed, disturbed>>

\* WaitACK reads until a byte is 0xFA, whoever sent it.
WaitACK(here, there) ==
  /\ pc = here
  /\ pc' = IF DataPort = ACK THEN there ELSE here
  /\ UNCHANGED <<config, device, driver, disturbed>>
  /\ ReadData({})

MouseConfig ==
  /\ pc = "mouseConfig"
  /\ AskConfig(config)
  /\ pc' = "mouseStatus"
  /\ UNCHANGED <<device, driver, disturbed>>

\* Mutant: the status byte goes back unchanged.
MouseStatusUnchanged ==
  /\ pc = "mouseStatus"
  /\ WriteConfig(DataPort)
  /\ pc' = "mouseStream"
  /\ UNCHANGED <<device, driver>>

MouseStatus ==
  /\ pc = "mouseStatus"
  /\ WriteConfig(Set(DataPort, 1))
  /\ pc' = "mouseStream"
  /\ UNCHANGED <<device, driver>>

MouseStream ==
  /\ pc = "mouseStream"
  /\ Push(Byte(ACK, Mouse))
  /\ streaming' = TRUE
  /\ pc' = "waitStreaming"
  /\ UNCHANGED <<last, config, held, packet, n, reported, driver, disturbed>>

\* InterruptManager::Activate, some time later.
InterruptsOn ==
  /\ pc = "ready"
  /\ pc' = "on"
  /\ UNCHANGED <<port, device, driver, disturbed>>

Activation ==
  \/ Drain \/ KeyboardConfig \/ KeyboardStatus \/ KeyboardEnable
  \/ MouseEnable \/ WaitACK("waitEnabled", "mouseConfig")
  \/ MouseConfig \/ MouseStatus \/ MouseStream
  \/ WaitACK("waitStreaming", "ready") \/ InterruptsOn

----------------------------------------------------------------------------
\* KeyboardDriver::HandleInterrupt.  Keys that are let go are never handed on,
\* only a shift key's release is looked at.

\* Mutant: the releases of the shift keys are not told from other releases.
ShiftAfterStuck(key) == shift \/ key \in {LeftShift, RightShift}

ShiftAfter(key) ==
  CASE key \in {LeftShift, RightShift} -> TRUE
    [] key \in {LeftShift + 128, RightShift + 128} -> FALSE
    [] OTHER -> shift

\* The read does not ask which device the byte is from.
KeyboardInterrupt ==
  /\ pc = "on"
  /\ Keyboard \in irqs
  /\ config' = config
  /\ ReadData({Keyboard})
  /\ disturbed' = (disturbed \/ (out # <<>> /\ out[1].from = Mouse))
  /\ shift' = ShiftAfter(DataPort)
  /\ typed' = IF DataPort \in 1 .. 127 \ {LeftShift, RightShift}
                THEN [shifted |-> shift,
                      meant |-> out # <<>> /\ out[1].shifted]
                ELSE typed
  /\ UNCHANGED <<device, mouse, calls, told, pc>>

----------------------------------------------------------------------------
\* MouseDriver::HandleInterrupt.

Buttons == 0 .. 2

\* Nine bits of movement, the sign in the first byte, kept to -255 .. 255.
Movement(b, sign) == IF ~sign THEN b ELSE IF b = 0 THEN -255 ELSE b - 256

\* The calls for a packet: OnMouseMove, unless it did not move, then
\* OnMouseUp and OnMouseDown for the buttons that changed.
Moves(b) ==
  IF b[1] = 0 /\ b[2] = 0 THEN <<>>
  ELSE <<Movement(b[1], Bit(b[0], 4)), -Movement(b[2], Bit(b[0], 5))>>

\* The buttons that are down in one and not in the other.
Differs(one, other) ==
  {i + 1 : i \in {b \in Buttons : Bit(one, b) /\ ~Bit(other, b)}}

\* Mutant: the loop over the buttons starts with the second.
CallsFromOne(before, b) ==
  [move |-> Moves(b), up |-> Differs(before, b[0]) \ {1},
   down |-> Differs(b[0], before) \ {1}]

Calls(before, b) ==
  [move |-> Moves(b), up |-> Differs(before, b[0]), down |-> Differs(b[0], before)]

\* Mutant: the status is not asked whose byte is there.
IsMouseByteUnasked == TRUE

IsMouseByte == out # <<>> /\ out[1].from = Mouse

\* Mutant: four bytes are taken for a packet.
NextOffsetLong(k) == (k + 1) % 4

NextOffset(k) == (k + 1) % 3

Received(b) ==
  LET buffer == [mouse.buffer EXCEPT ![mouse.offset] = b]
      offset == NextOffset(mouse.offset)
  IN IF offset = 0
       THEN /\ mouse' = [buffer |-> buffer, offset |-> 0, buttons |-> buffer[0]]
            /\ calls' = Calls(mouse.buttons, buffer)
            /\ told' = (told \ calls'.up) \cup calls'.down
       ELSE /\ mouse' = [mouse EXCEPT !.buffer = buffer, !.offset = offset]
            /\ calls' = NoCalls
            /\ UNCHANGED told

MouseInterrupt ==
  /\ pc = "on"
  /\ Mouse \in irqs /\ Keyboard \notin irqs
  /\ config' = config
  /\ IF IsMouseByte
       THEN ReadData({Mouse}) /\ Received(DataPort)
       ELSE irqs' = irqs \ {Mouse} /\ UNCHANGED <<out, last, mouse, calls, told>>
  /\ UNCHANGED <<device, shift, typed, pc, disturbed>>

----------------------------------------------------------------------------
Typing == \E k \in Keys : PressKey(k) \/ ReleaseKey(k)

Next ==
  \/ Typing
  \/ MouseSends
  \/ Activation
  \/ KeyboardInterrupt
  \/ MouseInterrupt

\* kernel_main runs; interrupts are taken.
Spec ==
  /\ Init /\ [][Next]_vars
  /\ WF_vars(Activation) /\ WF_vars(KeyboardInterrupt \/ MouseInterrupt)

----------------------------------------------------------------------------
\* Correctness.

TypeOK ==
  /\ \A i \in 1 .. Len(out) : out[i].byte \in 0 .. 255
  /\ last \in 0 .. 255 /\ config \in 0 .. 255
  /\ irqs \subseteq {Keyboard, Mouse}
  /\ held \subseteq Keys /\ packet \in Packets /\ n \in 0 .. 2
  /\ mouse.buffer \in [0 .. 2 -> 0 .. 255] /\ mouse.offset \in 0 .. 2
  /\ mouse.buttons \in 0 .. 255

\* Where the mouse's bytes are in the queue.
MouseBytes == {i \in 1 .. Len(out) : out[i].from = Mouse}

\* MouseDriver and the mouse agree where a packet starts: what is read next
\* belongs at `offset`.  No acknowledgement is ever left to be taken for the
\* first byte, no byte of the keyboard gets between.
MouseInFrame ==
  pc = "on" /\ ~disturbed =>
    /\ MouseBytes = {} => mouse.offset = n
    /\ \A i \in MouseBytes :
         (\A j \in MouseBytes : i <= j) => mouse.offset = out[i].place

\* Once every byte of the mouse's packets is read, the handler has been told
\* just the presses and releases that leave it with the mouse's buttons.
ButtonsFollow ==
  pc = "on" /\ ~disturbed /\ MouseBytes = {} /\ n = 0 =>
    told = {i + 1 : i \in {b \in Buttons : Bit(reported, b)}}

\* A character is handed on in its shifted form only if a shift key was down
\* when its key was pressed, however far behind the driver reads.
CapitalsWereMeant == ~disturbed /\ typed.shifted => typed.meant

\* The byte in front of the queue always has its interrupt pending, so it is
\* read and the ones behind it, of either device, get their turn.
NoByteStuck == pc = "on" /\ ~disturbed /\ out # <<>> =>
  (IF out[1].from = Mouse THEN Mouse ELSE Keyboard) \in irqs

\* Unless the user never stops typing, the two WaitACK of
\* MouseDriver::Activate come to an end and kernel_main goes on: the first is
\* let go by the answer to the keyboard's 0xF4.
ActivationEnds == <>[][~Typing]_vars => <>(pc = "on")
==============================================================================
