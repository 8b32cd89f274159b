-------------------------------- MODULE Pci --------------------------------
(****************************************************************************)
(* PCI::SelectDrivers, the driver table it fills, and what kernel_main      *)
(* makes of that table.  The loops over buses, devices and functions are    *)
(* one walk over the places of the configuration space, eight to a device.  *)
(* Locals the code leaves uninitialised hold what the stack held.           *)
(****************************************************************************)
EXTENDS Integers, Sequences, FiniteSets

CONSTANTS
  Places,       \* functions the scan asks, a multiple of FunctionsPerDevice
  Machines,     \* what may answer: place -> a function's record, or Absent
  Rooms,        \* how many card drivers the heap may have room for
  Lines,        \* values of the interrupt line registers
  Absent,       \* nobody answers: 0 or 0xFFFFFFFF is read
  Garbage       \* what an uninitialised word holds

FunctionsPerDevice == 8
BarsRead == 0 .. 5
MaxBars(f) == 6 - 4 * f.header

\* What answers at a place has a line, an identity, a header type of seven bits
\* and six words where base address registers may be.
ASSUME PciAssumption ==
  /\ Places \in Nat \ {0}
  /\ Lines \subseteq 0 .. 255
  /\ Rooms \subseteq Nat
  /\ \A m \in Machines, p \in 0 .. Places - 1 :
       m[p] # Absent =>
         /\ m[p].isCard \in BOOLEAN
         /\ m[p].line \in Lines
         /\ m[p].header \in 0 .. 127
         /\ \A n \in BarsRead : m[p].bars[n].type \in {"memory", "io"}

VARIABLES
  mode, machine, room,   \* text or graphics, the hardware, the heap
  pc,
  place, device, bar,    \* SelectDrivers: the loops, pciDevice, bar
  barNum,
  drivers,               \* mDrivers[0 .. numDrivers - 1]
  handlers,              \* by vector: which driver registered last, or 0
  active,                \* drivers that were activated
  eth0                   \* the driver kernel_main uses as the network card

given == <<mode, machine, room>>
scan == <<place, device, bar, barNum>>
table == <<drivers, handlers>>
vars == <<given, pc, scan, table, active, eth0>>

----------------------------------------------------------------------------
\* Registering.

\* Mutant: the vector is not cut to the eight bits of interruptNumber.
VectorWide(line) == line + 32

\* am79c973 gives InterruptHandler the line plus 0x20, as a uint8_t.
Vector(line) == (line + 32) % 256

KeyboardDriver == [kind |-> "keyboard", place |-> 0, port |-> 96, vector |-> 33]
MouseDriver == [kind |-> "mouse", place |-> 0, port |-> 96, vector |-> 44]
CardDriver(d) ==
  [kind |-> "card", place |-> d.place, port |-> d.portBase, vector |-> Vector(d.interrupt)]

Vectors == {KeyboardDriver.vector, MouseDriver.vector} \cup {Vector(l) : l \in Lines}

NoBar == [type |-> "memory", address |-> Garbage]

Init ==
  /\ mode \in {"text", "graphics"}
  /\ machine \in Machines
  /\ room \in Rooms
  /\ pc = "function" /\ place = 0
  /\ device = [place |-> 0, isCard |-> FALSE, interrupt |-> 0, portBase |-> Garbage]
  /\ bar = NoBar /\ barNum = 0
  /\ drivers = <<KeyboardDriver, MouseDriver>>
  /\ handlers = [v \in Vectors |-> CASE v = KeyboardDriver.vector -> 1
                                     [] v = MouseDriver.vector -> 2
                                     [] OTHER -> 0]
  /\ active = {} /\ eth0 = 0

----------------------------------------------------------------------------
\* SelectDrivers.

\* numOfFunctions is computed and not used: all eight are always asked.
AfterPlace == IF place + 1 < Places THEN "function" ELSE "activate"

\* Mutant: the rest of a device is left out when one function is missing.
NoFunctionBreak ==
  /\ pc = "function"
  /\ machine[place] = Absent
  /\ place' = (place \div FunctionsPerDevice + 1) * FunctionsPerDevice
  /\ pc' = IF place' < Places THEN "function" ELSE "activate"
  /\ UNCHANGED <<given, device, bar, barNum, table, active, eth0>>

NoFunction ==
  /\ pc = "function"
  /\ machine[place] = Absent
  /\ place' = place + 1
  /\ pc' = AfterPlace
  /\ UNCHANGED <<given, device, bar, barNum, table, active, eth0>>

\* GetDeviceDescriptor sets all but portBase, which keeps what the stack
\* holds: that of the function before, or anything.
Describe ==
  /\ pc = "function"
  /\ machine[place] # Absent
  /\ \E leftover \in {device.portBase, Garbage} :
       device' = [place |-> place, isCard |-> machine[place].isCard,
                  interrupt |-> machine[place].line, portBase |-> leftover]
  /\ barNum' = 0
  /\ pc' = "bars"
  /\ UNCHANGED <<given, place, bar, table, active, eth0>>

\* GetBaseAddressRegister: beyond the last register the whole result, its type
\* included, is uninitialised; for a memory register its address is.
BaseAddressRegister(f, n) ==
  IF n >= MaxBars(f)
    THEN {[type |-> t, address |-> a] :
            t \in {"memory", "io"}, a \in {bar.address, Garbage}}
  ELSE IF f.bars[n].type = "io" THEN {f.bars[n]}
  ELSE {[type |-> "memory", address |-> a] : a \in {bar.address, Garbage}}

\* Mutant: the address is taken whatever the register's type.
IsPortAny(b) == b.address # 0

IsPort(b) == b.address # 0 /\ b.type = "io"

ReadBar ==
  /\ pc = "bars"
  /\ barNum \in BarsRead
  /\ bar' \in BaseAddressRegister(machine[place], barNum)
  /\ device' = [device EXCEPT !.portBase = IF IsPort(bar') THEN bar'.address ELSE @]
  /\ barNum' = barNum + 1
  /\ UNCHANGED <<given, pc, place, table, active, eth0>>

HasRoom ==
  Cardinality({i \in 1 .. Len(drivers) : drivers[i].kind = "card"}) < room

\* Mutant: the driver is constructed whether or not malloc found room.
ConstructsAnyway(d) == d.isCard

\* GetDriver constructs a driver for the one card it knows, if malloc finds
\* room for it: the constructor takes over the vector.
Constructs(d) == d.isCard /\ HasRoom

SelectDriver ==
  /\ pc = "bars"
  /\ barNum \notin BarsRead
  /\ LET new == CardDriver(device)
     IN /\ handlers' = IF Constructs(device)
                         THEN [handlers EXCEPT ![new.vector] = Len(drivers) + 1]
                         ELSE handlers
        /\ drivers' = IF Constructs(device) /\ HasRoom
                        THEN Append(drivers, new) ELSE drivers
  /\ place' = place + 1
  /\ pc' = AfterPlace
  /\ UNCHANGED <<given, device, bar, barNum, active, eth0>>

----------------------------------------------------------------------------
\* kernel_main after the scan.

\* ActivateAll, one driver at a time.
ActivateNext ==
  /\ pc = "activate"
  /\ Cardinality(active) < Len(drivers)
  /\ active' = active \cup {Cardinality(active) + 1}
  /\ UNCHANGED <<given, pc, scan, table, eth0>>

\* Mutant: the table is indexed from one.
ThirdFromOne == 4

\* mDrivers[2].
Third == 3

\* In text mode the third driver is taken for the network card, then the
\* interrupts are turned on; eth0 is Garbage when there is no third driver.
InterruptsOn ==
  /\ pc = "activate"
  /\ Cardinality(active) = Len(drivers)
  /\ eth0' = CASE mode = "graphics" -> 0
               [] mode = "text" /\ Third <= Len(drivers) -> Third
               [] OTHER -> Garbage
  /\ pc' = "running"
  /\ UNCHANGED <<given, scan, table, active>>

Next ==
  \/ NoFunction \/ Describe \/ ReadBar \/ SelectDriver
  \/ ActivateNext \/ InterruptsOn

Spec == Init /\ [][Next]_vars

----------------------------------------------------------------------------
\* Correctness.

IsCard(p) == machine[p] # Absent /\ machine[p].isCard

Ports(p) ==
  LET f == machine[p]
  IN {f.bars[n].address : n \in {m \in BarsRead : f.bars[m].type = "io"}} \ {0}

\* Types: places stay within the scan, vectors within their eight bits.
TypeOK ==
  /\ pc \in {"function", "bars", "activate", "running"}
  /\ place \in 0 .. Places
  /\ barNum \in 0 .. 6
  /\ bar.type \in {"memory", "io"}
  /\ \A i \in 1 .. Len(drivers) : drivers[i].vector \in 0 .. 255
  /\ DOMAIN handlers = Vectors
  /\ active \subseteq 1 .. Len(drivers)
  /\ eth0 \in {0, Third, Garbage}

\* A card's driver talks to a port of its own card, if that has one and its
\* header is that of an endpoint (type 0, six registers), though the locals the
\* port comes through still hold what earlier functions left, bridges included.
HasOwnPort(p) == machine[p].header = 0 /\ Ports(p) # {}

PortsAreOwn ==
  \A i \in 1 .. Len(drivers) :
    drivers[i].kind = "card" /\ HasOwnPort(drivers[i].place)
      => drivers[i].port \in Ports(drivers[i].place)

\* The scan passes no card by and drives none twice: when the drivers are
\* activated every place where a card answered has one driver, or the heap
\* was full.  A card that answers for all its functions answers at eight
\* places, because numOfFunctions is not used.
EveryCardDriven ==
  pc \in {"activate", "running"} =>
    LET driven(p) == {i \in 1 .. Len(drivers) :
                        drivers[i].kind = "card" /\ drivers[i].place = p}
    IN \A p \in 0 .. Places - 1 :
         /\ Cardinality(driven(p)) <= (IF IsCard(p) THEN 1 ELSE 0)
         /\ IsCard(p) /\ driven(p) = {} => ~HasRoom

\* What kernel_main takes for the network card is the first card of the
\* scan, whenever there is one and the heap had room: the keyboard and the
\* mouse, and nothing else, come before it in the table.
ThirdIsFirstCard ==
  pc = "running" /\ mode = "text" /\ room > 0 =>
    \A p \in 0 .. Places - 1 :
      IsCard(p) /\ (\A q \in 0 .. p - 1 : ~IsCard(q))
        => eth0 = Third /\ drivers[Third].place = p

\* Once interrupts are on, a vector leads to an activated driver that was
\* given this vector, and only a later driver of the same vector can have
\* taken it from an earlier one.
HandlersAreActive ==
  pc = "running" =>
    /\ \A v \in Vectors : handlers[v] # 0 =>
         handlers[v] \in active /\ drivers[handlers[v]].vector = v
    /\ \A i \in 1 .. Len(drivers) : handlers[drivers[i].vector] >= i
==============================================================================
