----------------------------- MODULE Pci_proofs -----------------------------
(****************************************************************************)
(* What holds of the PCI scan on every machine, for any number of places    *)
(* and any heap.                                                            *)
(****************************************************************************)
EXTENDS Pci, FiniteSetTheorems, TLAPS

Entries(s) == {s[n] : n \in DOMAIN s}

Typed ==
  /\ mode \in {"text", "graphics"} /\ machine \in Machines /\ room \in Nat
  /\ pc \in {"function", "bars", "activate", "running"}
  /\ place \in 0 .. Places
  /\ pc \in {"function", "bars"} <=> place < Places
  /\ barNum \in 0 .. 6
  /\ bar.type \in {"memory", "io"}
  /\ device \in [place : 0 .. Places - 1, isCard : BOOLEAN,
                 interrupt : Lines \cup {0}, portBase : {device.portBase}]
  /\ drivers \in Seq(Entries(drivers)) /\ Len(drivers) >= 2
  /\ \A i \in 1 .. Len(drivers) : drivers[i].vector \in Vectors
  /\ handlers \in [Vectors -> 0 .. Len(drivers)]

\* Function p has an I/O register among its first n that the scan can use.
HasPortBelow(p, n) ==
  \E m \in BarsRead : m < n /\ IsPort(machine[p].bars[m])

\* While the registers of a function are read, the locals are about that
\* function, and the port of an endpoint is one of its own as soon as it can be.
Reading ==
  pc = "bars" =>
    /\ machine[place] # Absent
    /\ device.place = place
    /\ device.isCard = machine[place].isCard
    /\ device.interrupt = machine[place].line
    /\ machine[place].header = 0 /\ HasPortBelow(place, barNum)
         => device.portBase \in Ports(place)

\* The table: keyboard, mouse, then cards in the order of their places.
InOrder ==
  /\ \A i \in 1 .. Len(drivers) : drivers[i].kind = "card" <=> i >= Third
  /\ \A i \in Third .. Len(drivers) :
       drivers[i].place \in 0 .. place - 1 /\ IsCard(drivers[i].place)
  /\ \A i, j \in Third .. Len(drivers) :
       i < j => drivers[i].place < drivers[j].place

\* A card the scan has passed has a driver, or the heap was full with drivers
\* of earlier cards.
Covered ==
  \A p \in 0 .. place - 1 :
    IsCard(p) =>
      \/ \E i \in Third .. Len(drivers) : drivers[i].place = p
      \/ /\ ~HasRoom
         /\ \A i \in Third .. Len(drivers) : drivers[i].place < p

\* Vectors lead to the last driver registered for them.
Registered ==
  /\ \A v \in Vectors : handlers[v] # 0 => drivers[handlers[v]].vector = v
  /\ \A i \in 1 .. Len(drivers) : handlers[drivers[i].vector] >= i

Activated ==
  /\ \E k \in 0 .. Len(drivers) : active = 1 .. k
  /\ pc \in {"function", "bars"} => active = {}
  /\ pc # "running" => eth0 = 0
  /\ pc = "running" =>
       /\ active = 1 .. Len(drivers)
       /\ eth0 \in {0, Third, Garbage}
       /\ mode = "text" /\ Third <= Len(drivers) => eth0 = Third

IInv ==
  /\ Typed /\ Reading /\ PortsAreOwn
  /\ InOrder /\ Covered /\ Registered /\ Activated

----------------------------------------------------------------------------
\* Facts about the state.

LEMMA VectorTypes ==
  /\ Vectors \subseteq 0 .. 255
  /\ \A l \in Lines : Vector(l) \in Vectors
  /\ KeyboardDriver.vector \in Vectors /\ MouseDriver.vector \in Vectors
  /\ KeyboardDriver.vector = 33 /\ MouseDriver.vector = 44
<1>0. Lines \subseteq 0 .. 255
  BY PciAssumption
<1>1. \A l \in Lines : Vector(l) \in 0 .. 255
  BY <1>0 DEF Vector
<1>2. KeyboardDriver.vector = 33 /\ MouseDriver.vector = 44
  BY DEF KeyboardDriver, MouseDriver
<1> QED
  BY <1>1, <1>2 DEF Vectors

\* A longer table keeps its entries.
LEMMA Appended ==
  ASSUME NEW s, s \in Seq(Entries(s)), NEW e
  PROVE  /\ Append(s, e) \in Seq(Entries(Append(s, e)))
         /\ Len(s) \in Nat /\ Len(Append(s, e)) = Len(s) + 1
         /\ Append(s, e)[Len(s) + 1] = e
         /\ \A n \in 1 .. Len(s) : Append(s, e)[n] = s[n]
<1> DEFINE S == Entries(s) \cup {e}
           t == Append(s, e)
<1>1. s \in Seq(S) /\ e \in S
  <2>1. Entries(s) \subseteq S
    OBVIOUS
  <2> QED
    BY <2>1
<1>2. /\ t \in Seq(S) /\ Len(s) \in Nat /\ Len(t) = Len(s) + 1
      /\ DOMAIN t = 1 .. Len(t) /\ t[Len(s) + 1] = e
      /\ \A n \in 1 .. Len(s) : t[n] = s[n]
  BY <1>1
<1> HIDE DEF S, t
<1>3. t \in [1 .. Len(t) -> Entries(t)] /\ Len(t) \in Nat
  BY <1>2 DEF Entries
<1>4. t \in Seq(Entries(t))
  BY <1>3
<1> QED
  BY <1>2, <1>4 DEF t

\* The heap has room for as many drivers as are not yet in the table.
LEMMA RoomLeft ==
  ASSUME Typed, InOrder
  PROVE  HasRoom <=> Len(drivers) - 2 < room
<1>1. Len(drivers) \in Nat /\ Len(drivers) >= 2
  BY DEF Typed
<1>2. {i \in 1 .. Len(drivers) : drivers[i].kind = "card"}
        = Third .. Len(drivers)
  BY <1>1 DEF InOrder, Third
<1>3. Cardinality(Third .. Len(drivers)) = Len(drivers) - 2
  BY <1>1, FS_Interval DEF Third
<1> QED
  BY <1>2, <1>3 DEF HasRoom

----------------------------------------------------------------------------
\* The invariant holds at first ...

LEMMA InitIInv ==
  ASSUME Init
  PROVE  IInv
<1> USE DEF Init
<1>1. /\ drivers \in Seq(Entries(drivers)) /\ Len(drivers) = 2
      /\ drivers[1] = KeyboardDriver /\ drivers[2] = MouseDriver
  <2>1. drivers \in [1 .. 2 -> Entries(drivers)]
    BY DEF Entries
  <2>2. drivers \in Seq(Entries(drivers))
    BY <2>1
  <2> QED
    BY <2>2
<1>2. Typed
  BY <1>1, VectorTypes, PciAssumption DEF Typed, NoBar
<1>3. Reading /\ PortsAreOwn
  BY <1>1 DEF Reading, PortsAreOwn, KeyboardDriver, MouseDriver
<1>4. InOrder /\ Covered
  BY <1>1 DEF InOrder, Covered, Third, KeyboardDriver, MouseDriver
<1>5. Registered
  BY <1>1, VectorTypes DEF Registered
<1>6. Activated
  <2>1. {} = 1 .. 0
    OBVIOUS
  <2> QED
    BY <1>1, <2>1 DEF Activated
<1> QED
  BY <1>2, <1>3, <1>4, <1>5, <1>6 DEF IInv

----------------------------------------------------------------------------
\* ... and every step keeps it.

\* Neither ports nor drivers change.
LEMMA PortsFrame ==
  ASSUME PortsAreOwn, UNCHANGED <<machine, drivers>>
  PROVE  PortsAreOwn'
<1> SUFFICES ASSUME NEW i \in 1 .. Len(drivers),
                    drivers[i].kind = "card",
                    machine[drivers[i].place].header = 0,
                    Ports(drivers[i].place)' # {}
      PROVE  drivers[i].port \in Ports(drivers[i].place)'
  BY DEF PortsAreOwn, HasOwnPort
<1>1. Ports(drivers[i].place)' = Ports(drivers[i].place)
  BY DEF Ports
<1> QED
  BY <1>1 DEF PortsAreOwn, HasOwnPort

\* Steps that leave the table and the place alone keep what is said of them.
LEMMA TableFrame ==
  ASSUME InOrder, Covered, Registered, PortsAreOwn,
         UNCHANGED <<given, place, table>>
  PROVE  InOrder' /\ Covered' /\ Registered' /\ PortsAreOwn'
<1>0. UNCHANGED <<machine, room, drivers, handlers, place>>
  BY DEF given, table
<1>1. InOrder'
  BY <1>0 DEF InOrder, IsCard
<1>2. Covered'
  <2>1. HasRoom' = HasRoom
    BY <1>0 DEF HasRoom
  <2> QED
    BY <1>0, <2>1 DEF Covered, IsCard
<1>3. Registered'
  BY <1>0 DEF Registered
<1> QED
  BY <1>0, <1>1, <1>2, <1>3, PortsFrame

LEMMA NoFunctionKeepsIInv ==
  ASSUME IInv, NoFunction
  PROVE  IInv'
<1> USE PciAssumption DEF IInv, given, table
<1>0. /\ UNCHANGED <<mode, machine, room, device, bar, barNum, drivers, handlers,
                     active, eth0>>
      /\ place \in 0 .. Places - 1 /\ place' = place + 1
      /\ pc = "function" /\ machine[place] = Absent
      /\ pc' = IF place + 1 < Places THEN "function" ELSE "activate"
  BY DEF NoFunction, AfterPlace, Typed
<1>1. Typed'
  BY <1>0 DEF Typed
<1>2. Reading'
  BY <1>0 DEF Reading
<1>3. PortsAreOwn' /\ Registered'
  BY <1>0, PortsFrame DEF Registered
<1>4. InOrder'
  BY <1>0 DEF InOrder, IsCard
<1>5. Covered'
  <2>1. HasRoom' = HasRoom
    BY <1>0 DEF HasRoom
  <2>2. \A p \in 0 .. place : p = place \/ p \in 0 .. place - 1
    BY <1>0
  <2> QED
    BY <1>0, <2>1, <2>2 DEF Covered, IsCard
<1>6. Activated'
  BY <1>0 DEF Activated
<1> QED
  BY <1>1, <1>2, <1>3, <1>4, <1>5, <1>6

LEMMA DescribeKeepsIInv ==
  ASSUME IInv, Describe
  PROVE  IInv'
<1> USE PciAssumption DEF IInv, given, table
<1>0. /\ UNCHANGED <<mode, machine, room, place, bar, drivers, handlers, active, eth0>>
      /\ place \in 0 .. Places - 1 /\ barNum' = 0
      /\ pc = "function" /\ pc' = "bars" /\ machine[place] # Absent
      /\ machine \in Machines
  BY DEF Describe, Typed
<1>1. PICK leftover \in {device.portBase, Garbage} :
        device' = [place |-> place, isCard |-> machine[place].isCard,
                   interrupt |-> machine[place].line, portBase |-> leftover]
  BY DEF Describe
<1>2. machine[place].isCard \in BOOLEAN /\ machine[place].line \in Lines
  BY <1>0
<1>3. Typed'
  BY <1>0, <1>1, <1>2 DEF Typed
<1>4. Reading'
  BY <1>0, <1>1 DEF Reading, HasPortBelow, BarsRead
<1>5. InOrder' /\ Covered' /\ Registered' /\ PortsAreOwn'
  BY <1>0, TableFrame
<1>6. Activated'
  BY <1>0 DEF Activated
<1> QED
  BY <1>3, <1>4, <1>5, <1>6

LEMMA ReadBarKeepsIInv ==
  ASSUME IInv, ReadBar
  PROVE  IInv'
<1> USE PciAssumption DEF IInv, given, table
<1> DEFINE f == machine[place]
<1>0. /\ UNCHANGED <<mode, machine, room, pc, place, drivers, handlers, active, eth0>>
      /\ pc = "bars" /\ barNum \in BarsRead /\ barNum' = barNum + 1
      /\ bar' \in BaseAddressRegister(f, barNum)
      /\ device' = [device EXCEPT !.portBase =
                      IF IsPort(bar') THEN bar'.address ELSE @]
      /\ place \in 0 .. Places - 1 /\ machine \in Machines
      /\ f # Absent
  BY DEF ReadBar, Typed, Reading
<1>1. \A n \in BarsRead : f.bars[n].type \in {"memory", "io"}
  BY <1>0
<1>2. bar'.type \in {"memory", "io"}
  BY <1>0, <1>1 DEF BaseAddressRegister
<1>3. f.header = 0 /\ IsPort(bar') => bar'.address \in Ports(place)
  <2> SUFFICES ASSUME f.header = 0, IsPort(bar') PROVE bar'.address \in Ports(place)
    OBVIOUS
  <2>1. ~(barNum >= MaxBars(f))
    BY <1>0 DEF MaxBars, BarsRead
  <2>2. CASE f.bars[barNum].type = "io"
    <3>1. bar' = f.bars[barNum]
      BY <1>0, <2>1, <2>2 DEF BaseAddressRegister
    <3> QED
      BY <1>0, <2>2, <3>1 DEF Ports, IsPort
  <2>3. CASE f.bars[barNum].type # "io"
    BY <1>0, <2>1, <2>3 DEF BaseAddressRegister, IsPort
  <2> QED
    BY <2>2, <2>3
<1>4. f.header = 0 /\ IsPort(f.bars[barNum]) => IsPort(bar')
  <2> SUFFICES ASSUME f.header = 0, IsPort(f.bars[barNum]) PROVE IsPort(bar')
    OBVIOUS
  <2>1. f.bars[barNum].type = "io" /\ ~(barNum >= MaxBars(f))
    BY <1>0 DEF IsPort, MaxBars, BarsRead
  <2>2. bar' = f.bars[barNum]
    BY <1>0, <2>1 DEF BaseAddressRegister
  <2> QED
    BY <2>2
<1>5. /\ device'.portBase = IF IsPort(bar') THEN bar'.address ELSE device.portBase
      /\ device' \in [place : {device.place}, isCard : {device.isCard},
                      interrupt : {device.interrupt}, portBase : {device'.portBase}]
  BY <1>0 DEF Typed
<1> HIDE DEF f
<1>6. Typed'
  BY <1>0, <1>2, <1>5 DEF Typed, BarsRead
<1>7. Reading'
  <2>1. HasPortBelow(place, barNum + 1)
          => HasPortBelow(place, barNum) \/ IsPort(f.bars[barNum])
    BY <1>0 DEF HasPortBelow, BarsRead, f
  <2>2. f.header = 0 /\ HasPortBelow(place, barNum + 1)
          => device'.portBase \in Ports(place)
    BY <1>0, <1>3, <1>4, <1>5, <2>1 DEF Reading, f
  <2>3. Ports(place)' = Ports(place) /\ HasPortBelow(place, barNum)'
          = HasPortBelow(place, barNum + 1)
    BY <1>0 DEF Ports, HasPortBelow
  <2> QED
    BY <1>0, <1>3, <1>5, <2>2, <2>3 DEF Reading, f
<1>8. InOrder' /\ Covered' /\ Registered' /\ PortsAreOwn'
  BY <1>0, TableFrame
<1>9. Activated'
  BY <1>0 DEF Activated
<1> QED
  BY <1>6, <1>7, <1>8, <1>9

\* Where a card is found and there is room, its driver becomes the last.
LEMMA SelectDriverKeepsIInv ==
  ASSUME IInv, SelectDriver
  PROVE  IInv'
<1> USE PciAssumption DEF IInv, given, table
<1> DEFINE new == CardDriver(device)
           n == Len(drivers)
<1>0. /\ UNCHANGED <<mode, machine, room, device, bar, barNum, active, eth0>>
      /\ place \in 0 .. Places - 1 /\ place' = place + 1
      /\ pc = "bars" /\ barNum = 6
      /\ pc' = IF place + 1 < Places THEN "function" ELSE "activate"
      /\ machine \in Machines /\ machine[place] # Absent
      /\ n \in Nat /\ n >= 2 /\ room \in Nat
  BY DEF SelectDriver, AfterPlace, Typed, Reading, BarsRead
<1>1. \A p : IsCard(p)' = IsCard(p)
  BY <1>0 DEF IsCard
<1>2. /\ device.place = place /\ device.isCard = machine[place].isCard
      /\ device.interrupt = machine[place].line /\ machine[place].line \in Lines
      /\ machine[place].isCard \in BOOLEAN
      /\ \A m \in BarsRead : machine[place].bars[m].type \in {"memory", "io"}
  BY <1>0 DEF Reading
<1>3. HasOwnPort(place) => device.portBase \in Ports(place)
  <2> SUFFICES ASSUME HasOwnPort(place) PROVE HasPortBelow(place, barNum)
    BY <1>0 DEF Reading, HasOwnPort
  <2>1. PICK m \in BarsRead : /\ machine[place].bars[m].type = "io"
                              /\ machine[place].bars[m].address # 0
    BY DEF Ports, HasOwnPort
  <2>2. m < barNum
    BY <1>0 DEF BarsRead
  <2> QED
    BY <2>1, <2>2 DEF HasPortBelow, IsPort
<1>4. Reading'
  BY <1>0 DEF Reading
<1>6. CASE ~(device.isCard /\ HasRoom)
  <2>1. UNCHANGED <<drivers, handlers>>
    BY <1>6 DEF SelectDriver, Constructs
  <2>2. Typed'
    BY <1>0, <2>1 DEF Typed
  <2>3. InOrder'
    BY <1>0, <2>1 DEF InOrder, IsCard
  <2>4. Covered'
    <3>1. HasRoom' = HasRoom
      BY <1>0, <2>1 DEF HasRoom
    <3>2. \A p \in 0 .. place : p = place \/ p \in 0 .. place - 1
      BY <1>0
    <3>3. IsCard(place) => ~HasRoom
      BY <1>2, <1>6 DEF IsCard
    <3>4. \A i \in Third .. Len(drivers) : drivers[i].place < place
      BY <1>0 DEF InOrder
    <3> QED
      BY <1>0, <2>1, <3>1, <3>2, <3>3, <3>4 DEF Covered, IsCard
  <2>5. Registered' /\ PortsAreOwn'
    BY <1>0, <2>1, PortsFrame DEF Registered
  <2>6. Activated'
    BY <1>0, <2>1 DEF Activated
  <2> QED
    BY <1>4, <2>2, <2>3, <2>4, <2>5, <2>6
<1>7. CASE device.isCard /\ HasRoom
  <2>0. IsCard(place)
    BY <1>0, <1>2, <1>7 DEF IsCard
  <2>1. /\ drivers' = Append(drivers, new)
        /\ handlers' = [handlers EXCEPT ![new.vector] = n + 1]
    BY <1>7 DEF SelectDriver, Constructs
  <2>2. /\ new.kind = "card" /\ new.place = place
        /\ new.port = device.portBase /\ new.vector \in Vectors
    BY <1>2, VectorTypes DEF CardDriver
  <2> HIDE DEF new
  <2>3. /\ drivers' \in Seq(Entries(drivers')) /\ Len(drivers') = n + 1
        /\ drivers'[n + 1] = new
        /\ \A i \in 1 .. n : drivers'[i] = drivers[i]
    BY <2>1, Appended DEF Typed
  <2> HIDE DEF n
  <2>4. \A i \in 1 .. (n + 1) : i = n + 1 \/ i \in 1 .. n
    BY <1>0
  <2>5. \A i \in Third .. (n + 1) : i = n + 1 \/ i \in Third .. n
    BY <1>0 DEF Third
  <2>6. Third .. n \subseteq 1 .. n /\ n + 1 >= Third /\ n + 1 \notin 1 .. n
    BY <1>0 DEF Third
  <2>7. /\ handlers' \in [Vectors -> 0 .. (n + 1)]
        /\ \A v \in Vectors :
             handlers'[v] = IF v = new.vector THEN n + 1 ELSE handlers[v]
    BY <1>0, <2>1, <2>2 DEF Typed, n
  <2>8. Typed'
    <3>1. \A i \in 1 .. (n + 1) : drivers'[i].vector \in Vectors
      BY <2>2, <2>3, <2>4 DEF Typed, n
    <3>2. drivers' \in Seq(Entries(drivers')) /\ Len(drivers') >= 2
      BY <1>0, <2>3
    <3>3. /\ place' \in 0 .. Places
          /\ pc' \in {"function", "bars", "activate", "running"}
          /\ pc' \in {"function", "bars"} <=> place' < Places
      BY <1>0
    <3> QED
      BY <1>0, <2>3, <2>7, <3>1, <3>2, <3>3 DEF Typed
  <2>9. InOrder'
    <3>1. \A i \in 1 .. (n + 1) : drivers'[i].kind = "card" <=> i >= Third
      BY <2>2, <2>3, <2>4, <2>6 DEF InOrder, n
    <3>2. \A i \in Third .. (n + 1) :
            drivers'[i].place \in 0 .. place /\ IsCard(drivers'[i].place)
      <4> SUFFICES ASSUME NEW i \in Third .. (n + 1)
            PROVE  drivers'[i].place \in 0 .. place /\ IsCard(drivers'[i].place)
        OBVIOUS
      <4>1. CASE i = n + 1
        BY <4>1, <1>0, <2>0, <2>2, <2>3
      <4>2. CASE i \in Third .. n
        <5>1. drivers'[i] = drivers[i]
          BY <4>2, <2>3, <2>6
        <5>2. drivers[i].place \in 0 .. place - 1 /\ IsCard(drivers[i].place)
          BY <4>2 DEF InOrder, n
        <5> QED
          BY <5>1, <5>2, <1>0
      <4> QED
        BY <2>5, <4>1, <4>2
    <3>3. \A i, j \in Third .. (n + 1) :
            i < j => drivers'[i].place < drivers'[j].place
      <4> SUFFICES ASSUME NEW i \in Third .. (n + 1), NEW j \in Third .. (n + 1),
                          i < j
            PROVE  drivers'[i].place < drivers'[j].place
        OBVIOUS
      <4>1. i \in Third .. n
        BY <1>0 DEF Third
      <4>2. drivers'[i] = drivers[i] /\ drivers[i].place \in 0 .. place - 1
        BY <4>1, <2>3, <2>6 DEF InOrder, n
      <4>3. CASE j = n + 1
        BY <4>2, <4>3, <1>0, <2>2, <2>3
      <4>4. CASE j \in Third .. n
        <5>1. drivers'[j] = drivers[j]
          BY <4>4, <2>3, <2>6
        <5> QED
          BY <4>1, <4>2, <4>4, <5>1 DEF InOrder, n
      <4> QED
        BY <2>5, <4>3, <4>4
    <3>4. (place + 1) - 1 = place
      BY <1>0
    <3> QED
      BY <1>0, <2>3, <3>1, <3>2, <3>3, <3>4 DEF InOrder, IsCard
  <2>10. Covered'
    <3> SUFFICES ASSUME NEW p \in 0 .. place, IsCard(p)
          PROVE  \E i \in Third .. (n + 1) : drivers'[i].place = p
      BY <1>0, <2>3 DEF Covered, IsCard
    <3>1. CASE p = place
      <4>1. n + 1 \in Third .. (n + 1)
        BY <1>0, <2>6 DEF Third
      <4> QED
        BY <3>1, <4>1, <2>2, <2>3
    <3>2. CASE p # place
      <4>1. p \in 0 .. place - 1
        BY <1>0, <3>2
      <4>2. PICK i \in Third .. n : drivers[i].place = p
        BY <1>7, <4>1 DEF Covered, n
      <4>3. i \in Third .. (n + 1) /\ drivers'[i] = drivers[i]
        BY <1>0, <2>3, <2>6
      <4> QED
        BY <4>2, <4>3
    <3> QED
      BY <3>1, <3>2
  <2>11. Registered'
    <3>1. ASSUME NEW v \in Vectors, handlers'[v] # 0
          PROVE  drivers'[handlers'[v]].vector = v
      <4>1. CASE v = new.vector
        BY <4>1, <2>3, <2>7
      <4>2. CASE v # new.vector
        <5>1. handlers'[v] = handlers[v]
          BY <2>7, <4>2
        <5>2. handlers[v] \in 1 .. n
          BY <3>1, <5>1, <1>0 DEF Typed, n
        <5> QED
          BY <2>3, <3>1, <5>1, <5>2 DEF Registered
      <4> QED
        BY <4>1, <4>2
    <3>2. ASSUME NEW i \in 1 .. (n + 1)
          PROVE  handlers'[drivers'[i].vector] >= i
      <4>1. CASE i = n + 1
        BY <4>1, <1>0, <2>2, <2>3, <2>7
      <4>2. CASE i \in 1 .. n
        <5>1. drivers'[i] = drivers[i] /\ drivers[i].vector \in Vectors
          BY <4>2, <2>3 DEF Typed, n
        <5>2. handlers[drivers[i].vector] >= i
          BY <4>2 DEF Registered, n
        <5> QED
          BY <4>2, <1>0, <2>7, <5>1, <5>2
      <4> QED
        BY <2>4, <4>1, <4>2
    <3> QED
      BY <2>3, <3>1, <3>2 DEF Registered
  <2>12. PortsAreOwn'
    <3> SUFFICES ASSUME NEW i \in 1 .. (n + 1), drivers'[i].kind = "card",
                        HasOwnPort(drivers[i].place)'
          PROVE  drivers'[i].port \in Ports(drivers[i].place)'
      BY <2>3 DEF PortsAreOwn
    <3>1. Ports(drivers[i].place)' = Ports(drivers'[i].place)
      BY <1>0 DEF Ports
    <3>2. HasOwnPort(drivers'[i].place)
      BY <1>0, <3>1 DEF HasOwnPort
    <3>3. CASE i = n + 1
      BY <3>1, <3>2, <3>3, <1>3, <2>2, <2>3
    <3>4. CASE i \in 1 .. n
      BY <3>1, <3>2, <3>4, <2>3 DEF PortsAreOwn, n
    <3> QED
      BY <2>4, <3>3, <3>4
  <2>13. Activated'
    <3>1. active' = {} /\ {} = 1 .. 0 /\ 0 \in 0 .. (n + 1)
      BY <1>0 DEF Activated
    <3> QED
      BY <1>0, <2>3, <3>1 DEF Activated
  <2> QED
    BY <1>4, <2>8, <2>9, <2>10, <2>11, <2>12, <2>13
<1> QED
  BY <1>6, <1>7

\* The drivers activated so far are the first ones.
LEMMA UpTo ==
  ASSUME NEW k \in Nat
  PROVE  Cardinality(1 .. k) = k
BY FS_Interval

LEMMA ActivateNextKeepsIInv ==
  ASSUME IInv, ActivateNext
  PROVE  IInv'
<1> USE PciAssumption DEF IInv, given, table, scan
<1>0. /\ UNCHANGED <<mode, machine, room, pc, place, device, bar, barNum,
                     drivers, handlers, eth0>>
      /\ pc = "activate" /\ Cardinality(active) < Len(drivers)
      /\ active' = active \cup {Cardinality(active) + 1}
  BY DEF ActivateNext
<1>1. Typed' /\ Reading'
  BY <1>0 DEF Typed, Reading
<1>2. InOrder' /\ Covered' /\ Registered' /\ PortsAreOwn'
  BY <1>0, TableFrame
<1>3. Activated'
  <2>1. PICK k \in 0 .. Len(drivers) : active = 1 .. k
    BY DEF Activated
  <2>2. Len(drivers) \in Nat
    BY DEF Typed
  <2>3. Cardinality(active) = k
    BY <2>1, <2>2, UpTo
  <2>4. active' = 1 .. (k + 1) /\ k + 1 \in 0 .. Len(drivers)
    BY <1>0, <2>1, <2>2, <2>3
  <2> QED
    BY <1>0, <2>4 DEF Activated
<1> QED
  BY <1>1, <1>2, <1>3

LEMMA InterruptsOnKeepsIInv ==
  ASSUME IInv, InterruptsOn
  PROVE  IInv'
<1> USE PciAssumption DEF IInv, given, table, scan
<1>0. /\ UNCHANGED <<mode, machine, room, place, device, bar, barNum, drivers,
                     handlers, active>>
      /\ pc = "activate" /\ pc' = "running"
      /\ Cardinality(active) = Len(drivers)
  BY DEF InterruptsOn
<1>1. Typed' /\ Reading'
  BY <1>0 DEF Typed, Reading
<1>2. InOrder' /\ Covered' /\ Registered' /\ PortsAreOwn'
  BY <1>0, TableFrame
<1>3. active = 1 .. Len(drivers) /\ Len(drivers) \in 0 .. Len(drivers)
  <2>1. PICK k \in 0 .. Len(drivers) : active = 1 .. k
    BY DEF Activated
  <2>2. Len(drivers) \in Nat
    BY DEF Typed
  <2>3. Cardinality(active) = k
    BY <2>1, <2>2, UpTo
  <2> QED
    BY <1>0, <2>1, <2>2, <2>3
<1>4. eth0' \in {0, Third, Garbage}
      /\ (mode = "text" /\ Third <= Len(drivers) => eth0' = Third)
  <2>1. CASE mode = "graphics"
    BY <2>1 DEF InterruptsOn
  <2>2. CASE mode = "text" /\ Third <= Len(drivers)
    BY <2>2 DEF InterruptsOn
  <2>3. CASE mode = "text" /\ ~(Third <= Len(drivers))
    BY <2>3 DEF InterruptsOn
  <2> QED
    BY <2>1, <2>2, <2>3 DEF Typed
<1>5. Activated'
  BY <1>0, <1>3, <1>4 DEF Activated
<1> QED
  BY <1>1, <1>2, <1>5

LEMMA StutterKeepsIInv ==
  ASSUME IInv, UNCHANGED vars
  PROVE  IInv'
<1> USE DEF vars, given, table, scan, IInv
<1>1. Typed' /\ Activated'
  BY DEF Typed, Activated
<1>2. Reading'
  <2>1. Ports(place)' = Ports(place)
    BY DEF Ports
  <2>2. HasPortBelow(place, barNum)' = HasPortBelow(place, barNum)
    BY DEF HasPortBelow
  <2> QED
    BY <2>1, <2>2 DEF Reading
<1>3. InOrder' /\ Covered' /\ Registered' /\ PortsAreOwn'
  BY TableFrame
<1> QED
  BY <1>1, <1>2, <1>3

----------------------------------------------------------------------------
\* The theorems.

\* The inductive invariant, for every machine and every heap.
THEOREM PciInvariant == Spec => []IInv
<1>1. IInv /\ [Next]_vars => IInv'
  BY NoFunctionKeepsIInv, DescribeKeepsIInv, ReadBarKeepsIInv,
     SelectDriverKeepsIInv, ActivateNextKeepsIInv, InterruptsOnKeepsIInv,
     StutterKeepsIInv
     DEF Next
<1> QED
  BY <1>1, InitIInv, PTL DEF Spec

\* The walk never leaves the configuration space, vectors keep to eight bits.
THEOREM TypeCorrect == Spec => []TypeOK
<1>1. IInv => TypeOK
  <2> SUFFICES ASSUME IInv PROVE TypeOK
    OBVIOUS
  <2>1. active \subseteq 1 .. Len(drivers)
    <3>1. PICK k \in 0 .. Len(drivers) : active = 1 .. k
      BY DEF IInv, Activated
    <3> QED
      BY <3>1 DEF IInv, Typed
  <2>2. eth0 \in {0, Third, Garbage}
    BY DEF IInv, Typed, Activated
  <2>3. \A i \in 1 .. Len(drivers) : drivers[i].vector \in 0 .. 255
    BY VectorTypes DEF IInv, Typed
  <2>4. DOMAIN handlers = Vectors
    BY DEF IInv, Typed
  <2> QED
    BY <2>1, <2>2, <2>3, <2>4 DEF IInv, Typed, TypeOK
<1> QED
  BY <1>1, PciInvariant, PTL

\* SelectDrivers gives each card that is an endpoint and has a port a port of
\* its own, whatever its locals held.
THEOREM PortsCorrect == Spec => []PortsAreOwn
<1>1. IInv => PortsAreOwn
  BY DEF IInv
<1> QED
  BY <1>1, PciInvariant, PTL

\* The scan drives every card once, unless the heap is full.
THEOREM CardsDriven == Spec => []EveryCardDriven
<1>1. IInv => EveryCardDriven
  <2> SUFFICES ASSUME IInv, pc \in {"activate", "running"},
                      NEW p \in 0 .. Places - 1
        PROVE  LET driven == {i \in 1 .. Len(drivers) :
                      drivers[i].kind = "card" /\ drivers[i].place = p}
               IN /\ Cardinality(driven) <= (IF IsCard(p) THEN 1 ELSE 0)
                  /\ IsCard(p) /\ driven = {} => ~HasRoom
    BY DEF EveryCardDriven
  <2> DEFINE driven == {i \in 1 .. Len(drivers) :
                drivers[i].kind = "card" /\ drivers[i].place = p}
  <2>1. place = Places /\ Places \in Nat /\ Len(drivers) \in Nat
    BY PciAssumption DEF IInv, Typed
  <2>2. \A i \in driven : i \in Third .. Len(drivers) /\ drivers[i].place = p
    BY <2>1 DEF IInv, InOrder, Third
  <2>3. \A i, j \in driven : i = j
    <3> SUFFICES ASSUME NEW i \in driven, NEW j \in driven, i < j PROVE FALSE
      BY <2>1
    <3>1. drivers[i].place < drivers[j].place
      BY <2>2 DEF IInv, InOrder
    <3> QED
      BY <2>2, <3>1
  <2>4. driven = {} \/ \E i : driven = {i}
    BY <2>3
  <2>5. Cardinality(driven) <= 1 /\ (driven = {} => Cardinality(driven) = 0)
    <3> HIDE DEF driven
    <3>1. CASE driven = {}
      BY <3>1, FS_EmptySet
    <3>2. ASSUME NEW i, driven = {i}
          PROVE  Cardinality(driven) <= 1 /\ driven # {}
      <4>1. Cardinality({i}) = 1
        BY FS_Singleton, Zenon
      <4> QED
        BY <3>2, <4>1
    <3> QED
      BY <2>4, <3>1, <3>2
  <2>6. ~IsCard(p) => driven = {}
    BY <2>2 DEF IInv, InOrder
  <2>7. IsCard(p) /\ driven = {} => ~HasRoom
    <3> SUFFICES ASSUME IsCard(p), HasRoom PROVE driven # {}
      OBVIOUS
    <3>1. PICK i \in Third .. Len(drivers) : drivers[i].place = p
      BY <2>1 DEF IInv, Covered
    <3>2. i \in 1 .. Len(drivers) /\ drivers[i].kind = "card"
      BY <2>1, <3>1 DEF IInv, InOrder, Third
    <3> QED
      BY <3>1, <3>2
  <2> QED
    BY <2>5, <2>6, <2>7
<1> QED
  BY <1>1, PciInvariant, PTL

\* mDrivers[2] is the first card, whenever there is a card and room for it.
THEOREM ThirdCorrect == Spec => []ThirdIsFirstCard
<1>1. IInv => ThirdIsFirstCard
  <2> SUFFICES ASSUME IInv, pc = "running", mode = "text", room > 0,
                      NEW p \in 0 .. Places - 1, IsCard(p),
                      \A q \in 0 .. p - 1 : ~IsCard(q)
        PROVE  eth0 = Third /\ drivers[Third].place = p
    BY DEF ThirdIsFirstCard
  <2>1. place = Places /\ Places \in Nat /\ Len(drivers) \in Nat /\ room \in Nat
    BY PciAssumption DEF IInv, Typed
  <2>2. /\ \E i \in Third .. Len(drivers) : drivers[i].place = p
        /\ Third \in Third .. Len(drivers)
    <3>1. ASSUME \A i \in Third .. Len(drivers) : drivers[i].place < p
          PROVE  HasRoom
      <4>1. \A i \in Third .. Len(drivers) :
              drivers[i].place \in 0 .. p - 1 /\ IsCard(drivers[i].place)
        BY <2>1, <3>1 DEF IInv, InOrder
      <4>2. ~(Third <= Len(drivers))
        BY <2>1, <4>1 DEF Third
      <4> QED
        BY <2>1, <4>2, RoomLeft DEF IInv, Third
    <3>2. PICK i \in Third .. Len(drivers) : drivers[i].place = p
      BY <2>1, <3>1 DEF IInv, Covered
    <3> QED
      BY <2>1, <3>2 DEF Third
  <2>3. PICK i \in Third .. Len(drivers) : drivers[i].place = p
    BY <2>2
  <2>4. i = Third
    <3> SUFFICES ASSUME Third < i PROVE FALSE
      BY <2>1 DEF Third
    <3>1. drivers[Third].place < p /\ IsCard(drivers[Third].place)
          /\ drivers[Third].place \in 0 .. place - 1
      BY <2>2, <2>3 DEF IInv, InOrder
    <3>2. drivers[Third].place \in 0 .. p - 1
      BY <2>1, <3>1
    <3> QED
      BY <3>1, <3>2
  <2>5. eth0 = Third
    BY <2>1, <2>2 DEF IInv, Activated, Third
  <2> QED
    BY <2>3, <2>4, <2>5
<1> QED
  BY <1>1, PciInvariant, PTL

\* Every vector in use leads to an activated driver of that vector.
THEOREM HandlersCorrect == Spec => []HandlersAreActive
<1>1. IInv => HandlersAreActive
  <2> SUFFICES ASSUME IInv, pc = "running" PROVE HandlersAreActive
    BY DEF HandlersAreActive
  <2>1. active = 1 .. Len(drivers)
    BY DEF IInv, Activated
  <2>2. \A v \in Vectors : handlers[v] # 0 => handlers[v] \in 1 .. Len(drivers)
    BY DEF IInv, Typed
  <2> QED
    BY <2>1, <2>2 DEF IInv, Registered, HandlersAreActive
<1> QED
  BY <1>1, PciInvariant, PTL
=============================================================================
