------------------------------ MODULE Network ------------------------------
(****************************************************************************)
(* The network stack from kernel_main down: AddressResolutionProtocol over  *)
(* EthernetFrameProvider over am79c973, with the main program resolving the *)
(* gateway while the interrupt handler answers requests and fills the cache. *)
(****************************************************************************)
EXTENDS Am79c973

CONSTANTS
  Gateway,       \* the address kernel_main resolves (gip_be)
  OurIP,         \* the address given to SetIPAddress (ip_be)
  SizeOfCache,   \* sizeOfCache, 128 in arp.hpp
  Leftover,      \* what the uninitialised IPcache and MACcache happen to hold
  Incoming,      \* messages other hosts send to us of their own accord
  MaxArrivals,   \* bound: how many of those come in
  Quality        \* whether they come in whole: a subset of BOOLEAN

ASSUME StackAssumption ==
  /\ SizeOfCache \in Nat \ {0}
  /\ Quality \subseteq BOOLEAN

VARIABLES
  cache,            \* IPcache and MACcache
  numCacheEntries,
  main,             \* kernel_main: pc, index in the cache, MAC found
  asked,            \* the gateway has our request and has not answered yet
  heard             \* pairs of addresses announced to us, in order

arpVars == <<cache, numCacheEntries, heard>>
vars == <<driverVars, arpVars, main, asked>>

Cache == 0 .. (SizeOfCache - 1)

\* 0xFFFFFFFFFFFF, which GetMACFromCache returns when it finds nothing.
Broadcast == "broadcast"
OurMAC == "ours"

\* The Ethernet type an EthernetFrameHandler has registered for, and another.
ARP == "0x0806"
OtherType == "other"
Registered == {ARP}

\* A frame: EthernetFrameHeader, and the AddressResolutionProtocolMessage in it
\* as far as it is looked at.
Frame(to, from, command, srcIP, srcMAC, dstIP) ==
  [dstMac |-> to, srcMac |-> from, type |-> ARP,
   command |-> command, srcIP |-> srcIP, srcMAC |-> srcMAC, dstIP |-> dstIP]
Request(src, mac, dst) == Frame(Broadcast, mac, "request", src, mac, dst)
Reply(src, mac, dst) == Frame(OurMAC, mac, "reply", src, mac, dst)
Noise == [Frame(Broadcast, Broadcast, "none", OurIP, Broadcast, OurIP)
            EXCEPT !.type = OtherType]

Init ==
  /\ InitDriver
  /\ cache \in [Cache -> Leftover]
  /\ numCacheEntries = 0
  /\ main = [pc |-> "boot", i |-> 0, result |-> Broadcast]
  /\ asked = FALSE
  /\ heard = <<>>

----------------------------------------------------------------------------
\* The network.

PeerSends ==
  \E f \in Incoming, ok \in Quality :
    /\ Len(stored) < MaxArrivals
    /\ DeviceReceive(f, ok)
    /\ UNCHANGED <<arpVars, main, asked>>

FrameLost == DeviceMiss /\ UNCHANGED <<arpVars, main, asked>>

\* Our request reaches the gateway, which answers it.
CardTransmits ==
  /\ DeviceTransmit
  /\ asked' = (asked \/ txBuffer[txDevice] = Request(OurIP, OurMAC, Gateway))
  /\ UNCHANGED <<arpVars, main>>

\* ... or tries to, while the host owns the card's next descriptor.
AnswerLost ==
  /\ asked
  /\ asked' = FALSE
  /\ DeviceMiss
  /\ UNCHANGED <<arpVars, main>>

GatewayAnswers ==
  /\ asked
  /\ asked' = FALSE
  /\ DeviceReceive(Reply(Gateway, "gw", OurIP), TRUE)
  /\ UNCHANGED <<arpVars, main>>

----------------------------------------------------------------------------
\* The interrupt handler: EthernetFrameProvider::OnRawDataReceived passes what
\* is addressed to us to the handler of its type, OnEthernetFrameReceivedData
\* looks for our IP address.

Dispatched(m) == m.dstMac \in {Broadcast, OurMAC} /\ m.type \in Registered

ForUs(m) == Dispatched(m) /\ m.dstIP = OurIP

IsRequest(m) == ForUs(m) /\ m.command = "request"
IsReply(m) == ForUs(m) /\ m.command = "reply"

\* Mutant: the header's two addresses are assigned in the other order.
AnswerToSwapped(m) == Frame(OurMAC, OurMAC, "reply", OurIP, OurMAC, m.srcIP)

\* The request is turned into an answer in place, then its header.
AnswerTo(m) == Frame(m.srcMac, OurMAC, "reply", OurIP, OurMAC, m.srcIP)

\* Mutant: numCacheEntries is moved on between the two assignments.
AddToCacheApart(m) ==
  /\ cache' = [cache EXCEPT ![numCacheEntries].ip = m.srcIP,
                            ![(numCacheEntries + 1) % SizeOfCache].mac = m.srcMAC]
  /\ numCacheEntries' = (numCacheEntries + 1) % SizeOfCache
  /\ heard' = Append(heard, [ip |-> m.srcIP, mac |-> m.srcMAC])

AddToCache(m) ==
  /\ cache' = [cache EXCEPT ![numCacheEntries] =
                 [ip |-> m.srcIP, mac |-> m.srcMAC]]
  /\ numCacheEntries' = (numCacheEntries + 1) % SizeOfCache
  /\ heard' = Append(heard, [ip |-> m.srcIP, mac |-> m.srcMAC])

OnReceived ==
  LET m == rxBuffer[currentRecvBuffer]
  IN /\ ReceiveFrame(IsRequest(m), AnswerTo(m))
     /\ IF IsReply(m) THEN AddToCache(m) ELSE UNCHANGED arpVars
     /\ UNCHANGED <<main, asked>>

InterruptsOn == main.pc # "boot"

HandlerStep ==
  /\ InterruptsOn
  /\ Handler
  /\ UNCHANGED <<arpVars, main, asked>>

----------------------------------------------------------------------------
\* kernel_main: Activate, then Resolve(gip_be).

Running == irq.pc = "idle" /\ sending.pc = "idle"

ActivateInterrupts ==
  /\ main.pc = "boot"
  /\ main' = [main EXCEPT !.pc = "lookup"]
  /\ UNCHANGED <<driverVars, arpVars, asked>>

\* GetMACFromCache, one entry per step, used or not; the match and the read
\* of the MAC are two steps an interrupt may come between.
LookupMatch ==
  /\ Running /\ main.pc \in {"lookup", "relookup"}
  /\ main.i \in Cache
  /\ main' = IF cache[main.i].ip = Gateway
               THEN [main EXCEPT !.pc = IF @ = "lookup" THEN "read" ELSE "reread"]
               ELSE [main EXCEPT !.i = @ + 1]
  /\ UNCHANGED <<driverVars, arpVars, asked>>

\* An entry that holds the broadcast address counts as not found.
LookupReadMAC ==
  /\ Running /\ main.pc \in {"read", "reread"}
  /\ main' = IF cache[main.i].mac = Broadcast
               THEN [main EXCEPT !.pc = IF @ = "read" THEN "lookup" ELSE "relookup",
                                 !.i = SizeOfCache]
               ELSE [pc |-> "resolved", i |-> 0, result |-> cache[main.i].mac]
  /\ UNCHANGED <<driverVars, arpVars, asked>>

\* Not found: the first time RequestMACAddress sends a request, through
\* EthernetFrameProvider::Send (its copy lies in the heap) ...
RequestMACAddress ==
  /\ Running /\ main.pc = "lookup" /\ main.i = SizeOfCache
  /\ main' = [main EXCEPT !.pc = "relookup", !.i = 0]
  /\ SendCall(Request(OurIP, OurMAC, Gateway))
  /\ UNCHANGED <<arpVars, asked>>

\* ... afterwards the loop looks again.
LookAgain ==
  /\ Running /\ main.pc = "relookup" /\ main.i = SizeOfCache
  /\ main' = [main EXCEPT !.i = 0]
  /\ UNCHANGED <<driverVars, arpVars, asked>>

MainSends == Sender /\ UNCHANGED <<arpVars, main, asked>>

Main ==
  \/ ActivateInterrupts \/ LookupMatch \/ LookupReadMAC
  \/ RequestMACAddress \/ LookAgain \/ MainSends

Interrupt == HandlerStep \/ OnReceived

Next ==
  \/ PeerSends \/ FrameLost \/ CardTransmits \/ GatewayAnswers
  \/ AnswerLost
  \/ Interrupt \/ Main

\* The processor runs, the card delivers interrupts and transmits what it is
\* given, the gateway answers.  Nothing obliges other hosts to send.
Spec ==
  /\ Init /\ [][Next]_vars
  /\ WF_vars(Interrupt) /\ WF_vars(Main)
  /\ WF_vars(CardTransmits) /\ WF_vars(GatewayAnswers)

----------------------------------------------------------------------------
\* Correctness.

TypeOK ==
  /\ DriverTypeOK
  /\ numCacheEntries \in Cache
  /\ main.i \in 0 .. SizeOfCache
  /\ asked \in BOOLEAN

\* Until the cache wraps, Resolve returns a MAC that was announced for the
\* gateway in one reply: the interrupt that adds an entry between the two
\* reads of GetMACFromCache touches no entry it is looking at.
\* Leftovers of the uninitialised cache that name the gateway are excepted.
ResolvedIsAnnounced ==
  main.pc = "resolved" =>
    \/ \E k \in 1 .. Len(heard) :
         heard[k] = [ip |-> Gateway, mac |-> main.result]
    \/ Len(heard) > SizeOfCache
    \/ \E l \in Leftover : l.ip = Gateway

\* Rows as long as am79c973.hpp:81 says, 2048 bytes for frames of at most 1518:
\* nothing written to one buffer reaches another, wherever rounding moves the
\* two.
RoomyBuffers == RowWidth >= FrameSize + 15 /\ RowWidth >= AnswerSize + 15

\* In rows of the documented length, and unless calls of Send spoil each other,
\* what the card transmits is what was meant: our request, or the answer to a
\* request for our address that came in before, which names the host that
\* asked and whose header takes it to the station that asked.
AnswersWereAskedFor ==
  RoomyBuffers /\ ~spoiled =>
    \A n \in 1 .. Len(wire) :
      \/ wire[n] = Request(OurIP, OurMAC, Gateway)
      \/ /\ wire[n].command = "reply" /\ wire[n].srcIP = OurIP
         /\ \E k \in 1 .. Len(stored) :
              /\ stored[k].command = "request" /\ stored[k].dstIP = OurIP
              /\ wire[n].dstIP = stored[k].srcIP
              /\ wire[n].dstMac = stored[k].srcMac

\* Every frame the card has stored is looked at by Receive in the end.
FramesAreRead ==
  \A n \in 1 .. MaxArrivals : (Len(stored) >= n) ~> (taken >= n)

\* Resolve returns once the gateway has answered.
ResolveReturns == <>(main.pc = "resolved")
==============================================================================
