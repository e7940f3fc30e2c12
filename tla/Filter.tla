-------------------------------- MODULE Filter --------------------------------
(***************************************************************************)
(* The packet classifier (filter.go, match.go): the blocks WithFilter,     *)
(* WithExcept and WithKeepManagement become, and what the program made of  *)
(* them decides about a packet, on the interface Open attaches it to and   *)
(* in MatchPacket's test run (matchpacket.go).  A block is a sequence of   *)
(* instructions; a load and the comparison it serves are one instruction.  *)
(* Values are as on the wire: netshort swaps a constant just as the load   *)
(* swaps the field.                                                        *)
(* Only Field knows what the layout of a packet puts at an offset.         *)
(***************************************************************************)
EXTENDS Integers, SequencesExt

CONSTANTS
    Filters,    \* Seq of [except, match : Seq of rules, keep : BOOLEAN,
                \*  ports : Seq of numbers, parent : Seq of host prefixes, the interface's addresses,
                \*  children : those of its VLANs and the like,
                \*  known, childrenKnown : BOOLEAN, whether they can be read]
    Packets,    \* [tags, ether, len, ihl, frag, proto, src, dst, l4, stray]
    WordBits,   \* bits in a word of an address, 32 in the code
    MaxLocals   \* addresses the exceptions are scoped to at most, 16 in the code

VARIABLES
    call,       \* "Open" or "MatchPacket"
    filter,     \* which of Filters it is given
    pc,         \* "open", "refused", "loaded", "run" or "done"
    blk, ip,    \* the next instruction: its block, and its index there
    packet,     \* what the program runs on
    data, base, \* R7 and R9, as offsets into the packet
    queue,      \* R8: the queue of the packet, or another
    verdict     \* "none" until the program returns

regs == <<data, base, queue>>
vars == <<call, filter, pc, blk, ip, packet, regs, verdict>>

EtIPv4 == 2048
EtIPv6 == 34525
EtARP  == 2054
EtVLAN == 33024
ICMP   == 1
TCP    == 6
UDP    == 17
ICMPv6 == 58
ExtHdr == 0         \* the Next Header of a Hop-by-Hop header

EtherType(v4) == IF v4 THEN EtIPv4 ELSE EtIPv6
ProtoOff(v4)  == IF v4 THEN 23 ELSE 20
SrcOff(v4)    == IF v4 THEN 26 ELSE 22
DstOff(v4)    == IF v4 THEN 30 ELSE 38
AddrEnd(v4)   == IF v4 THEN 34 ELSE 54
L4Off(v4)     == IF v4 THEN 34 ELSE 54
PortOff(v4, srcPort) == L4Off(v4) + IF srcPort THEN 0 ELSE 2

Larger(a, b) == IF a > b THEN a ELSE b

Pow2[n \in Nat] == IF n = 0 THEN 1 ELSE 2 * Pow2[n - 1]

(***************************************************************************)
(* Instructions.                                                           *)
(***************************************************************************)

\* boundsFrom on R9: to the next block unless n bytes from the base exist.
Bounds(n) == [op |-> "bounds", n |-> n]

\* Load width bytes at off; to the next block unless part of the value,
\* value \div div % mod, is one of vals.
Part(off, width, div, mod, vals) ==
    [op |-> "test", off |-> off, width |-> width, div |-> div, mod |-> mod, vals |-> vals]
Is(off, width, vals) == Part(off, width, 1, 65536, vals)

IsEther(type) == Is(12, 2, {type})
Jump(to)      == [op |-> "jump", to |-> to]     \* "redirect" or "next"
Write(reg)    == [op |-> "write", reg |-> reg]  \* some other value into R0, R7, R8 or R9
Exit          == [op |-> "exit"]                \* return an XDP action

\* l3Base: R9 to the start of the frame, past one VLAN tag.
L3Base == <<[op |-> "frame"], Bounds(14), [op |-> "untag"]>>

\* Mutant of Recheck: the check before the tag was skipped will do.
NoRecheck == <<>>

\* matchL4Port checks the EtherType's reach again, the base having moved.
Recheck == <<Bounds(14)>>

\* Mutant of Guard: the fixed offsets are believed.
NoGuard == <<>>

\* ipv4FixedL4Guard: no options, and not a later fragment.
Guard == <<Is(14, 1, {69}), Part(20, 2, 1, 8192, {0})>>

GuardIf(v4) == IF v4 THEN Guard ELSE <<>>

\* cidrTest: a test for each word of the address the prefix covers, of the
\* bits it covers there.
CidrTest(off, prefix) ==
    LET spared(i) == Larger(0, i * WordBits - prefix.bits)
    IN  [i \in 1..((prefix.bits + WordBits - 1) \div WordBits) |->
            Part(off + 4 * (i - 1), 4, Pow2[spared(i)], Pow2[WordBits],
                 {prefix.addr[i] \div Pow2[spared(i)]})]

(***************************************************************************)
(* The block of a rule.                                                    *)
(***************************************************************************)

\* Mutant of PortBound: IPv6's reach asked of both families.
OneBound(v4, srcPort) == PortOff(FALSE, srcPort) + 2

\* How far a block that reads a port must reach, in each family its own way.
PortBound(v4, srcPort) == PortOff(v4, srcPort) + 2

\* Most builders check once how far they reach and then test field by field.
Arm(reach, tests) == <<Bounds(reach)>> \o tests \o <<Jump("redirect")>>

\* matchL4Port: one branch for each address family; no ports means any.
L4PortFamily(r, v4) ==
    Arm(PortBound(v4, r.srcPort),
        GuardIf(v4) \o <<Is(ProtoOff(v4), 1, {r.proto})>>
            \o (IF r.ports = {} THEN <<>> ELSE <<Is(PortOff(v4, r.srcPort), 2, r.ports)>>))

L4Port(r) ==
    LET head == L3Base \o Recheck
        four == L4PortFamily(r, TRUE)
    IN  head \o <<[op |-> "branch", v6 |-> Len(head \o four) + 2]>>
             \o four \o L4PortFamily(r, FALSE)

\* matchLocalPort: a port and a local destination; a prefix of no bits is any.
LocalPort(r) ==
    LET v4 == r.v4
    IN  L3Base \o Arm(Larger(AddrEnd(v4), PortBound(v4, r.srcPort)),
            <<IsEther(EtherType(v4))>> \o GuardIf(v4)
                \o <<Is(ProtoOff(v4), 1, {r.proto}), Is(PortOff(v4, r.srcPort), 2, {r.port})>>
                \o CidrTest(DstOff(v4), r.local))

\* MatchSrcIP, MatchDstIP and MatchFlow: the side not asked about has no bits.
Address(r) ==
    L3Base \o Arm(AddrEnd(r.v4),
        <<IsEther(EtherType(r.v4))>> \o CidrTest(SrcOff(r.v4), r.src) \o CidrTest(DstOff(r.v4), r.dst))

\* MatchICMPv4Echo, MatchICMPv6Echo and matchICMPv6ND, which differ in types.
IcmpType(r) ==
    L3Base \o Arm(L4Off(r.v4) + 1,
        <<IsEther(EtherType(r.v4))>> \o GuardIf(r.v4)
            \o <<Is(ProtoOff(r.v4), 1, {IF r.v4 THEN ICMP ELSE ICMPv6}), Is(L4Off(r.v4), 1, r.types)>>)

\* MatchIPv4Proto and MatchIPv6NextHeader.
IPProto(r) ==
    L3Base \o Arm(ProtoOff(r.v4) + 1, <<IsEther(EtherType(r.v4)), Is(ProtoOff(r.v4), 1, {r.proto})>>)

MatchEtherType(r) == L3Base \o Arm(14, <<IsEther(r.type)>>)

\* NewMatch: the caller's instructions, their fall-through made explicit.
Custom(r) ==
    IF r.ins # <<>> /\ Last(r.ins).op = "jump" THEN r.ins ELSE Append(r.ins, Jump("next"))

Build(r) ==
    CASE r.kind = "l4port"    -> L4Port(r)
      [] r.kind = "localPort" -> LocalPort(r)
      [] r.kind = "address"   -> Address(r)
      [] r.kind = "icmp"      -> IcmpType(r)
      [] r.kind = "ipProto"   -> IPProto(r)
      [] r.kind = "etherType" -> MatchEtherType(r)
      [] r.kind = "custom"    -> Custom(r)
      [] r.kind = "all"       -> <<Jump("redirect")>>
      [] r.kind = "none"      -> <<Jump("next")>>
      [] r.kind = "error"     -> <<>>

\* checkBlock: R8 and the bounds are not to be written, and the block leaves
\* by a jump.
CheckBlock(ins) ==
    \A i \in 1..Len(ins) : ins[i].op # "exit" /\ (ins[i].op = "write" => ins[i].reg \in {"R0", "R9"})

(***************************************************************************)
(* From the options to the program.                                        *)
(***************************************************************************)
AnyHost(v4) == [addr |-> IF v4 THEN <<0>> ELSE <<0, 0, 0, 0>>, bits |-> 0]
IsV4(prefix) == Len(prefix.addr) = 1

\* Each address once: parent and child share their link-local one.
Distinct(hosts) ==
    LET kept[i \in 0..Len(hosts)] ==
            IF i = 0 THEN <<>>
            ELSE IF hosts[i] \in Range(kept[i - 1]) THEN kept[i - 1]
            ELSE Append(kept[i - 1], hosts[i])
    IN  kept[Len(hosts)]

\* Mutant of LocalPrefixes: the addresses on the interface itself will do.
ParentPrefixes(f) == Distinct(f.parent)

\* localPrefixes: the children's addresses count too, when they can be read.
LocalPrefixes(f) == Distinct(f.parent \o IF f.childrenKnown THEN f.children ELSE <<>>)

\* The destinations the port rules are scoped to: any, when the addresses
\* could not be read.  MatchPacket has no interface to read them from.
Hosts(c, f) ==
    IF c = "Open" /\ f.known THEN LocalPrefixes(f) ELSE <<AnyHost(TRUE), AnyHost(FALSE)>>

\* managementExceptions: ARP and neighbour discovery; sessions to and from
\* each port, and DNS replies, as [proto, srcPort, port]; each of these rules
\* for each host.
PortRules(f) ==
    [i \in 1..(2 * Len(f.ports)) |-> [proto |-> TCP, srcPort |-> i % 2 = 0, port |-> f.ports[(i + 1) \div 2]]]
        \o <<[proto |-> UDP, srcPort |-> TRUE, port |-> 53], [proto |-> TCP, srcPort |-> TRUE, port |-> 53]>>

ScopedTo(p, host) ==
    [kind |-> "localPort", proto |-> p.proto, srcPort |-> p.srcPort, port |-> p.port,
     local |-> host, v4 |-> IsV4(host)]

ManagementRules(c, f) ==
    LET rules == PortRules(f)
        hosts == Hosts(c, f)
        n     == Len(hosts)
    IN  <<[kind |-> "etherType", type |-> EtARP],
          [kind |-> "icmp", v4 |-> FALSE, types |-> 133..137]>>
            \o [k \in 1..(Len(rules) * n) |-> ScopedTo(rules[((k - 1) \div n) + 1], hosts[((k - 1) % n) + 1])]

Exceptions(c, f) == (IF f.keep THEN ManagementRules(c, f) ELSE <<>>) \o f.except

\* classifierBlocks: the exceptions, whose hits pass, then the matches.  A
\* block's next is the one after it; after the last one the packet passes.
ClassifierBlocks(c, f) ==
    [i \in 1..Len(Exceptions(c, f)) |-> [ins |-> Build(Exceptions(c, f)[i]), hit |-> "pass"]]
        \o [i \in 1..Len(f.match) |-> [ins |-> Build(f.match[i]), hit |-> "redirect"]]

Calls  == {"Open", "MatchPacket"}
Blocks == [c \in Calls |-> [i \in DOMAIN Filters |-> ClassifierBlocks(c, Filters[i])]]

\* newFilterProgram does not look at the exceptions when nothing redirects.
PassOnly(f) == \A i \in 1..Len(f.match) : f.match[i].kind = "none"

\* validateMatches (MatchError and a zero Match are "error" here), and
\* checkBlock for every block.
Valid(c, f) ==
    LET built == ClassifierBlocks(c, f)
    IN  /\ \A i \in 1..Len(f.except) : f.except[i].kind \notin {"all", "error"}
        /\ \A i \in 1..Len(f.match) : f.match[i].kind # "error"
        /\ \A i \in 1..Len(built) : CheckBlock(built[i].ins)

\* No filter, or more addresses than a program of sensible size can list.
Refused(f) ==
    \/ f.match = <<>>
    \/ f.keep /\ f.known /\ Len(LocalPrefixes(f)) > MaxLocals
    \/ ~PassOnly(f) /\ ~Valid("Open", f)

(***************************************************************************)
(* What the constants may be: what the builders' types and checks let      *)
(* through, and what a frame's headers can hold.  A block of a caller's    *)
(* own is known by the registers it writes and by where it leaves to: its  *)
(* loads are between its author and the kernel's verifier, and a jump in   *)
(* its middle would leave instructions the verifier calls unreachable.     *)
(***************************************************************************)
Bytes  == 0..255
Halves == 0..65535
Words  == 0..(Pow2[WordBits] - 1)

Addresses(v4) == [1..(IF v4 THEN 1 ELSE 4) -> Words]
Cidrs(v4)     == [addr : Addresses(v4), bits : 0..(IF v4 THEN WordBits ELSE 4 * WordBits)]
HostPrefixes  == {p \in Cidrs(TRUE) \cup Cidrs(FALSE) : p.bits = Len(p.addr) * WordBits}

OwnInstructions ==
    {Exit} \cup {Write(reg) : reg \in {"R0", "R7", "R8", "R9"}} \cup {Jump(to) : to \in {"redirect", "next"}}
OwnBlocks == {b \in Seq(OwnInstructions) : \A i \in 1..(Len(b) - 1) : b[i].op # "jump"}

Rules ==
    [kind : {"l4port"}, proto : {TCP, UDP}, srcPort : BOOLEAN, ports : SUBSET Halves]
        \cup [kind : {"address"}, v4 : {TRUE}, src : Cidrs(TRUE), dst : Cidrs(TRUE)]
        \cup [kind : {"address"}, v4 : {FALSE}, src : Cidrs(FALSE), dst : Cidrs(FALSE)]
        \cup [kind : {"icmp"}, v4 : BOOLEAN, types : SUBSET Bytes]
        \cup [kind : {"ipProto"}, v4 : BOOLEAN, proto : Bytes]
        \cup [kind : {"etherType"}, type : Halves]
        \cup [kind : {"custom"}, ins : OwnBlocks]
        \cup [kind : {"all", "none", "error"}]

FilterOptions ==
    [except : Seq(Rules), match : Seq(Rules), keep : BOOLEAN, ports : Seq(Halves),
     parent : Seq(HostPrefixes), children : Seq(HostPrefixes), known : BOOLEAN, childrenKnown : BOOLEAN]

\* ether is the type behind the tags, so never a tag's.
Sane(p) ==
    /\ p.tags \in Nat /\ p.ether \in Halves \ {EtVLAN} /\ p.len \in Nat
    /\ p.ihl \in 0..15 /\ p.frag \in Halves /\ p.proto \in Bytes
    /\ p.ether = EtIPv4 => p.src \in Addresses(TRUE) /\ p.dst \in Addresses(TRUE)
    /\ p.ether = EtIPv6 => p.src \in Addresses(FALSE) /\ p.dst \in Addresses(FALSE)
    /\ p.l4 \in [1..2 -> Halves] /\ p.stray \in Halves

ASSUME FilterAssumption ==
    /\ WordBits \in Nat \ {0} /\ MaxLocals \in Nat
    /\ Filters \in Seq(FilterOptions)
    /\ \A p \in Packets : Sane(p)

options == Filters[filter]
blocks  == Blocks[call][filter]

Init ==
    /\ call \in Calls /\ filter \in DOMAIN Filters
    /\ pc = "open" /\ blk = 1 /\ ip = 1
    /\ packet = CHOOSE p \in Packets : TRUE
    /\ data = 0 /\ base = 0 /\ queue = "own"
    /\ verdict = "none"

OpenRefuses ==
    /\ call = "Open" /\ pc = "open" /\ Refused(options)
    /\ pc' = "refused"
    /\ UNCHANGED <<call, filter, blk, ip, packet, regs, verdict>>

OpenLoads ==
    /\ call = "Open" /\ pc = "open" /\ ~Refused(options)
    /\ pc' = "loaded"
    /\ UNCHANGED <<call, filter, blk, ip, packet, regs, verdict>>

\* MatchPacket wants an Ethernet header, and validates whatever it is given.
MatchPacketRefuses ==
    /\ call = "MatchPacket" /\ pc = "open"
    /\ packet' \in Packets
    /\ options.match = <<>> \/ packet'.len < 14 \/ ~Valid(call, options)
    /\ pc' = "refused"
    /\ UNCHANGED <<call, filter, blk, ip, regs, verdict>>

\* It loads the blocks with two plain tails and runs them on the packet.
MatchPacketRuns ==
    /\ call = "MatchPacket" /\ pc = "open"
    /\ packet' \in Packets
    /\ ~(options.match = <<>> \/ packet'.len < 14 \/ ~Valid(call, options))
    /\ pc' = "run"
    /\ UNCHANGED <<call, filter, blk, ip, regs, verdict>>

(***************************************************************************)
(* The program runs on a packet.                                           *)
(***************************************************************************)

\* The two leading fields of the L4 header (ports, or type and the rest) are
\* at a fixed place only without IPv4 options or IPv6 extension headers; a
\* later fragment has none.  What else may be there is the packet's stray.
L4Present ==
    IF packet.ether = EtIPv4 THEN packet.ihl = 5 /\ packet.frag % 8192 = 0
                             ELSE packet.ether = EtIPv6 /\ packet.proto # ExtHdr

V4Field(off) ==
    CASE off = 14 -> 64 + packet.ihl
      [] off = 20 -> packet.frag
      [] off = 23 -> packet.proto
      [] off = 26 -> packet.src[1]
      [] off = 30 -> packet.dst[1]
      [] off \in {34, 36} /\ L4Present -> packet.l4[(off - 32) \div 2]
      [] OTHER -> packet.stray

V6Field(off) ==
    CASE off = 20 -> packet.proto
      [] off \in {22, 26, 30, 34} -> packet.src[(off - 18) \div 4]
      [] off \in {38, 42, 46, 50} -> packet.dst[(off - 34) \div 4]
      [] off \in {54, 56} /\ L4Present -> packet.l4[(off - 52) \div 2]
      [] OTHER -> packet.stray

\* What is off bytes from R9.  With a tag not stepped over the next TPID is
\* where the EtherType would be.
Field(off) ==
    LET tagged == 4 * packet.tags
    IN  CASE off = 12 /\ base = tagged                       -> packet.ether
          [] off = 12 /\ base < tagged /\ base % 4 = 0       -> EtVLAN
          [] off # 12 /\ base = tagged /\ packet.ether = EtIPv4 -> V4Field(off)
          [] off # 12 /\ base = tagged /\ packet.ether = EtIPv6 -> V6Field(off)
          [] OTHER                                           -> packet.stray

block == blocks[blk]
ins   == block.ins[ip]

Running(op) == pc = "run" /\ ins.op = op

Return(action) ==
    /\ pc' = "done" /\ verdict' = action
    /\ UNCHANGED <<blk, ip>>

GotoNext ==
    IF blk < Len(blocks)
    THEN blk' = blk + 1 /\ ip' = 1 /\ UNCHANGED <<pc, verdict>>
    ELSE Return("pass")

GotoIns(i) == ip' = i /\ UNCHANGED <<pc, blk, verdict>>

\* A packet arrives; the prologue loads R6 to R8.  Nothing survives from one
\* packet to the next, so one is enough.
PacketArrives ==
    /\ pc = "loaded"
    /\ IF PassOnly(options)
       THEN Return("pass")
       ELSE pc' = "run" /\ UNCHANGED <<blk, ip, verdict>>
    /\ packet' \in Packets
    /\ UNCHANGED <<call, filter, regs>>

DoFrame ==
    /\ Running("frame")
    /\ base' = data
    /\ GotoIns(ip + 1)
    /\ UNCHANGED <<call, filter, packet, data, queue>>

DoBounds ==
    /\ Running("bounds")
    /\ IF base + ins.n > packet.len THEN GotoNext ELSE GotoIns(ip + 1)
    /\ UNCHANGED <<call, filter, packet, regs>>

DoUntag ==
    /\ Running("untag")
    /\ base' = IF Field(12) = EtVLAN THEN base + 4 ELSE base
    /\ GotoIns(ip + 1)
    /\ UNCHANGED <<call, filter, packet, data, queue>>

DoTest ==
    /\ Running("test")
    /\ IF (Field(ins.off) \div ins.div) % ins.mod \in ins.vals THEN GotoIns(ip + 1) ELSE GotoNext
    /\ UNCHANGED <<call, filter, packet, regs>>

\* The branch on the EtherType in matchL4Port.
DoBranch ==
    /\ Running("branch")
    /\ CASE Field(12) = EtIPv4 -> GotoIns(ip + 1)
         [] Field(12) = EtIPv6 -> GotoIns(ins.v6)
         [] OTHER              -> GotoNext
    /\ UNCHANGED <<call, filter, packet, regs>>

DoJump ==
    /\ Running("jump")
    /\ IF ins.to = "next" THEN GotoNext ELSE Return(block.hit)
    /\ UNCHANGED <<call, filter, packet, regs>>

DoWrite ==
    /\ Running("write")
    /\ data' = IF ins.reg = "R7" THEN data + 2 ELSE data
    /\ queue' = IF ins.reg = "R8" THEN "other" ELSE queue
    /\ base' = IF ins.reg = "R9" THEN base + 2 ELSE base
    /\ GotoIns(ip + 1)
    /\ UNCHANGED <<call, filter, packet>>

Run == DoFrame \/ DoBounds \/ DoUntag \/ DoTest \/ DoBranch \/ DoJump \/ DoWrite

Next == OpenRefuses \/ OpenLoads \/ MatchPacketRefuses \/ MatchPacketRuns \/ PacketArrives \/ Run

Spec == Init /\ [][Next]_vars

(***************************************************************************)
(* What the rules mean, said of the packet's headers and not of offsets.   *)
(***************************************************************************)

\* The first bits of the address are those of the prefix.
Bit(addr, i) == (addr[(i \div WordBits) + 1] \div Pow2[(WordBits - 1) - (i % WordBits)]) % 2
Inside(addr, prefix) == \A i \in 0..(prefix.bits - 1) : Bit(addr, i) = Bit(prefix.addr, i)

\* One tag is skipped, a second hides the packet behind its TPID.
Type  == IF packet.tags <= 1 THEN packet.ether ELSE EtVLAN
SentTo(srcPort) == IF srcPort THEN packet.l4[1] ELSE packet.l4[2]

\* The packet does not end before n bytes behind the Ethernet header, of which
\* the one tag is a part.  A field is there when the packet reaches its end.
Carries(n) == packet.len >= (IF packet.tags = 0 THEN 14 ELSE 18) + n
IPHeader   == IF Type = EtIPv4 THEN 20 ELSE 40
HasPort(srcPort) == L4Present /\ Carries(IPHeader + IF srcPort THEN 2 ELSE 4)

Meets(r) ==
    CASE r.kind = "l4port" ->
            /\ Type \in {EtIPv4, EtIPv6} /\ HasPort(r.srcPort)
            /\ packet.proto = r.proto
            /\ r.ports = {} \/ SentTo(r.srcPort) \in r.ports
      [] r.kind = "localPort" ->
            /\ Type = EtherType(r.v4) /\ HasPort(r.srcPort)
            /\ packet.proto = r.proto /\ SentTo(r.srcPort) = r.port
            /\ Inside(packet.dst, r.local)
      [] r.kind = "address" ->
            /\ Type = EtherType(r.v4) /\ Carries(IPHeader)
            /\ Inside(packet.src, r.src) /\ Inside(packet.dst, r.dst)
      [] r.kind = "icmp" ->
            /\ Type = EtherType(r.v4) /\ L4Present /\ Carries(IPHeader + 1)
            /\ packet.proto = (IF r.v4 THEN ICMP ELSE ICMPv6) /\ packet.l4[1] \in r.types
      [] r.kind = "ipProto" ->
            Type = EtherType(r.v4) /\ Carries(IF r.v4 THEN 10 ELSE 7) /\ packet.proto = r.proto
      [] r.kind = "etherType" -> Type = r.type /\ Carries(0)
      [] r.kind = "all"       -> TRUE
      [] r.kind = "custom"    -> r.ins # <<>> /\ Last(r.ins) = Jump("redirect")
      [] r.kind \in {"none", "error"} -> FALSE

MeetsAny(rules) == \E i \in 1..Len(rules) : Meets(rules[i])

Decided == pc = "done"

(***************************************************************************)
(* Properties.                                                             *)
(***************************************************************************)

\* A packet of any length is redirected, to its own queue, exactly when it
\* meets a match and no exception: no stray bytes, tag, fragment, cut, register
\* left by an earlier block or order of the blocks makes the program decide
\* otherwise, and a packet that holds the fields a rule asks about is not
\* missed for being short of more.  MatchPacket gives the same answer, so what
\* its tests show holds live.  (What the code says of a packet with options to
\* a rule on the protocol is taken for intended: filter.go:328 lets it match,
\* README.md:376-378 says that it does not.)
VerdictIsIntended ==
    Decided =>
        verdict = IF MeetsAny(options.match) /\ ~MeetsAny(Exceptions(call, options)) /\ queue = "own"
                  THEN "redirect" ELSE "pass"

\* What of WithKeepManagement the program keeps: ARP, neighbour discovery, and
\* packets from and to the host's ports and DNS replies whose ports are where
\* they are without options reach the kernel, at their least length, tagged or
\* not, whatever the filter asks for.  The host's are the addresses of the
\* interface and of its children; unknown addresses spare all of them.
\* Not kept, although the comment on the option knows no such cases
\* (options.go:380-385): packets of these sessions with IPv4 options, behind
\* an IPv6 extension header or in a later fragment, which have no port
\* (HasPort), and those to the addresses of children that could not be read.
Addressed(hosts) == \E i \in DOMAIN hosts : packet.dst = hosts[i].addr

ToThisHost ==
    \/ ~options.known
    \/ Addressed(options.parent)
    \/ options.childrenKnown /\ Addressed(options.children)

IsManagement ==
    \/ Type = EtARP /\ Carries(0)
    \/ Type = EtIPv6 /\ packet.proto = ICMPv6 /\ Carries(IPHeader + 1) /\ packet.l4[1] \in 133..137
    \/ /\ Type \in {EtIPv4, EtIPv6} /\ ToThisHost
       /\ \/ /\ packet.proto = TCP
             /\ \E i \in 1..Len(options.ports), s \in BOOLEAN : HasPort(s) /\ SentTo(s) = options.ports[i]
          \/ packet.proto \in {TCP, UDP} /\ HasPort(TRUE) /\ packet.l4[1] = 53

ManagementKept == Decided /\ options.keep /\ IsManagement => verdict = "pass"

\* No load leaves the packet, however short it is and wherever a tag moved
\* the base to: each one is covered by a check of the same block.
LoadsInBounds ==
    pc = "run" =>
        /\ ins.op = "test" => base + ins.off + ins.width <= packet.len
        /\ ins.op \in {"untag", "branch"} => base + 14 <= packet.len
=============================================================================
