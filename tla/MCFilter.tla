------------------------------ MODULE MCFilter ------------------------------
EXTENDS Filter

(***************************************************************************)
(* Filters: the builders alone and together, and blocks of a caller's own. *)
(***************************************************************************)
Net(addr, bits) == [addr |-> addr, bits |-> bits]
Host4  == Net(<<1>>, 2)
Host6  == Net(<<1, 0, 0, 2>>, 8)
Net4   == Net(<<2>>, 1)             \* addresses 2 and 3
Net6   == Net(<<1, 2, 0, 0>>, 3)    \* all of the first word, half of the second

Port(proto, src, ports)    == [kind |-> "l4port", proto |-> proto, srcPort |-> src, ports |-> ports]
AddressRule(v4, src, dst)  == [kind |-> "address", v4 |-> v4, src |-> src, dst |-> dst]
Echo(v4)                   == [kind |-> "icmp", v4 |-> v4, types |-> {IF v4 THEN 8 ELSE 128}]
Proto(v4, proto)           == [kind |-> "ipProto", v4 |-> v4, proto |-> proto]
Ether(type)                == [kind |-> "etherType", type |-> type]
Own(instructions)          == [kind |-> "custom", ins |-> instructions]
MatchAll  == [kind |-> "all"]
MatchNone == [kind |-> "none"]
Invalid   == [kind |-> "error"]

Plain(except, match) ==
    [except |-> except, match |-> match, keep |-> FALSE, ports |-> <<22>>,
     parent |-> <<>>, children |-> <<>>, known |-> TRUE, childrenKnown |-> TRUE]
Keeping(except, match, known, parent) ==
    [Plain(except, match) EXCEPT !.keep = TRUE, !.known = known, !.parent = parent]
OverVlan(f, children, known) == [f EXCEPT !.children = children, !.childrenKnown = known]

MCFilters ==
    <<Plain(<<>>, <<Port(UDP, FALSE, {4789}), Echo(TRUE), Port(TCP, TRUE, {443})>>),
      Plain(<<Ether(EtARP), Port(TCP, FALSE, {22})>>, <<Port(TCP, FALSE, {}), Echo(FALSE)>>),
      Plain(<<AddressRule(TRUE, Net4, AnyHost(TRUE))>>, <<Proto(TRUE, UDP), Proto(FALSE, ICMPv6)>>),
      Plain(<<>>, <<AddressRule(TRUE, Net4, Host4), AddressRule(FALSE, Net6, AnyHost(FALSE))>>),
      Plain(<<>>, <<MatchNone, Ether(EtVLAN), AddressRule(FALSE, AnyHost(FALSE), Host6)>>),
      Plain(<<Invalid>>, <<MatchNone>>),
      Plain(<<Invalid>>, <<MatchAll>>),
      Plain(<<MatchAll>>, <<Port(UDP, FALSE, {4789})>>),
      Plain(<<>>, <<>>),
      Plain(<<>>, <<Own(<<Write("R0"), Write("R9")>>), Port(UDP, FALSE, {4789})>>),
      Plain(<<Own(<<Jump("next")>>), Ether(EtARP)>>, <<Own(<<Write("R9"), Jump("redirect")>>)>>),
      Plain(<<>>, <<Own(<<Write("R7")>>), Port(UDP, FALSE, {4789})>>),
      Plain(<<>>, <<Own(<<Write("R8")>>), Port(UDP, FALSE, {4789})>>),
      Plain(<<>>, <<Own(<<Exit>>), Port(UDP, FALSE, {4789})>>),
      OverVlan(Keeping(<<>>, <<MatchAll>>, TRUE, <<Host6>>), <<Host4, Host6>>, TRUE),
      OverVlan(Keeping(<<>>, <<MatchAll>>, TRUE, <<Host6>>), <<Host4>>, FALSE),
      OverVlan(Keeping(<<>>, <<MatchAll>>, TRUE, <<Host4, Host6>>), <<Net(<<3>>, 2)>>, TRUE),
      Keeping(<<Echo(TRUE)>>, <<MatchAll>>, TRUE, <<>>),
      Keeping(<<>>, <<Port(TCP, FALSE, {22}), Port(UDP, TRUE, {53})>>, FALSE, <<>>)>>

(***************************************************************************)
(* Packets, each no longer than its headers: a TCP segment without data, a *)
(* datagram or message of eight bytes, an ARP request before its padding.  *)
(***************************************************************************)
LeastLen(type, proto) ==
    IF type = EtARP THEN 28
    ELSE (IF type = EtIPv4 THEN 20 ELSE 40) + (IF proto = TCP THEN 20 ELSE 8)

Frame(tags, type, proto, l4, src, dst) ==
    [tags |-> tags, ether |-> type, len |-> 14 + 4 * tags + LeastLen(type, proto), ihl |-> 5, frag |-> 0,
     proto |-> proto, l4 |-> l4, src |-> src, dst |-> dst, stray |-> 0]

Ports4 == {<<TCP, <<9, 22>>>>, <<TCP, <<443, 9>>>>, <<UDP, <<53, 9>>>>, <<UDP, <<9, 4789>>>>,
           <<ICMP, <<8, 0>>>>, <<ICMP, <<0, 0>>>>}
Ports6 == {<<TCP, <<22, 9>>>>, <<UDP, <<9, 4789>>>>, <<ICMPv6, <<128, 0>>>>, <<ICMPv6, <<137, 0>>>>,
           <<ExtHdr, <<9, 4789>>>>}

\* IPv4, whole or a first fragment; options and later fragments with bytes
\* at the fixed offsets that read as a port somebody asked for.
Packets4 ==
    LET plain == {Frame(t, EtIPv4, p[1], p[2], <<s>>, <<d>>) :
                      t \in 0..2, p \in Ports4, s \in {1, 2}, d \in {1, 3}}
        odd   == {[p EXCEPT !.ihl = o[1], !.len = @ + 4 * (o[1] - 5), !.frag = o[2], !.stray = v] :
                      p \in plain, o \in {<<6, 0>>, <<5, 1>>, <<5, 8193>>}, v \in {22, 4789}}
    IN  plain \cup odd \cup {[p EXCEPT !.frag = 8192] : p \in plain}

Packets6 ==
    {[Frame(t, EtIPv6, p[1], p[2], s, d) EXCEPT !.stray = 4789] :
        t \in 0..2, p \in Ports6,
        s \in {<<1, 3, 0, 0>>, <<1, 1, 0, 0>>}, d \in {Host6.addr, <<1, 0, 0, 3>>}}

PacketsOther == {Frame(t, EtARP, 0, <<0, 0>>, <<0>>, <<0>>) : t \in 0..1}

\* Packets cut short, or padded, wherever a check could be off by one: behind
\* the EtherType, the protocol, the addresses, an ICMP type and each port, with
\* and without a tag.
Cuts == {13, 14, 17, 18, 20, 21, 23, 24, 25, 27, 28, 33, 34, 35, 36, 37, 38, 39, 40, 41, 42,
         53, 54, 55, 56, 57, 58, 59, 60, 61, 62, 78}

Cut ==
    {[p EXCEPT !.len = n] :
        p \in UNION {{Frame(t, EtIPv4, TCP, <<9, 22>>, <<2>>, <<1>>),
                      Frame(t, EtIPv4, TCP, <<443, 9>>, <<2>>, <<1>>),
                      Frame(t, EtIPv4, UDP, <<53, 9>>, <<2>>, <<1>>),
                      Frame(t, EtIPv4, ICMP, <<8, 0>>, <<2>>, <<1>>),
                      Frame(t, EtIPv6, TCP, <<22, 9>>, <<1, 3, 0, 0>>, Host6.addr),
                      Frame(t, EtIPv6, UDP, <<9, 4789>>, <<1, 3, 0, 0>>, Host6.addr),
                      Frame(t, EtIPv6, ICMPv6, <<128, 0>>, <<1, 3, 0, 0>>, Host6.addr),
                      Frame(t, EtIPv6, ICMPv6, <<133, 0>>, <<1, 3, 0, 0>>, Host6.addr),
                      Frame(t, EtARP, 0, <<0, 0>>, <<0>>, <<0>>)} : t \in 0..1},
        n \in Cuts}

MCPackets == Packets4 \cup Packets6 \cup PacketsOther \cup Cut
=============================================================================
