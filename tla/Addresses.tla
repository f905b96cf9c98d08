----------------------------- MODULE Addresses -----------------------------
(***************************************************************************)
(* Network addresses: foundation's net module (CIDR membership, the        *)
(* RFC 6890 table) and vestibulum's discovery/private-ip, which decides    *)
(* where a probe may go.                                                   *)
(*                                                                         *)
(* An address arrives as text, and the same address has many spellings, so *)
(* the model keeps the spelling (a Text) apart from the address (a tuple   *)
(* of four octets or of eight hextets).  A spelling is kept as its parse   *)
(* tree; characters are not.                                               *)
(***************************************************************************)
EXTENDS Naturals, Sequences

\* A dotted quad; padded is set when some octet has a leading zero.
Quad(octets, padded) == [kind |-> "v4", octets |-> octets, padded |-> padded]

\* hi "::" lo tail "%zone": without "::" (gap FALSE) lo is empty; tail is an
\* embedded dotted quad that ends the text, or empty.
Six(hi, gap, lo, tail, zone) ==
    [kind |-> "v6", hi |-> hi, gap |-> gap, lo |-> lo, tail |-> tail, zone |-> zone]

NotAnAddress == [kind |-> "junk"]

Texts ==
    [kind : {"v4"}, octets : Seq(Nat), padded : BOOLEAN]
      \cup [kind : {"v6"}, hi : Seq(Nat), gap : BOOLEAN, lo : Seq(Nat), tail : Seq(Nat), zone : BOOLEAN]
      \cup {NotAnAddress}

None == <<>>
Zeros(n) == [i \in 1 .. n |-> 0]

OctetsOK(octets) == Len(octets) = 4 /\ \A i \in 1 .. 4 : octets[i] \in 0 .. 255

\* IPV4_RE, IPV6_BODY_RE: the quad is checked in full, the rest only for its
\* alphabet; a zone is cut off first.
IsIpShape(t) == \/ t.kind = "v4" /\ OctetsOK(t.octets) /\ ~t.padded
                \/ t.kind = "v6"

ParseIPv4(t) ==
    IF t.kind = "v4" /\ OctetsOK(t.octets) /\ ~t.padded THEN t.octets ELSE None

Hextets(octets) == << 256 * octets[1] + octets[2], 256 * octets[3] + octets[4] >>

\* cidr.ts's own parser: the groups written, the gap filled with zeros, and
\* eight groups in the end or nothing.
ParseIPv6(t) ==
    LET tail    == IF t.tail = None THEN None ELSE Hextets(t.tail)
        written == Len(t.hi) + Len(t.lo) + Len(tail)
    IN  IF \/ t.tail # None /\ ~OctetsOK(t.tail)
           \/ IF t.gap THEN written > 8 ELSE written # 8
        THEN None
        ELSE t.hi \o Zeros(8 - written) \o t.lo \o tail

\* The platform's isIP: a gap stands for one group at least.
IsIP(t) ==
    \/ t.kind = "v4" /\ ParseIPv4(t) # None
    \/ /\ t.kind = "v6" /\ ParseIPv6(t) # None
       /\ t.gap => Len(t.hi) + Len(t.lo) + (IF t.tail = None THEN 0 ELSE 2) < 8

\* private-ip.ts's parser.  It removes the quad and one colon before it looks
\* for "::", so a gap right before the quad is no longer one: what is left of
\* it is an empty group, which counts as a zero.
ExpandIPv6(t) ==
    LET tail   == IF t.tail = None THEN None ELSE Hextets(t.tail)
        closes == t.gap /\ t.lo = None /\ tail # None
        gap    == t.gap /\ ~closes
        head   == IF closes THEN (IF t.hi = None THEN Zeros(2) ELSE Append(t.hi, 0))
                            ELSE t.hi
        written == Len(head) + Len(t.lo) + Len(tail)
    IN  IF \/ t.tail # None /\ ~OctetsOK(t.tail)
           \/ IF gap THEN written > 8 ELSE written # 8
        THEN None
        ELSE head \o Zeros(8 - written) \o t.lo \o tail

\* Membership of a tuple of w-bit units in network/prefix: whole units first,
\* then the bits that are left.
InCidr(units, network, prefix, w) ==
    LET full == prefix \div w
        cut  == 2 ^ (w - (prefix % w))
    IN  /\ \A i \in 1 .. full : units[i] = network[i]
        /\ (prefix % w) # 0 => units[full + 1] \div cut = network[full + 1] \div cut

RFC6890_IPV4_RESERVED ==
    { << <<0,0,0,0>>, 8 >>, << <<10,0,0,0>>, 8 >>, << <<100,64,0,0>>, 10 >>,
      << <<127,0,0,0>>, 8 >>, << <<169,254,0,0>>, 16 >>, << <<172,16,0,0>>, 12 >>,
      << <<192,0,0,0>>, 24 >>, << <<192,0,2,0>>, 24 >>, << <<192,168,0,0>>, 16 >>,
      << <<198,18,0,0>>, 15 >>, << <<198,51,100,0>>, 24 >>, << <<203,0,113,0>>, 24 >>,
      << <<224,0,0,0>>, 4 >>, << <<240,0,0,0>>, 4 >>, << <<255,255,255,255>>, 32 >> }

Net6(prefix) == prefix \o Zeros(8 - Len(prefix))

\* 0x0100, 0x2001, 0x0db8, 0x2002, 0xfc00, 0xfe80 and 0xff00 in decimal.
RFC6890_IPV6_RESERVED ==
    { << <<0,0,0,0,0,0,0,1>>, 128 >>, << Zeros(8), 128 >>,
      << Net6(<<0,0,0,0,0,65535>>), 96 >>, << Zeros(8), 96 >>,
      << Net6(<<256>>), 64 >>, << Net6(<<8193>>), 23 >>, << Net6(<<8193>>), 32 >>,
      << Net6(<<8193, 2>>), 48 >>, << Net6(<<8193, 3512>>), 32 >>,
      << Net6(<<8194>>), 16 >>, << Net6(<<64512>>), 7 >>,
      << Net6(<<65152>>), 10 >>, << Net6(<<65280>>), 8 >> }

Reserved4(octets) == \E b \in RFC6890_IPV4_RESERVED : InCidr(octets, b[1], b[2], 8)
Reserved6(units) == \E b \in RFC6890_IPV6_RESERVED : InCidr(units, b[1], b[2], 16)

\* A text that does not parse is in no block.
IsReservedIp(t) ==
    \/ t.kind = "v4" /\ ParseIPv4(t) # None /\ Reserved4(ParseIPv4(t))
    \/ t.kind = "v6" /\ ParseIPv6(t) # None /\ Reserved6(ParseIPv6(t))

IsPrivateIPv4(t) ==
    \/ ~IsIpShape(t)
    \/ t.kind = "v6"
    \/ IsReservedIp(t)
    \/ t.octets[1] = 192 /\ t.octets[2] = 0

Mapped(units) == SubSeq(units, 1, 6) = <<0, 0, 0, 0, 0, 65535>>

EmbeddedQuad(units) ==
    Quad(<< units[7] \div 256, units[7] % 256, units[8] \div 256, units[8] % 256 >>, FALSE)

\* An address mapped from IPv4 is judged as the IPv4 address it carries.
IsPrivateIPv6(t) ==
    \/ ~IsIpShape(t)
    \/ LET units == ExpandIPv6(t)
       IN  \/ units = None
           \/ IF Mapped(units) THEN IsPrivateIPv4(EmbeddedQuad(units))
                               ELSE IsReservedIp(t)

IsPrivateAddress(t) == IF t.kind = "v6" THEN IsPrivateIPv6(t) ELSE IsPrivateIPv4(t)

Missing == [kind |-> "missing"]
=============================================================================
