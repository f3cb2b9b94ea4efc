---------------------------- MODULE ClientAddress ----------------------------
(***************************************************************************)
(* The address a request is answered under, throttled by and recorded      *)
(* with: trusted-proxy resolution, src/packages/platform/src/http.  A      *)
(* pure module; its promises are assumptions over bounded inputs.          *)
(*                                                                         *)
(* An address is a sequence of bytes of ByteBits bits, V4Bytes or V6Bytes  *)
(* long (8, 4 and 16 in the code).  A text is a dotted quad ("v4"), groups *)
(* of two bytes with an elision and a dotted tail ("v6"), "empty", or one  *)
(* no parser accepts ("garbage").                                          *)
(***************************************************************************)
EXTENDS Integers, Sequences

LOCAL INSTANCE SequencesExt
LOCAL INSTANCE FiniteSetsExt

CONSTANTS ByteBits, V4Bytes, V6Bytes

ASSUME AddressAssumption ==
  /\ {ByteBits, V4Bytes, V6Bytes} \subseteq Nat \ {0}
  /\ V4Bytes % 2 = 0 /\ V6Bytes % 2 = 0 /\ V4Bytes + 2 < V6Bytes

ByteRange == 0 .. 2 ^ ByteBits - 1

Unparsed == <<>>

Repeat(n, byte) == [i \in 1 .. n |-> byte]

-----------------------------------------------------------------------------
(* Texts                                                                   *)

NoText == [form |-> "garbage", left |-> <<>>, elided |-> FALSE, right |-> <<>>, dotted |-> <<>>]

Quad(octets) == [NoText EXCEPT !.form = "v4", !.dotted = octets]

Groups(left, elided, right, dotted) ==
  [form |-> "v6", left |-> left, elided |-> elided, right |-> right, dotted |-> dotted]

ParseIpv4(octets) ==
  IF Len(octets) = V4Bytes /\ \A i \in DOMAIN octets : octets[i] \in ByteRange
  THEN octets ELSE Unparsed

\* Two groups of a dotted tail hold its place until its bytes are set.
ParseIpv6(text) ==
  LET tail == Repeat(IF text.dotted = <<>> THEN 0 ELSE V4Bytes \div 2, 0)
      left == IF text.elided THEN text.left ELSE text.left \o tail
      right == IF text.elided THEN text.right \o tail ELSE <<>>
      fill == (V6Bytes \div 2) - Len(left) - Len(right)
      groups == left \o Repeat(fill, 0) \o right
      Byte(i) == IF i % 2 = 1 THEN groups[(i + 1) \div 2] \div 2 ^ ByteBits
                 ELSE groups[i \div 2] % 2 ^ ByteBits
      kept == V6Bytes - Len(text.dotted)
  IN IF \/ text.dotted # <<>> /\ ParseIpv4(text.dotted) = Unparsed
        \/ IF text.elided THEN fill < 1 ELSE fill # 0
     THEN Unparsed
     ELSE [i \in 1 .. kept |-> Byte(i)] \o text.dotted

MappedPrefix == Repeat(V6Bytes - V4Bytes - 2, 0) \o Repeat(2, 2 ^ ByteBits - 1)

IsV4Mapped(bytes) == Len(bytes) = V6Bytes /\ IsPrefix(MappedPrefix, bytes)

\* A mapped address is the IPv4 address it carries.
ParseIp(text) ==
  LET v6 == ParseIpv6(text)
  IN CASE text.form = "v4" -> ParseIpv4(text.dotted)
       [] text.form = "v6" -> IF IsV4Mapped(v6) THEN SubSeq(v6, V6Bytes - V4Bytes + 1, V6Bytes)
                              ELSE v6
       [] OTHER -> Unparsed

\* The text digests and rate-limit keys receive.
CanonicalIp(bytes) ==
  IF Len(bytes) = V4Bytes THEN Quad(bytes)
  ELSE Groups([g \in 1 .. V6Bytes \div 2 |-> bytes[2 * g - 1] * 2 ^ ByteBits + bytes[2 * g]],
              FALSE, <<>>, <<>>)

-----------------------------------------------------------------------------
(* The policy: blocks of addresses whose word is taken.                    *)

Cidr(bytes, prefix) == [bytes |-> bytes, prefix |-> prefix]

\* Whole bytes are compared and the rest of the next one under a mask.
CidrContains(cidr, bytes) ==
  LET full == cidr.prefix \div ByteBits
      remainder == cidr.prefix % ByteBits
      Masked(byte) == byte \div 2 ^ (ByteBits - remainder)
  IN /\ Len(cidr.bytes) = Len(bytes)
     /\ SubSeq(cidr.bytes, 1, full) = SubSeq(bytes, 1, full)
     /\ remainder # 0 => Masked(cidr.bytes[full + 1]) = Masked(bytes[full + 1])

\* An entry is an address and its prefix length, or <<>> without one.
ParsesEntry(entry) ==
  LET bytes == ParseIp(entry.address)
  IN bytes # Unparsed /\ (entry.prefix # <<>> => entry.prefix[1] \in 0 .. Len(bytes) * ByteBits)

CidrOf(entry) ==
  LET bytes == ParseIp(entry.address)
  IN Cidr(bytes, IF entry.prefix = <<>> THEN Len(bytes) * ByteBits ELSE entry.prefix[1])

\* One entry that does not parse and the process does not start.
TrustedProxyPolicy(entries) ==
  IF \A i \in DOMAIN entries : ParsesEntry(entries[i])
  THEN {CidrOf(entries[i]) : i \in DOMAIN entries} ELSE {}

IsTrustedProxy(policy, text) ==
  LET bytes == ParseIp(text)
  IN bytes # Unparsed /\ \E cidr \in policy : CidrContains(cidr, bytes)

\* The rightmost hop that is no trusted proxy, the leftmost where all are;
\* the socket's peer where it is not trusted or the chain breaks.
ResolveClientIp(policy, socket, forwarded) ==
  LET peer == ParseIp(socket)
      hops == SelectSeq(FlattenSeq(forwarded), LAMBDA hop : hop.form # "empty")
      Believed(i) == IsTrustedProxy(policy, CanonicalIp(ParseIp(hops[i])))
      stops == {i \in DOMAIN hops : ParseIp(hops[i]) = Unparsed \/ ~Believed(i)}
      hop == ParseIp(hops[Max(stops \cup {1})])
  IN IF \/ peer = Unparsed
        \/ ~IsTrustedProxy(policy, CanonicalIp(peer))
        \/ hops = <<>>
        \/ hop = Unparsed
     THEN [clientIp |-> peer, fromTrustedProxy |-> FALSE]
     ELSE [clientIp |-> hop, fromTrustedProxy |-> TRUE]

\* The address an identity request is throttled by, where there is one.
ClientContext(policy, socket, forwarded) ==
  LET resolved == ResolveClientIp(policy, socket, forwarded)
  IN IF resolved.clientIp = Unparsed THEN {} ELSE {CanonicalIp(resolved.clientIp)}

-----------------------------------------------------------------------------
(* What the resolution promises.                                           *)

V4Addresses == [1 .. V4Bytes -> ByteRange]

NumberOf(bytes) == FoldLeft(LAMBDA n, byte : n * 2 ^ ByteBits + byte, 0, bytes)

\* A block contains the addresses whose leading bits are its own, for every
\* prefix length, the ones inside a byte included (trusted-proxy.ts,
\* cidrContains).
ASSUME CidrIsPrefix ==
  \A a, b \in V4Addresses, prefix \in 0 .. V4Bytes * ByteBits :
    LET below == 2 ^ (V4Bytes * ByteBits - prefix)
    IN CidrContains(Cidr(a, prefix), b) <=> NumberOf(a) \div below = NumberOf(b) \div below

\* Every spelling of an address is one key: its canonical text is read back
\* as the same bytes, an elision is the zeros it stands for, and the mapped
\* form of an IPv4 address is that address (trusted-proxy.ts, parseIp).
ASSUME CanonicalIsStable ==
  /\ \A high, low \in {0, 1, 2 ^ ByteBits - 1}, at \in 1 .. V6Bytes \div 2 :
       LET group == high * 2 ^ ByteBits + low
           elided == Groups(<<group>>, TRUE, Repeat(at - 1, group), <<>>)
           bytes == ParseIp(elided)
       IN IF at = V6Bytes \div 2 THEN bytes = Unparsed
          ELSE ParseIp(CanonicalIp(bytes)) = bytes
  /\ \A octets \in V4Addresses :
       LET mapped == Groups(<<>>, TRUE, <<2 ^ (2 * ByteBits) - 1>>, octets)
       IN /\ ParseIp(mapped) = octets
          /\ ClientContext({}, mapped, <<>>) = ClientContext({}, Quad(octets), <<>>)

SampleProxies == TrustedProxyPolicy(<<[address |-> Quad(Repeat(V4Bytes, 1)), prefix |-> <<1>>],
                                      [address |-> Groups(<<>>, TRUE, <<1>>, <<>>), prefix |-> <<>>]>>)

SampleTexts == {NoText, [NoText EXCEPT !.form = "empty"], Groups(<<>>, TRUE, <<1>>, <<>>),
                Groups(<<1>>, TRUE, <<>>, <<>>)}
                 \cup {Quad(Repeat(V4Bytes, byte)) : byte \in {0, 2 ^ ByteBits - 1, 2 ^ ByteBits}}

SampleHops == UNION {[1 .. n -> SampleTexts] : n \in 0 .. 2}

\* An address taken from the header was named by a chain of trusted proxies
\* that ends at the peer; and nothing a caller writes to the left of the
\* first address they do not vouch for changes who it is (trusted-proxy.ts,
\* "attacker-writable and ignored"; backend.md section 10).
ASSUME ForwardedIsVouchedFor ==
  \A socket, extra \in SampleTexts, hops \in SampleHops :
    LET resolved == ResolveClientIp(SampleProxies, socket, <<hops>>)
        Trusted(text) == IsTrustedProxy(SampleProxies, text)
        named == {i \in DOMAIN hops : ParseIp(hops[i]) = resolved.clientIp}
    IN /\ resolved.fromTrustedProxy =>
            /\ Trusted(socket)
            /\ \E i \in named : \A j \in i + 1 .. Len(hops) :
                 Trusted(hops[j]) \/ hops[j].form = "empty"
       /\ (\E i \in DOMAIN hops : ~Trusted(hops[i]) /\ hops[i].form # "empty") =>
            ResolveClientIp(SampleProxies, socket, <<<<extra>>, hops>>) = resolved
=============================================================================
