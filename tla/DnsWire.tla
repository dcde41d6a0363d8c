------------------------------ MODULE DnsWire ------------------------------
(***************************************************************************)
(* The messages between resolve and the nameserver, octet by octet         *)
(* (src/dns_lib.c): a name becomes a query, the query is parsed, its name  *)
(* recovered and put in a reply with an address, and the reply parsed.     *)
(*                                                                         *)
(* A message is the sequence of its octets in a buffer that is zero after  *)
(* them; a name is a sequence of characters, and an address the four       *)
(* octets of an in_addr as they lie in memory.                             *)
(***************************************************************************)
EXTENDS Integers, Sequences

CONSTANTS
  Names,     \* the names that are looked up
  Ips,       \* the addresses the nameserver gives
  Ids        \* values of msg_id a lookup starts from: bounds their number

Char    == 1 .. 127
Octet   == 0 .. 255
Word    == 0 .. 65535          \* uint16_t
Address == [1 .. 4 -> Octet]

ASSUME DnsWireAssumption ==
  /\ Names \subseteq Seq(Char)
  /\ Ips \subseteq Address \ {<<0, 0, 0, 0>>}
  /\ Ids \subseteq Word

VARIABLES
  stage,     \* idle, asking, answered, or exited on an assertion
  msg_id,    \* static in make_dns_query
  node,      \* the name being looked up
  ip,        \* the address the nameserver has picked
  query,     \* the datagram to the nameserver
  reply,     \* the datagram back
  sin_addr   \* the address resolve returns

vars == <<stage, msg_id, node, ip, query, reply, sin_addr>>

DOT  == 46
QR   == 32768     \* 0x01 << 15
AA   == 1024      \* 0x01 << 10
C00C == 49164     \* a pointer to offset 12, where the name is

\* msg_id += 1.
NextId(id) == (id + 1) % 65536

\* Mutation: the low octet is not cut off from the rest.
OctetsWide(v) == <<v \div 256, v>>

\* htons and ntohs.
Octets(v)     == <<v \div 256, v % 256>>
Value(hi, lo) == 256 * hi + lo

-----------------------------------------------------------------------------
\* Writing.

\* strchr(p1, '.'), or the end of the name.
LabelEnd(name, p1) ==
  CHOOSE p2 \in p1 .. Len(name) + 1 :
    /\ p2 = Len(name) + 1 \/ name[p2] = DOT
    /\ \A k \in p1 .. p2 - 1 : name[k] # DOT

\* Where the labels of a name begin: in front, and behind each dot.
LabelStarts(name) == {1} \cup {k + 1 : k \in {k \in DOMAIN name : name[k] = DOT}}

\* uint8_t len, of the label that begins at p1.
Len8(name, p1) == (LabelEnd(name, p1) - p1) % 256

\* The assertions of make_question.
LabelsFit(name) == \A p1 \in LabelStarts(name) : Len8(name, p1) <= 63

\* No label is empty, which would end the name for its reader, or longer than
\* its length octet can tell: the proxy's name is video.cs.cmu.edu.
ASSUME NamesAssumption ==
  \A name \in Names : \A p1 \in LabelStarts(name) : LabelEnd(name, p1) - p1 \in Octet \ {0}

\* The labels from each place of the name on, each after its length.
Labels(name) ==
  LET from[p1 \in 1 .. Len(name) + 1] ==
        LET p2 == LabelEnd(name, p1)
        IN  <<Len8(name, p1)>> \o SubSeq(name, p1, p1 + Len8(name, p1) - 1)
              \o IF p2 <= Len(name) THEN from[p2 + 1] ELSE <<>>
  IN  from

make_head(id, flags, ancount) ==
  Octets(id) \o Octets(flags) \o Octets(1) \o Octets(ancount) \o Octets(0) \o Octets(0)

QTYPE  == 1
QCLASS == 1

\* Mutation: the name is not ended.
QNameOpen(name) == Labels(name)[1]

\* The labels, and a zero at the end.
QName(name) == Append(Labels(name)[1], 0)

make_question(name) == QName(name) \o Octets(QTYPE) \o Octets(QCLASS)

\* Mutation: the TTL is written as two octets.
make_answer_ttl(rdata) ==
  Octets(C00C) \o Octets(1) \o Octets(1) \o Octets(0)
    \o Octets(Len(rdata)) \o rdata

\* rdata is <<>> in a query: its length is 0 and nothing follows it.
make_answer(rdata) ==
  Octets(C00C) \o Octets(1) \o Octets(1) \o Octets(0) \o Octets(0)
    \o Octets(Len(rdata)) \o rdata

make_dns_query(id, name) ==
  make_head(id, 0, 0) \o make_question(name) \o make_answer(<<>>)

-----------------------------------------------------------------------------
\* Reading.

At(dns, i) == IF i < Len(dns) THEN dns[i + 1] ELSE 0
Read2(dns, i) == Value(At(dns, i), At(dns, i + 1))

\* strchr(dns+12, '\0').
NameEnd(dns) == CHOOSE i \in 12 .. Len(dns) :
                  At(dns, i) = 0 /\ \A j \in 12 .. i - 1 : At(dns, j) # 0

\* The fields of struct dns_t that anything depends on.
parse_dns(dns) ==
  LET p == NameEnd(dns) + 1
  IN  [ msg_id   |-> Read2(dns, 0),
        QR       |-> Read2(dns, 2) \div QR,
        ANCOUNT  |-> Read2(dns, 6),
        QNAME    |-> SubSeq(dns, 13, p - 1),
        QTYPE    |-> Read2(dns, p),
        QCLASS   |-> Read2(dns, p + 2),
        NAME     |-> Read2(dns, p + 4),
        TYPE     |-> Read2(dns, p + 6),
        CLASS    |-> Read2(dns, p + 8),
        RDLENGTH |-> Read2(dns, p + 14),
        RDATA    |-> IF Read2(dns, p + 14) = 0 THEN <<0, 0, 0, 0>>
                     ELSE [k \in 1 .. 4 |-> At(dns, p + 15 + k)] ]

\* The loop of recover_node, whose two offsets are both q, from each of them on:
\* a dot takes the place of each length.
Dotted(QNAME) ==
  LET from[q \in 0 .. Len(QNAME) - 1] ==
        LET next == q + 1 + QNAME[q + 1]
        IN  <<DOT>> \o SubSeq(QNAME, q + 2, next)
              \o IF next < Len(QNAME) - 1 THEN from[next] ELSE <<>>
  IN  from

\* Mutation: the length of what is kept is off by one.
recover_node_cut(QNAME) == SubSeq(Dotted(QNAME)[0], 2, Len(QNAME) - 1)

\* The first dot is cut off.
recover_node(QNAME) == SubSeq(Dotted(QNAME)[0], 2, Len(QNAME))

\* The question is made anew from the name recovered.
make_dns_reply(q, rdata) ==
  make_head(q.msg_id, QR + AA, 1) \o make_question(recover_node(q.QNAME))
    \o make_answer(rdata)

-----------------------------------------------------------------------------
Init ==
  /\ stage = "idle"
  /\ msg_id \in Ids
  /\ node = <<>> /\ ip = <<>> /\ query = <<>> /\ reply = <<>> /\ sin_addr = <<>>

\* make_dns_query.
MakeQuery ==
  /\ stage = "idle" /\ msg_id \in Ids
  /\ \E name \in Names :
       /\ LabelsFit(name)
       /\ node' = name
       /\ query' = make_dns_query(NextId(msg_id), name)
  /\ msg_id' = NextId(msg_id)
  /\ stage' = "asking"
  /\ UNCHANGED <<ip, reply, sin_addr>>

\* A label is too long for its length octet.
MakeQueryAborts ==
  /\ stage = "idle" /\ msg_id \in Ids
  /\ \E name \in Names : ~LabelsFit(name) /\ node' = name
  /\ msg_id' = NextId(msg_id)
  /\ stage' = "exited"
  /\ UNCHANGED <<ip, query, reply, sin_addr>>

\* The nameserver: parse_dns and cnd_rr.
MakeReply ==
  /\ stage = "asking"
  /\ \E a \in Ips :
       /\ ip' = a
       /\ reply' = make_dns_reply(parse_dns(query), a)
  /\ stage' = "answered"
  /\ UNCHANGED <<msg_id, node, query, sin_addr>>

\* parse_dns_reply.
ParseReply ==
  /\ stage = "answered"
  /\ sin_addr' = parse_dns(reply).RDATA
  /\ stage' = IF sin_addr' = <<0, 0, 0, 0>> THEN "exited" ELSE "idle"
  /\ UNCHANGED <<msg_id, node, ip, query, reply>>

Next == MakeQuery \/ MakeQueryAborts \/ MakeReply \/ ParseReply

Spec == Init /\ [][Next]_vars

-----------------------------------------------------------------------------
TypeOK ==
  /\ stage \in {"idle", "asking", "answered", "exited"}
  /\ msg_id \in Word
  /\ node \in Names \cup {<<>>}
  /\ ip \in Ips \cup {<<>>}
  /\ query \in Seq(Octet)
  /\ reply \in Seq(Octet)
  /\ sin_addr \in Address \cup {<<>>}

\* What parse_dns finds in a query is what make_dns_query put there, behind a
\* name of any length: the fields after QNAME are where strchr says.
QueryParses ==
  stage \in {"asking", "answered"} =>
    LET q == parse_dns(query)
    IN  /\ q.msg_id = msg_id /\ q.QR = 0 /\ q.ANCOUNT = 0
        /\ q.QTYPE = QTYPE /\ q.QCLASS = QCLASS
        /\ q.NAME = C00C /\ q.TYPE = 1 /\ q.CLASS = 1
        /\ q.RDLENGTH = 0

\* The nameserver answers the question it was asked: the number and the octets
\* of the question in the reply are those of the query, although the name is
\* recovered from its labels and encoded again.
QuestionEchoed ==
  stage = "answered" =>
    /\ SubSeq(reply, 1, 2) = SubSeq(query, 1, 2)
    /\ SubSeq(reply, 13, Len(query) - 12) = SubSeq(query, 13, Len(query) - 12)
    /\ recover_node(parse_dns(query).QNAME) = node

\* resolve returns the address the nameserver picked, and no assertion on the
\* reply ends it.
AddressArrives ==
  /\ stage = "idle" /\ sin_addr # <<>> => sin_addr = ip
  /\ stage = "exited" => ~LabelsFit(node)
=============================================================================
