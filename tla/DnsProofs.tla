----------------------------- MODULE DnsProofs -----------------------------
(***************************************************************************)
(* Proofs about the nameserver and its clients (src/nameserver.c,          *)
(* src/mydns.c): for any number of lookups, any file of servers and        *)
(* whatever the network does to the datagrams.                             *)
(***************************************************************************)
EXTENDS DnsSystem, FiniteSetTheorems, SequenceTheorems, TLAPS

Octet(k) == ReadOctet(file[k])

\* The line of the file the i-th node of the list was made from: push_server
\* puts a server right behind the first node.
LineOf(i) == IF i = 1 THEN 1 ELSE lines + 2 - i

\* The list has one node for every line read so far, or an empty one.
InvList ==
  /\ file \in Seq([octet : 1 .. 255, newline : BOOLEAN])
  /\ lines \in 0 .. Len(file)
  /\ serverlist \in Seq(Ips)
  /\ Len(serverlist) = IF lines = 0 THEN 1 ELSE lines
  /\ lines = 0 => serverlist[1] = 0
  /\ \A i \in 1 .. lines : serverlist[i] = Octet(LineOf(i)) /\ serverlist[i] # 0

(***************************************************************************)
(* The list of servers.                                                    *)
(***************************************************************************)

LEMMA OctetType ==
  ASSUME InvList, NEW k \in 1 .. Len(file)
  PROVE  /\ Octet(k) \in Ips
         /\ file[k].octet \in 1 .. 255
         /\ ~TruncatedFile => Octet(k) = file[k].octet
<1> DEFINE LineSet == [octet : 1 .. 255, newline : BOOLEAN]
<1>1. file[k] \in LineSet
  <2>1. file \in Seq(LineSet)
    BY DEF InvList
  <2> HIDE DEF LineSet
  <2> QED
    BY <2>1
<1>2. \A n \in 1 .. 255 : n \div 10 \in 0 .. 255
  BY SMTT(30)
<1>3. ~TruncatedFile => file[k].newline
  BY DEF TruncatedFile, InvList
<1>4. file[k].octet \in 1 .. 255
  BY <1>1
<1>5. file[k].octet \div 10 \in 0 .. 255
  BY <1>2, <1>4
<1>6. file[k].octet \in 0 .. 255
  BY <1>4
<1>7. Octet(k) = file[k].octet \/ Octet(k) = file[k].octet \div 10
  BY DEF Octet, ReadOctet
<1>8. file[k].newline => Octet(k) = file[k].octet
  BY DEF Octet, ReadOctet
<1> QED
  BY <1>3, <1>4, <1>5, <1>6, <1>7, <1>8 DEF Ips

LEMMA LineNumber ==
  ASSUME NEW n, NEW m \in Nat, n \in 0 .. m, NEW i \in 1 .. n
  PROVE  (IF i = 1 THEN 1 ELSE n + 2 - i) \in 1 .. m
<1>1. n \in Nat /\ n <= m
  OBVIOUS
<1> QED
  BY <1>1

\* What push_server makes of a list.
LEMMA PushServerList ==
  ASSUME NEW list \in Seq(Ips), Len(list) >= 1, NEW ip \in Ips
  PROVE  /\ PushServer(list, ip) \in Seq(Ips)
         /\ list[1] = 0 => PushServer(list, ip) = <<ip>>
         /\ list[1] # 0 =>
              /\ Len(PushServer(list, ip)) = Len(list) + 1
              /\ PushServer(list, ip)[1] = list[1]
              /\ PushServer(list, ip)[2] = ip
              /\ \A i \in 3 .. Len(list) + 1 : PushServer(list, ip)[i] = list[i - 1]
<1>1. list[1] \in Ips /\ <<list[1], ip>> \in Seq(Ips) /\ Tail(list) \in Seq(Ips)
  OBVIOUS
<1>2. Len(Tail(list)) = Len(list) - 1 /\ \A i \in 1 .. Len(list) - 1 : Tail(list)[i] = list[i + 1]
  OBVIOUS
<1>3. CASE list[1] = 0
  BY <1>3 DEF PushServer
<1>4. CASE list[1] # 0
  <2> DEFINE s == <<list[1], ip>>
             t == Tail(list)
  <2>1. PushServer(list, ip) = s \o t
    BY <1>4 DEF PushServer
  <2>2. /\ Len(s) = 2 /\ s[1] = list[1] /\ s[2] = ip /\ s \in Seq(Ips)
    BY <1>1
  <2> HIDE DEF s
  <2>3. /\ s \o t \in Seq(Ips) /\ Len(s \o t) = 2 + Len(t)
        /\ \A i \in 1 .. 2 + Len(t) : (s \o t)[i] = IF i <= 2 THEN s[i] ELSE t[i - 2]
    <3>1. t \in Seq(Ips)
      BY <1>1
    <3> HIDE DEF t
    <3>2. s \in Seq(Ips) /\ Len(s) = 2
      BY <2>2
    <3>3. /\ s \o t \in Seq(Ips) /\ Len(s \o t) = Len(s) + Len(t)
          /\ \A i \in 1 .. Len(s) + Len(t) :
               (s \o t)[i] = IF i <= Len(s) THEN s[i] ELSE t[i - Len(s)]
      BY <3>1, <3>2, ConcatProperties, Zenon
    <3> QED
      BY <3>2, <3>3
  <2>4. ASSUME NEW i \in 3 .. Len(list) + 1 PROVE (s \o t)[i] = list[i - 1]
    <3>1. i \in 1 .. 2 + Len(t) /\ i - 2 \in 1 .. Len(list) - 1 /\ ~(i <= 2)
      BY <1>2
    <3> HIDE DEF t
    <3>2. (s \o t)[i] = t[i - 2] /\ t[i - 2] = list[(i - 2) + 1]
      BY <1>2, <2>3, <3>1 DEF t
    <3> QED
      BY <3>1, <3>2
  <2> QED
    BY <1>2, <1>4, <2>1, <2>2, <2>3, <2>4
<1> QED
  BY <1>3, <1>4

LEMMA ReadLineKeepsList == ASSUME InvList, ReadLine PROVE InvList'
<1>1. /\ lines < Len(file) /\ NextOctet # 0 /\ lines' = lines + 1
      /\ UNCHANGED file
      /\ serverlist' = PushServer(serverlist, NextOctet)
  BY DEF ReadLine, Reading
<1>2. NextOctet = Octet(lines + 1) /\ NextOctet \in Ips
  BY <1>1, OctetType DEF NextOctet, Octet, InvList
<1>3. lines \in Nat /\ Len(file) \in Nat /\ serverlist \in Seq(Ips) /\ Len(serverlist) >= 1
  BY DEF InvList
<1>4. CASE lines = 0
  <2>1. serverlist' = <<NextOctet>>
    BY <1>1, <1>2, <1>3, <1>4, PushServerList DEF InvList
  <2>2. /\ serverlist' \in Seq(Ips) /\ Len(serverlist') = 1
        /\ serverlist'[1] = NextOctet
    BY <1>2, <2>1
  <2>3. Octet(1)' = NextOctet /\ lines' = 1 /\ LineOf(1)' = 1
    BY <1>1, <1>4 DEF Octet, NextOctet, LineOf
  <2>4. ASSUME NEW i \in 1 .. 1
        PROVE  serverlist'[i] = Octet(LineOf(i)') /\ serverlist'[i] # 0
    BY <1>1, <1>2, <1>4, <2>2 DEF LineOf
  <2>5. \A k : Octet(k)' = Octet(k)
    BY <1>1 DEF Octet
  <2> QED
    BY <1>1, <1>3, <1>4, <2>2, <2>3, <2>4, <2>5 DEF InvList
<1>5. CASE lines # 0
  <2>1. serverlist[1] # 0 /\ serverlist[1] = Octet(1) /\ Len(serverlist) = lines
    BY <1>3, <1>5 DEF InvList, LineOf
  <2>2. /\ serverlist' \in Seq(Ips) /\ Len(serverlist') = lines + 1
        /\ serverlist'[1] = serverlist[1] /\ serverlist'[2] = NextOctet
        /\ \A i \in 3 .. lines + 1 : serverlist'[i] = serverlist[i - 1]
    BY <1>1, <1>2, <1>3, <2>1, PushServerList
  <2>3. ASSUME NEW i \in 1 .. lines + 1
        PROVE  serverlist'[i] = Octet(LineOf(i)') /\ serverlist'[i] # 0
    <3>1. CASE i = 1
      BY <1>1, <2>1, <2>2, <3>1 DEF LineOf
    <3>2. CASE i = 2
      BY <1>1, <1>2, <1>3, <2>2, <3>2 DEF LineOf
    <3>3. CASE i \in 3 .. lines + 1
      <4>1. i - 1 \in 1 .. lines /\ i - 1 # 1
        BY <1>3, <3>3
      <4>2. serverlist[i - 1] = Octet(LineOf(i - 1)) /\ serverlist[i - 1] # 0
        BY <4>1 DEF InvList
      <4>3. LineOf(i - 1) = LineOf(i)'
        BY <1>1, <1>3, <3>3, <4>1 DEF LineOf
      <4> QED
        BY <2>2, <3>3, <4>2, <4>3
    <3> QED
      BY <1>3, <3>1, <3>2, <3>3
  <2>4. \A k : Octet(k)' = Octet(k)
    BY <1>1 DEF Octet
  <2> QED
    BY <1>1, <1>3, <2>2, <2>3, <2>4 DEF InvList
<1> QED
  BY <1>4, <1>5

LEMMA NextKeepsList == ASSUME InvList, [Next]_vars PROVE InvList'
<1>1. CASE UNCHANGED <<file, lines, serverlist>>
  BY <1>1 DEF InvList, LineOf, Octet
<1>2. CASE ReadLine
  BY <1>2, ReadLineKeepsList
<1> QED
  BY <1>1, <1>2
  DEF Next, Start_, Start, ReadFails, Bind, StartFails, Exit, Ask_, Return_, Serve_, Net_,
      Serve, ServeAborts, ServeMisaddressed, TooEarly, vars, server, startup

(***************************************************************************)
(* Types.                                                                  *)
(***************************************************************************)

\* The addresses the nameserver may answer with.
Answerable == {Octet(k) : k \in DOMAIN file}

\* A call has at most its own query and the copies of it in flight; it has no
\* address before it returns; nothing is answered before the port is bound.
InvType ==
  /\ TypeOK
  /\ \A c \in Calls : queries[c] <= copies[c] + (IF call[c] = "idle" THEN 0 ELSE 1)
  /\ \A c \in Calls : call[c] # "returned" => addr[c] = NoAddr
  /\ given \in [Answerable -> Nat]
  /\ ~(bound /\ round_robin) => picked = 1 /\ \A ip \in Answerable : given[ip] = 0
  /\ bound /\ round_robin => lines = Len(file)

LEMMA AnswerableType == ASSUME InvList PROVE Answerable \subseteq Ips
<1>1. DOMAIN file = 1 .. Len(file)
  BY DEF InvList
<1> QED
  BY <1>1, OctetType DEF Answerable

\* The node an answer is taken from was made from a line of the file.
LEMMA PickedIsServer ==
  ASSUME InvList, InvType, serverlist[picked] # 0
  PROVE  /\ lines > 0 /\ picked \in 1 .. lines /\ Len(serverlist) = lines
         /\ serverlist[picked] \in Answerable
         /\ serverlist[picked] \in Ips \ {0}
<1>1. lines \in 0 .. Len(file) /\ DOMAIN file = 1 .. Len(file) /\ Len(file) \in Nat
  BY DEF InvList
<1>2. picked \in 1 .. Len(serverlist) /\ serverlist \in Seq(Ips)
  BY DEF InvType, TypeOK, InvList
<1>3. lines # 0
  BY <1>2 DEF InvList
<1>4. picked \in 1 .. lines /\ Len(serverlist) = lines
  BY <1>2, <1>3 DEF InvList
<1>5. serverlist[picked] = Octet(LineOf(picked))
  BY <1>4 DEF InvList
<1>6. LineOf(picked) \in 1 .. Len(file)
  BY <1>1, <1>3, <1>4 DEF LineOf
<1> QED
  BY <1>1, <1>2, <1>3, <1>4, <1>5, <1>6 DEF Answerable

\* What an answer does to the list's position and to the history.
Turn ==
  /\ bound /\ round_robin /\ serverlist[picked] # 0
  /\ given' = [given EXCEPT ![serverlist[picked]] = @ + 1]
  /\ picked' = NextPick(picked)
  /\ UNCHANGED <<startup, serverlist>>

LEMMA TurnType ==
  ASSUME InvList, InvType, Turn
  PROVE  /\ given' \in [Answerable -> Nat] /\ picked' \in 1 .. Len(serverlist)
         /\ Answerable' = Answerable
<1>1. Answerable' = Answerable
  BY DEF Answerable, Octet, Turn, startup
<1>2. picked' \in 1 .. Len(serverlist)
  BY PickedIsServer DEF Turn, NextPick
<1> QED
  BY <1>1, <1>2, PickedIsServer DEF Turn, InvType

LEMMA NetKeepsType ==
  ASSUME InvList, InvType, NEW c \in Calls, Net_(c) \/ Ask_(c) \/ Return_(c)
  PROVE  InvType'
<1>1. TypeOK /\ UNCHANGED server /\ MaxCopies \in Nat
  BY DatagramsAssumption DEF InvType, Net_, Ask_, Return_
<1>2. UNCHANGED Answerable
  BY <1>1 DEF Answerable, Octet, server, startup
<1>3. /\ queries' \in [Calls -> Nat]
      /\ copies' \in [Calls -> 0 .. MaxCopies]
      /\ \A d \in Calls : queries'[d] <= copies'[d] + (IF call'[d] = "idle" THEN 0 ELSE 1)
  <2>1. /\ queries \in [Calls -> Nat] /\ copies \in [Calls -> 0 .. MaxCopies]
        /\ call \in [Calls -> {"idle", "waiting", "returned", "exited"}]
        /\ \A d \in Calls : queries[d] <= copies[d] + (IF call[d] = "idle" THEN 0 ELSE 1)
    BY <1>1 DEF InvType, TypeOK
  <2>2. CASE TakeQuery(c) /\ UNCHANGED <<copies, call>>
    BY <1>1, <2>1, <2>2 DEF TakeQuery
  <2>3. CASE Duplicate(c) /\ UNCHANGED call
    BY <1>1, <2>1, <2>3 DEF Duplicate, SendQuery
  <2>4. CASE Ask(c)
    BY <1>1, <2>1, <2>4 DEF Ask, SendQuery
  <2>5. CASE Fails(c) \/ Return(c)
    BY <1>1, <2>1, <2>5 DEF Fails, Return, net
  <2>6. CASE UNCHANGED <<queries, copies, call>>
    BY <2>1, <2>6
  <2> QED
    BY <2>2, <2>3, <2>4, <2>5, <2>6
    DEF Net_, Lose, TooEarly, Ask_, Return_, resolver
<1>4. queries' \in [Calls -> 0 .. MaxCopies + 1]
  <2>1. \A d \in Calls : queries'[d] \in 0 .. MaxCopies + 1
    BY <1>1, <1>3
  <2> QED
    BY <1>3, <2>1
<1>5. /\ replies' \in [Calls -> SUBSET (Ips \ {0})]
      /\ lossy' \subseteq Calls
  <2>1. replies \in [Calls -> SUBSET (Ips \ {0})] /\ lossy \subseteq Calls
    BY <1>1 DEF TypeOK
  <2>2. \/ UNCHANGED replies
        \/ \E ip \in replies[c] : replies' = [replies EXCEPT ![c] = @ \ {ip}]
    BY DEF Net_, Lose, Duplicate, TooEarly, TakeReply, Ask_, Ask, Fails, net, Return_, Return
  <2>3. UNCHANGED lossy \/ lossy' = lossy \cup {c}
    BY DEF Net_, Lose, Duplicate, TooEarly, Ask_, Ask, Fails, net, Return_, Return
  <2>4. replies' \in [Calls -> SUBSET (Ips \ {0})]
    BY <2>1, <2>2
  <2> QED
    BY <2>1, <2>3, <2>4
<1>6. /\ call' \in [Calls -> {"idle", "waiting", "returned", "exited"}]
      /\ addr' \in [Calls -> Ips \cup {NoAddr}]
      /\ \A d \in Calls : call'[d] # "returned" => addr'[d] = NoAddr
  <2>1. CASE Net_(c)
    BY <1>1, <2>1 DEF InvType, TypeOK, Net_, resolver
  <2>2. CASE Ask_(c)
    BY <1>1, <2>2 DEF InvType, TypeOK, Ask_, Ask, Fails
  <2>3. CASE Return_(c)
    <3>1. PICK ip \in replies[c] : addr' = [addr EXCEPT ![c] = ip]
      BY <2>3 DEF Return_, Return
    <3>2. ip \in Ips
      BY <1>1 DEF TypeOK
    <3> QED
      BY <1>1, <2>3, <3>1, <3>2 DEF InvType, TypeOK, Return_, Return
  <2> QED
    BY <2>1, <2>2, <2>3
<1> QED
  BY <1>1, <1>2, <1>3, <1>4, <1>5, <1>6 DEF InvType, TypeOK, server, startup

LEMMA ServeKeepsType ==
  ASSUME InvList, InvType, NEW c \in Calls, Serve_(c)
  PROVE  InvType'
<1>1. TypeOK /\ UNCHANGED <<call, addr, copies, startup, serverlist>> /\ MaxCopies \in Nat
  BY DatagramsAssumption
  DEF InvType, Serve_, Serve, ServeAborts, ServeMisaddressed, resolver, Exit
<1>2. UNCHANGED Answerable
  BY <1>1 DEF Answerable, Octet, startup
<1>3. queries' = [queries EXCEPT ![c] = @ - 1] /\ queries[c] > 0
  BY DEF Serve_, Serve, ServeAborts, ServeMisaddressed, TakeQuery
<1>4. /\ queries' \in [Calls -> 0 .. MaxCopies + 1]
      /\ \A d \in Calls : queries'[d] <= copies'[d] + (IF call'[d] = "idle" THEN 0 ELSE 1)
  BY <1>1, <1>3 DEF InvType, TypeOK
<1>5. /\ replies' \in [Calls -> SUBSET (Ips \ {0})]
      /\ lossy' \subseteq Calls
  <2>1. replies \in [Calls -> SUBSET (Ips \ {0})] /\ lossy \subseteq Calls
    BY <1>1 DEF TypeOK
  <2>2. CASE Serve(c)
    <3>1. /\ replies' = [replies EXCEPT ![c] = @ \cup {serverlist[picked]}]
          /\ UNCHANGED lossy /\ serverlist[picked] # 0
      BY <2>2 DEF Serve, Answer, SendReply
    <3>2. serverlist[picked] \in Ips \ {0}
      BY <3>1, PickedIsServer
    <3> QED
      BY <2>1, <3>1, <3>2
  <2>3. CASE ServeAborts(c) \/ ServeMisaddressed(c)
    BY <2>1, <2>3 DEF ServeAborts, ServeMisaddressed
  <2> QED
    BY <2>2, <2>3 DEF Serve_
<1>6. up' \in BOOLEAN
  BY <1>1 DEF TypeOK, Serve_, Serve, ServeAborts, ServeMisaddressed, Exit
<1>7. Turn \/ UNCHANGED <<given, picked>>
  BY DEF Serve_, Serve, ServeAborts, ServeMisaddressed, Exit, Turn
<1>8. given' \in [Answerable -> Nat] /\ picked' \in 1 .. Len(serverlist)
  BY <1>1, <1>7, TurnType DEF InvType, TypeOK
<1>9. ~(bound /\ round_robin) => UNCHANGED <<given, picked>>
  BY <1>7 DEF Turn
<1>10. UNCHANGED <<file, round_robin, lines, bound>>
  BY <1>1 DEF startup
<1>11. DOMAIN given' \subseteq Ips /\ \A ip \in DOMAIN given' : given'[ip] \in Nat
  BY <1>8, AnswerableType
<1>12. misaddressed' \subseteq Calls
  BY <1>1 DEF TypeOK, Serve_, Serve, ServeAborts, ServeMisaddressed, Exit
<1> QED
  BY <1>1, <1>2, <1>4, <1>5, <1>6, <1>8, <1>9, <1>10, <1>11, <1>12 DEF InvType, TypeOK

LEMMA StartKeepsType == ASSUME InvList, InvList', InvType, Start_ PROVE InvType'
<1>1. TypeOK /\ UNCHANGED <<net, resolver, file, round_robin, picked, given>>
  BY DEF InvType, Start_, Start, ReadLine, ReadFails, Bind, StartFails, Exit, startup
<1>2. UNCHANGED Answerable
  BY <1>1 DEF Answerable, Octet
<1>3. /\ ~bound
      /\ lines' \in 0 .. Len(file)
      /\ Len(serverlist') >= Len(serverlist)
      /\ bound' \in BOOLEAN /\ up' \in BOOLEAN
      /\ bound' /\ round_robin => lines' = Len(file)
  <2>1. Len(file) \in Nat /\ lines \in 0 .. Len(file)
    BY DEF InvList
  <2>2. CASE ReadLine
    BY <1>1, <2>1, <2>2 DEF InvList, InvType, TypeOK, ReadLine, Reading
  <2>3. CASE ReadFails \/ StartFails
    <3>1. UNCHANGED <<serverlist, lines, bound>> /\ ~bound /\ up' = FALSE
      BY <2>3 DEF ReadFails, Reading, StartFails, Exit, startup
    <3>2. Len(serverlist) \in Nat /\ bound \in BOOLEAN
      BY <1>1 DEF InvList, TypeOK
    <3>3. bound' = FALSE
      BY <3>1, <3>2
    <3>4. Len(serverlist') = Len(serverlist) /\ lines' = lines
      BY <3>1
    <3>5. lines' \in 0 .. Len(file) /\ Len(serverlist') >= Len(serverlist)
      BY <2>1, <3>2, <3>4
    <3>6. /\ ~bound /\ bound' \in BOOLEAN /\ up' \in BOOLEAN
          /\ bound' /\ round_robin => lines' = Len(file)
      BY <3>1, <3>3, Zenon
    <3> QED
      BY <3>5, <3>6
  <2>4. CASE Bind
    BY <1>1, <2>1, <2>4 DEF InvList, InvType, TypeOK, Bind
  <2> QED
    BY <2>2, <2>3, <2>4 DEF Start_, Start
<1>4. picked' \in 1 .. Len(serverlist')
  <2>1. picked \in 1 .. Len(serverlist) /\ Len(serverlist') \in Nat
    BY <1>1 DEF TypeOK, InvList
  <2> QED
    BY <1>1, <1>3, <2>1
<1>5. UNCHANGED misaddressed
  BY DEF Start_, Start, ReadLine, ReadFails, Bind, StartFails, Exit
<1> QED
  BY <1>1, <1>2, <1>3, <1>4, <1>5 DEF InvType, TypeOK, net, resolver

LEMMA NextKeepsType == ASSUME InvList, InvList', InvType, [Next]_vars PROVE InvType'
<1>1. CASE UNCHANGED vars
  BY <1>1 DEF vars, net, resolver, server, startup, InvType, TypeOK, Answerable, Octet
<1> QED
  BY <1>1, NetKeepsType, ServeKeepsType, StartKeepsType DEF Next

(***************************************************************************)
(* The round.                                                              *)
(***************************************************************************)

\* The servers before picked_server have been answered with once more than
\* those from it on.
Round(q) ==
  \A i \in 1 .. Len(serverlist) :
    given[serverlist[i]] = IF i < picked THEN q + 1 ELSE q

InvRound ==
  ~TruncatedFile /\ NamedOnce /\ lines > 0 => \E q \in Nat : Round(q)

\* Every server of such a file has a node of its own.
LEMMA NodesDiffer ==
  ASSUME InvList, ~TruncatedFile, NamedOnce,
         NEW i \in 1 .. lines, NEW j \in 1 .. lines, serverlist[i] = serverlist[j]
  PROVE  i = j
<1>1. lines \in 0 .. Len(file) /\ DOMAIN file = 1 .. Len(file) /\ Len(file) \in Nat
  BY DEF InvList
<1>2. LineOf(i) \in 1 .. Len(file) /\ LineOf(j) \in 1 .. Len(file)
  BY <1>1 DEF LineOf
<1>3. serverlist[i] = Octet(LineOf(i)) /\ serverlist[j] = Octet(LineOf(j))
  BY DEF InvList
<1>4. file[LineOf(i)].octet = file[LineOf(j)].octet
  BY <1>2, <1>3, OctetType
<1>5. LineOf(i) = LineOf(j)
  BY <1>1, <1>2, <1>4 DEF NamedOnce
<1> QED
  BY <1>1, <1>5 DEF LineOf

LEMMA TurnKeepsRound ==
  ASSUME InvList, InvType, InvRound, Turn PROVE InvRound'
<1>1. UNCHANGED <<serverlist, lines, TruncatedFile, NamedOnce>>
  BY DEF Turn, startup, TruncatedFile, NamedOnce
<1> SUFFICES ASSUME ~TruncatedFile, NamedOnce PROVE \E q \in Nat : Round(q)'
  BY <1>1 DEF InvRound
<1> DEFINE n == Len(serverlist)
<1>2. /\ lines > 0 /\ n = lines /\ lines \in Nat /\ picked \in 1 .. n
      /\ serverlist[picked] \in Answerable
  BY PickedIsServer DEF Turn, InvList
<1>3. PICK q \in Nat : Round(q)
  BY <1>2 DEF InvRound
<1>4. \A i \in 1 .. n : i # picked => serverlist[i] # serverlist[picked]
  BY <1>2, NodesDiffer
<1>5. given \in [Answerable -> Nat]
  BY DEF InvType
<1>6. given' = [given EXCEPT ![serverlist[picked]] = @ + 1]
  BY DEF Turn
<1>7. \A i \in 1 .. n : given[serverlist[i]] = IF i < picked THEN q + 1 ELSE q
  BY <1>3 DEF Round
<1> HIDE DEF n
<1>8. given'[serverlist[picked]] = q + 1
  BY <1>2, <1>5, <1>6, <1>7
<1>9. ASSUME NEW i \in 1 .. n, i # picked
      PROVE given'[serverlist[i]] = IF i < picked THEN q + 1 ELSE q
  BY <1>4, <1>5, <1>6, <1>7, <1>9
<1>10. \A i \in 1 .. n : given'[serverlist[i]] = IF i <= picked THEN q + 1 ELSE q
  BY <1>2, <1>8, <1>9
<1>11. CASE picked = n
  <2>1. picked' = 1
    BY <1>11 DEF Turn, NextPick, n
  <2>2. Round(q + 1)'
    BY <1>1, <1>2, <1>10, <1>11, <2>1 DEF Round, n
  <2> QED
    BY <2>2
<1>12. CASE picked # n
  <2>1. picked' = picked + 1
    BY <1>12 DEF Turn, NextPick, n
  <2>2. Round(q)'
    BY <1>1, <1>2, <1>10, <2>1 DEF Round, n
  <2> QED
    BY <2>2
<1> QED
  BY <1>11, <1>12

\* The nodes hold addresses that may be answered with.
LEMMA NodesAnswerable ==
  ASSUME InvList, NEW i \in 1 .. lines PROVE serverlist[i] \in Answerable
<1>1. lines \in 0 .. Len(file) /\ DOMAIN file = 1 .. Len(file) /\ Len(file) \in Nat
  BY DEF InvList
<1>2. LineOf(i) \in 1 .. Len(file)
  BY <1>1 DEF LineOf
<1> QED
  BY <1>1, <1>2 DEF InvList, Answerable

LEMMA NextKeepsRound ==
  ASSUME InvList, InvType, InvRound, InvList', InvType', [Next]_vars PROVE InvRound'
<1>1. CASE UNCHANGED <<file, lines, serverlist, picked, given>>
  BY <1>1 DEF InvRound, Round, TruncatedFile, NamedOnce
<1>2. CASE Turn
  BY <1>2, TurnKeepsRound
<1>3. CASE ReadLine
  <2>1. lines' > 0 /\ Len(serverlist') = lines' /\ ~bound' /\ picked' = 1
    BY <1>3 DEF ReadLine, Reading, InvList, InvType
  <2>2. \A i \in 1 .. lines' : given'[serverlist'[i]] = 0
    <3>1. lines' \in 0 .. Len(file') /\ DOMAIN file' = 1 .. Len(file') /\ Len(file') \in Nat
      BY DEF InvList
    <3>2. ASSUME NEW i \in 1 .. lines' PROVE serverlist'[i] \in Answerable'
      <4>1. LineOf(i)' \in 1 .. Len(file')
        BY <3>1, LineNumber DEF LineOf
      <4> QED
        BY <3>1, <4>1 DEF InvList, Answerable
    <3> QED
      BY <2>1, <3>2 DEF InvType
  <2>3. Round(0)'
    BY <2>1, <2>2 DEF Round
  <2> QED
    BY <2>3 DEF InvRound
<1> QED
  BY <1>1, <1>2, <1>3
  DEF Next, Start_, Start, ReadFails, Bind, StartFails, Exit, Ask_, Return_, Serve_, Net_,
      Serve, ServeAborts, ServeMisaddressed, Turn, vars, server, startup

(***************************************************************************)
(* The answers.                                                            *)
(***************************************************************************)

\* The calls that have returned ip, and those a reply with ip is on its way to.
Holding(ip) == {c \in Calls : addr[c] = ip}
Coming(ip)  == {c \in Calls : ip \in replies[c]}

\* Every address returned or on its way has been given out, once for each call.
InvAnswers ==
  /\ \A c \in Calls : replies[c] \subseteq Answerable
  /\ \A c \in Calls : addr[c] \in Answerable \cup {NoAddr}
  /\ \A ip \in Answerable : Cardinality(Holding(ip)) + Cardinality(Coming(ip)) <= given[ip]

LEMMA Counts ==
  ASSUME NEW ip
  PROVE  /\ IsFiniteSet(Holding(ip)) /\ Cardinality(Holding(ip)) \in Nat
         /\ IsFiniteSet(Coming(ip)) /\ Cardinality(Coming(ip)) \in Nat
<1>1. Holding(ip) \in SUBSET Calls /\ Coming(ip) \in SUBSET Calls /\ IsFiniteSet(Calls)
  BY SystemAssumption DEF Holding, Coming
<1>2. IsFiniteSet(Holding(ip)) /\ IsFiniteSet(Coming(ip))
  BY <1>1, FS_Subset
<1> QED
  BY <1>2, FS_CardinalityType

\* One call more or less.
LEMMA OneMore ==
  ASSUME NEW S, IsFiniteSet(S), NEW c
  PROVE  /\ Cardinality(S \cup {c}) \in Nat
         /\ Cardinality(S \cup {c}) <= Cardinality(S) + 1
         /\ c \notin S => Cardinality(S \cup {c}) = Cardinality(S) + 1
<1>1. Cardinality(S) \in Nat
  BY FS_CardinalityType
<1>2. Cardinality(S \cup {c}) = IF c \in S THEN Cardinality(S) ELSE Cardinality(S) + 1
  BY FS_AddElement
<1> QED
  BY <1>1, <1>2

LEMMA OneLess ==
  ASSUME NEW S, IsFiniteSet(S), NEW c
  PROVE  /\ Cardinality(S \ {c}) \in Nat
         /\ Cardinality(S \ {c}) <= Cardinality(S)
         /\ c \in S => Cardinality(S \ {c}) = Cardinality(S) - 1
<1>1. Cardinality(S) \in Nat /\ (c \in S => Cardinality(S) # 0)
  BY FS_CardinalityType, FS_EmptySet
<1>2. Cardinality(S \ {c}) = IF c \in S THEN Cardinality(S) - 1 ELSE Cardinality(S)
  BY FS_RemoveElement
<1> QED
  BY <1>1, <1>2

\* An address is never the one that stands for none.
LEMMA AnswerableIsAddress == ASSUME InvList PROVE NoAddr \notin Answerable
  BY AnswerableType, SystemAssumption DEF Ips

LEMMA ReturnKeepsAnswers ==
  ASSUME InvList, InvType, InvAnswers, NEW c \in Calls, Return_(c) PROVE InvAnswers'
<1>1. PICK ip \in replies[c] :
        /\ replies' = [replies EXCEPT ![c] = @ \ {ip}]
        /\ addr' = [addr EXCEPT ![c] = ip]
  BY DEF Return_, Return, TakeReply
<1>2. /\ TypeOK /\ addr[c] = NoAddr
      /\ UNCHANGED <<given, file>>
  BY DEF InvType, Return_, Return, server, startup
<1>3. UNCHANGED Answerable /\ ip \in Answerable /\ NoAddr \notin Answerable
  BY <1>2, AnswerableIsAddress DEF InvAnswers, Answerable, Octet
<1>4. /\ replies \in [Calls -> SUBSET (Ips \ {0})]
      /\ addr \in [Calls -> Ips \cup {NoAddr}]
  BY <1>2 DEF TypeOK
<1>5. /\ \A d \in Calls : replies'[d] \subseteq Answerable
      /\ \A d \in Calls : addr'[d] \in Answerable \cup {NoAddr}
  BY <1>1, <1>3, <1>4 DEF InvAnswers
<1>6. ASSUME NEW x \in Answerable
      PROVE  Cardinality(Holding(x)') + Cardinality(Coming(x)') <= given[x]
  <2>1. Cardinality(Holding(x)) + Cardinality(Coming(x)) <= given[x]
    BY DEF InvAnswers
  <2>2. CASE x = ip
    <3>1. /\ Holding(x)' = Holding(x) \cup {c} /\ c \notin Holding(x)
          /\ Coming(x)' = Coming(x) \ {c} /\ c \in Coming(x)
      BY <1>1, <1>2, <1>3, <1>4, <2>2 DEF Holding, Coming
    <3>2. /\ Cardinality(Holding(x)') = Cardinality(Holding(x)) + 1
          /\ Cardinality(Coming(x)') = Cardinality(Coming(x)) - 1
      <4>1. IsFiniteSet(Holding(x)) /\ IsFiniteSet(Coming(x))
        BY Counts
      <4>2. Cardinality(Holding(x) \cup {c}) = Cardinality(Holding(x)) + 1
        BY <3>1, <4>1, OneMore
      <4>3. Cardinality(Coming(x) \ {c}) = Cardinality(Coming(x)) - 1
        BY <3>1, <4>1, OneLess
      <4> QED
        BY <3>1, <4>2, <4>3
    <3> QED
      BY <2>1, <3>2, Counts
  <2>3. CASE x # ip
    <3>1. Holding(x)' = Holding(x) /\ Coming(x)' = Coming(x)
      BY <1>1, <1>2, <1>3, <1>4, <2>3 DEF Holding, Coming
    <3> QED
      BY <2>1, <3>1
  <2> QED
    BY <2>2, <2>3
<1> QED
  BY <1>2, <1>3, <1>5, <1>6 DEF InvAnswers

LEMMA LoseKeepsAnswers ==
  ASSUME InvList, InvType, InvAnswers, NEW c \in Calls, NEW ip \in replies[c],
         TakeReply(c, ip), UNCHANGED <<addr, given, file>>
  PROVE  InvAnswers'
<1>1. UNCHANGED Answerable /\ replies' = [replies EXCEPT ![c] = @ \ {ip}]
  BY DEF Answerable, Octet, TakeReply
<1>2. replies \in [Calls -> SUBSET (Ips \ {0})]
  BY DEF InvType, TypeOK
<1>3. ASSUME NEW x \in Answerable
      PROVE  Cardinality(Holding(x)') + Cardinality(Coming(x)') <= given[x]
  <2>1. Cardinality(Holding(x)) + Cardinality(Coming(x)) <= given[x]
    BY DEF InvAnswers
  <2>2. Holding(x)' = Holding(x)
    BY DEF Holding
  <2>3. Coming(x)' = Coming(x) \/ Coming(x)' = Coming(x) \ {c}
    BY <1>1, <1>2 DEF Coming
  <2>4. IsFiniteSet(Coming(x)) /\ Cardinality(Coming(x)) \in Nat
    BY Counts
  <2>5. Cardinality(Coming(x)') \in Nat /\ Cardinality(Coming(x)') <= Cardinality(Coming(x))
    <3>1. /\ Cardinality(Coming(x) \ {c}) \in Nat
          /\ Cardinality(Coming(x) \ {c}) <= Cardinality(Coming(x))
      BY <2>4, OneLess
    <3>2. CASE Coming(x)' = Coming(x)
      BY <2>4, <3>2
    <3>3. CASE Coming(x)' = Coming(x) \ {c}
      BY <3>1, <3>3
    <3> QED
      BY <2>3, <3>2, <3>3
  <2>6. given[x] \in Nat
    BY DEF InvType
  <2> QED
    BY <2>1, <2>2, <2>4, <2>5, <2>6, Counts
<1>4. \A d \in Calls : replies'[d] \subseteq Answerable
  BY <1>1, <1>2 DEF InvAnswers
<1> QED
  BY <1>1, <1>3, <1>4 DEF InvAnswers

\* An answer given out is on its way to one call at most.
LEMMA TurnKeepsAnswers ==
  ASSUME InvList, InvType, InvAnswers, NEW c \in Calls, Turn, UNCHANGED addr,
         UNCHANGED replies \/ SendReply(c, serverlist[picked])
  PROVE  InvAnswers'
<1> DEFINE ip == serverlist[picked]
<1>1. /\ UNCHANGED Answerable /\ ip \in Answerable
      /\ given' = [given EXCEPT ![ip] = @ + 1] /\ given \in [Answerable -> Nat]
  BY PickedIsServer DEF Turn, InvType, Answerable, Octet, startup
<1>2. replies \in [Calls -> SUBSET (Ips \ {0})]
  BY DEF InvType, TypeOK
<1>3. replies' = replies \/ replies' = [replies EXCEPT ![c] = @ \cup {ip}]
  BY DEF SendReply
<1> HIDE DEF ip
<1>4. ASSUME NEW x \in Answerable
      PROVE  Cardinality(Holding(x)') + Cardinality(Coming(x)') <= given'[x]
  <2>1. Cardinality(Holding(x)) + Cardinality(Coming(x)) <= given[x] /\ given[x] \in Nat
    BY <1>1 DEF InvAnswers
  <2>2. Holding(x)' = Holding(x)
    BY DEF Holding
  <2>3. CASE x = ip
    <3>1. Coming(x)' = Coming(x) \/ Coming(x)' = Coming(x) \cup {c}
      BY <1>2, <1>3, <2>3 DEF Coming
    <3>2. /\ Cardinality(Coming(x)') <= Cardinality(Coming(x)) + 1
          /\ Cardinality(Coming(x)') \in Nat
      <4>1. IsFiniteSet(Coming(x)) /\ Cardinality(Coming(x)) \in Nat
        BY Counts
      <4>2. /\ Cardinality(Coming(x) \cup {c}) \in Nat
            /\ Cardinality(Coming(x) \cup {c}) <= Cardinality(Coming(x)) + 1
        BY <4>1, OneMore
      <4>3. CASE Coming(x)' = Coming(x)
        BY <4>1, <4>3
      <4>4. CASE Coming(x)' = Coming(x) \cup {c}
        BY <4>2, <4>4
      <4> QED
        BY <3>1, <4>3, <4>4
    <3>3. given'[x] = given[x] + 1
      BY <1>1, <2>3
    <3> QED
      BY <2>1, <2>2, <3>2, <3>3, Counts
  <2>4. CASE x # ip
    <3>1. Coming(x)' = Coming(x) /\ given'[x] = given[x]
      BY <1>1, <1>2, <1>3, <2>4 DEF Coming
    <3> QED
      BY <2>1, <2>2, <3>1
  <2> QED
    BY <2>3, <2>4
<1>5. \A d \in Calls : replies'[d] \subseteq Answerable
  BY <1>1, <1>2, <1>3 DEF InvAnswers
<1> QED
  BY <1>1, <1>4, <1>5 DEF InvAnswers

LEMMA NextKeepsAnswers ==
  ASSUME InvList, InvType, InvAnswers, [Next]_vars PROVE InvAnswers'
<1>1. CASE UNCHANGED <<file, replies, addr, given>>
  BY <1>1 DEF InvAnswers, Holding, Coming, Answerable, Octet
<1>2. ASSUME NEW c \in Calls, Net_(c) \/ Ask_(c) PROVE InvAnswers'
  BY <1>1, <1>2, LoseKeepsAnswers
  DEF Net_, Ask_, Lose, Duplicate, TooEarly, Ask, Fails, net, resolver, server, startup
<1>3. ASSUME NEW c \in Calls, Serve_(c) PROVE InvAnswers'
  <2>1. \/ /\ Turn /\ UNCHANGED addr
           /\ UNCHANGED replies \/ SendReply(c, serverlist[picked])
        \/ UNCHANGED <<file, replies, addr, given>>
    BY <1>3
    DEF Serve_, Serve, ServeAborts, ServeMisaddressed, Exit, Turn, Answer, resolver, startup
  <2> QED
    BY <1>1, <2>1, TurnKeepsAnswers
<1>4. CASE Start_
  BY <1>1, <1>4
  DEF Start_, Start, ReadLine, ReadFails, Bind, StartFails, Exit, net, resolver, startup
<1> QED
  BY <1>1, <1>2, <1>3, <1>4, ReturnKeepsAnswers
  DEF Next, vars, net, resolver, server, startup

(***************************************************************************)
(* The theorems.                                                           *)
(***************************************************************************)

DnsInv == InvList /\ InvType /\ InvRound /\ InvAnswers

LEMMA InitDns == Init => DnsInv
<1> SUFFICES ASSUME Init PROVE DnsInv
  OBVIOUS
<1>1. /\ lines = 0 /\ bound = FALSE /\ serverlist = <<0>> /\ picked = 1 /\ up = TRUE
      /\ file \in Seq([octet : 1 .. 255, newline : BOOLEAN])
      /\ file \in Files /\ round_robin \in BOOLEAN
      /\ given = [ip \in Answerable |-> 0] /\ misaddressed = {}
  BY NameserverAssumption DEF Init, NameserverInit, NameserverAssumption, EmptyList,
                              Answerable, Octet
<1>2. InvList
  <2>1. <<0>> \in Seq(Ips) /\ Len(<<0>>) = 1 /\ <<0>>[1] = 0
    BY DEF Ips
  <2>2. Len(file) \in Nat
    BY <1>1
  <2> QED
    BY <1>1, <2>1, <2>2 DEF InvList
<1>3. /\ queries = [c \in Calls |-> 0] /\ copies = [c \in Calls |-> 0]
      /\ replies = [c \in Calls |-> {}] /\ lossy = {}
      /\ call = [c \in Calls |-> "idle"] /\ addr = [c \in Calls |-> NoAddr]
  BY DEF Init, NetInit, ResolverInit
<1>4. InvType
  <2>1. MaxCopies \in Nat /\ Len(serverlist) = 1 /\ Len(file) \in Nat
    BY <1>1, DatagramsAssumption DEF DatagramsAssumption
  <2>2. DOMAIN given \subseteq Ips /\ \A ip \in DOMAIN given : given[ip] \in Nat
    BY <1>1, <1>2, AnswerableType
  <2>3. /\ queries \in [Calls -> 0 .. MaxCopies + 1] /\ copies \in [Calls -> 0 .. MaxCopies]
        /\ replies \in [Calls -> SUBSET (Ips \ {0})] /\ lossy \subseteq Calls
        /\ call \in [Calls -> {"idle", "waiting", "returned", "exited"}]
        /\ addr \in [Calls -> Ips \cup {NoAddr}]
    BY <1>3, <2>1
  <2>4. lines \in 0 .. Len(file) /\ picked \in 1 .. Len(serverlist)
    BY <1>1, <2>1
  <2>5. TypeOK
    BY <1>1, <2>2, <2>3, <2>4 DEF TypeOK
  <2> QED
    BY <1>1, <1>3, <2>1, <2>5 DEF InvType
<1>5. InvRound
  BY <1>1 DEF InvRound
<1>6. InvAnswers
  <2>1. ASSUME NEW ip \in Answerable
        PROVE  Cardinality(Holding(ip)) + Cardinality(Coming(ip)) <= given[ip]
    <3>1. Holding(ip) = {} /\ Coming(ip) = {}
      BY <1>2, <1>3, AnswerableIsAddress DEF Holding, Coming
    <3> QED
      BY <1>1, <3>1, FS_EmptySet
  <2> QED
    BY <1>3, <2>1 DEF InvAnswers
<1> QED
  BY <1>2, <1>4, <1>5, <1>6 DEF DnsInv

LEMMA NextDns == ASSUME DnsInv, [Next]_vars PROVE DnsInv'
<1>1. InvList'
  BY NextKeepsList DEF DnsInv
<1>2. InvType'
  BY <1>1, NextKeepsType DEF DnsInv
<1> QED
  BY <1>1, <1>2, NextKeepsRound, NextKeepsAnswers DEF DnsInv

LEMMA DnsInvariant == Spec => []DnsInv
  BY InitDns, NextDns, PTL DEF Spec

\* The variables of nameserver, resolvers and network keep their types: the list
\* always has the node picked_server is at, and only sensible datagrams are in
\* flight.
THEOREM DnsTypeCorrect == Spec => []TypeOK
<1>1. DnsInv => TypeOK
  BY DEF DnsInv, InvType
<1> QED
  BY <1>1, DnsInvariant, PTL

\* An address the file has is one the nameserver may answer with.
LEMMA InFileAnswerable ==
  ASSUME InvList, ~TruncatedFile PROVE InFile = Answerable
<1>1. DOMAIN file = 1 .. Len(file)
  BY DEF InvList
<1>2. \A k \in DOMAIN file : Octet(k) = file[k].octet
  BY <1>1, OctetType
<1> QED
  BY <1>2 DEF InFile, Answerable

\* The nameserver's answers go round the servers of the file: none is ever given
\* out twice more often than another, however many lookups come in whatever
\* order, repeated or lost.
THEOREM AnswersGoRound == Spec => []RoundRobinBalanced
<1>1. ASSUME DnsInv, ~TruncatedFile, NamedOnce, NEW a \in InFile, NEW b \in InFile
      PROVE  given[a] <= given[b] + 1
  <2>1. InvList /\ InvType /\ InvRound /\ InFile = Answerable
    BY <1>1, InFileAnswerable DEF DnsInv
  <2>2. given[a] \in Nat /\ given[b] \in Nat
    BY <2>1 DEF InvType
  <2>3. CASE ~(bound /\ round_robin)
    BY <2>1, <2>2, <2>3 DEF InvType
  <2>4. CASE bound /\ round_robin
    <3>1. /\ lines = Len(file) /\ Len(file) \in Nat /\ DOMAIN file = 1 .. Len(file)
          /\ picked \in Nat
      BY <2>1, <2>4 DEF InvList, InvType, TypeOK
    <3>2. ASSUME NEW x \in Answerable PROVE \E i \in 1 .. lines : serverlist[i] = x
      <4>1. PICK k \in 1 .. lines : x = Octet(k)
        BY <3>1 DEF Answerable
      <4>2. CASE k = 1
        <5>1. LineOf(1) = 1 /\ 1 \in 1 .. lines
          BY <4>2 DEF LineOf
        <5> QED
          BY <2>1, <4>1, <4>2, <5>1 DEF InvList
      <4>3. CASE k # 1
        <5>1. lines + 2 - k \in 1 .. lines /\ LineOf(lines + 2 - k) = k
          BY <3>1, <4>1, <4>3 DEF LineOf
        <5> QED
          BY <2>1, <4>1, <5>1 DEF InvList
      <4> QED
        BY <4>2, <4>3
    <3>3. PICK i \in 1 .. lines, j \in 1 .. lines : serverlist[i] = a /\ serverlist[j] = b
      BY <2>1, <3>2
    <3>4. lines > 0 /\ Len(serverlist) = lines
      BY <2>1, <3>1, <3>3 DEF InvList
    <3>5. PICK q \in Nat : Round(q)
      BY <1>1, <2>1, <3>4 DEF InvRound
    <3>6. given[a] \in {q, q + 1} /\ given[b] \in {q, q + 1}
      BY <3>3, <3>4, <3>5 DEF Round
    <3> QED
      BY <3>6
  <2> QED
    BY <2>3, <2>4
<1>2. DnsInv => RoundRobinBalanced
  BY <1>1 DEF RoundRobinBalanced
<1> QED
  BY <1>2, DnsInvariant, PTL

\* A lookup returns a server of the file, and one answer serves one lookup,
\* although resolve takes whatever datagram comes first.
THEOREM AnswersAreGivenOut == Spec => []AnswersAreServers
<1>1. ASSUME DnsInv, ~TruncatedFile, NEW c \in Calls, addr[c] # NoAddr
      PROVE  addr[c] \in InFile
  BY <1>1, InFileAnswerable DEF DnsInv, InvAnswers
<1>2. ASSUME DnsInv, NEW ip \in DOMAIN given
      PROVE  Cardinality({c \in Calls : addr[c] = ip}) <= given[ip]
  <2>1. ip \in Answerable /\ given[ip] \in Nat
    BY <1>2 DEF DnsInv, InvType
  <2>2. Cardinality(Holding(ip)) + Cardinality(Coming(ip)) <= given[ip]
    BY <1>2, <2>1 DEF DnsInv, InvAnswers
  <2>3. Cardinality(Holding(ip)) <= given[ip]
    BY <2>1, <2>2, Counts
  <2> QED
    BY <2>3 DEF Holding
<1>3. DnsInv => AnswersAreServers
  BY <1>1, <1>2 DEF AnswersAreServers
<1> QED
  BY <1>3, DnsInvariant, PTL
=============================================================================
