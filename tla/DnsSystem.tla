----------------------------- MODULE DnsSystem -----------------------------
(***************************************************************************)
(* Proxies that look their web server up at start, the nameserver that     *)
(* spreads them over the servers of its file, and the network between.     *)
(***************************************************************************)
EXTENDS Resolver, Nameserver, FiniteSets

vars == <<net, resolver, server>>

Init == NetInit /\ ResolverInit /\ NameserverInit

Ask_(c)    == (Ask(c) \/ Fails(c)) /\ UNCHANGED server
Return_(c) == Return(c) /\ UNCHANGED server
Serve_(c)  == (Serve(c) \/ ServeAborts(c) \/ ServeMisaddressed(c)) /\ UNCHANGED resolver
Net_(c)    == (Lose(c) \/ Duplicate(c) \/ TooEarly(c)) /\ UNCHANGED <<resolver, server>>
Start_     == Start /\ UNCHANGED <<net, resolver>>

Next == Start_ \/ \E c \in Calls : Ask_(c) \/ Return_(c) \/ Serve_(c) \/ Net_(c)

Spec == Init /\ [][Next]_vars

\* The nameserver gets to its loop or exits; it takes every datagram of its
\* socket's queue in the end; a process whose datagram has come leaves recvfrom.
FairSpec ==
  /\ Spec
  /\ WF_vars(Start_)
  /\ \A c \in Calls : WF_vars(Serve_(c)) /\ WF_vars(Return_(c))

\* A lookup is a process of its own; the result that is none is no address.
ASSUME SystemAssumption == IsFiniteSet(Calls) /\ NoAddr \notin 0 .. 255

-----------------------------------------------------------------------------
Ips == 0 .. 255
InFile == {file[i].octet : i \in DOMAIN file}

TypeOK ==
  /\ queries \in [Calls -> 0 .. MaxCopies + 1]
  /\ copies \in [Calls -> 0 .. MaxCopies]
  /\ replies \in [Calls -> SUBSET (Ips \ {0})]
  /\ lossy \subseteq Calls
  /\ call \in [Calls -> {"idle", "waiting", "returned", "exited"}]
  /\ addr \in [Calls -> Ips \cup {NoAddr}]
  /\ file \in Files
  /\ round_robin \in BOOLEAN
  /\ lines \in 0 .. Len(file)
  /\ {bound, up} \subseteq BOOLEAN
  /\ picked \in 1 .. Len(serverlist)
  /\ misaddressed \subseteq Calls
  /\ DOMAIN given \subseteq Ips /\ \A ip \in DOMAIN given : given[ip] \in Nat

\* The queries that reach the nameserver are spread evenly over the servers of
\* the file, whatever the order and number they arrive in: the list push_server
\* builds has every server once and picked_server goes round it.  (A file whose
\* last line has no newline is read wrongly, see TruncatedFile, and a server
\* named in two lines gets the share of both.)
TruncatedFile == \E i \in DOMAIN file : ~file[i].newline
NamedOnce == \A i, j \in DOMAIN file : file[i].octet = file[j].octet => i = j
RoundRobinBalanced ==
  ~TruncatedFile /\ NamedOnce =>
    \A a, b \in InFile : given[a] <= given[b] + 1

\* A call returns an address of the file, and for every call that returned an
\* address the nameserver has given it out once: no answer serves two calls,
\* although resolve takes the first datagram that arrives for an answer.
AnswersAreServers ==
  ~TruncatedFile =>
    /\ \A c \in Calls : addr[c] # NoAddr => addr[c] \in InFile
    /\ \A ip \in DOMAIN given : Cardinality({c \in Calls : addr[c] = ip}) <= given[ip]

\* A call that has asked ends, unless the nameserver has exited, a datagram of
\* that very call was dropped (by the network, or by the kernel before the port
\* was bound), or its query was the nameserver's first and the reply was sent
\* elsewhere: neither what happens to the others nor duplicates keep it waiting.
AnsweredUnlessLost ==
  \A c \in Calls :
    (call[c] = "waiting") ~>
      (call[c] # "waiting" \/ c \in lossy \/ c \in misaddressed \/ ~up)

\* The nameserver sends each reply "back to proxy": a call none of whose
\* datagrams was dropped is answered while the nameserver is up.  (It does not
\* hold for the first query, whose client_len is read uninitialised.)
FirstAnsweredToo ==
  \A c \in Calls :
    (call[c] = "waiting") ~> (call[c] # "waiting" \/ c \in lossy \/ ~up)

\* What the interface of resolve announces, 0 on success and -1 otherwise: it
\* returns.  (It does not hold when a datagram is lost.)
ResolveReturns ==
  \A c \in Calls : (call[c] = "waiting") ~> (call[c] # "waiting")
=============================================================================
