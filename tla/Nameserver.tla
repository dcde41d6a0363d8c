----------------------------- MODULE Nameserver -----------------------------
(***************************************************************************)
(* The nameserver (src/nameserver.c): the circular list of servers read    *)
(* from a file, and the loop that answers each query with the next one.    *)
(*                                                                         *)
(* A line of the file is the last octet of an address (the octets before   *)
(* it are alike) and whether a newline ends it; 0 is the address 0.0.0.0   *)
(* of an empty list.                                                       *)
(***************************************************************************)
EXTENDS Datagrams, Sequences

CONSTANTS
  Files,          \* the files of servers to start with
  Modes,          \* the values of round_robin: TRUE with -r on the command line
  ServerFaults    \* a subset of {"start", "send", "uninit"}

ASSUME NameserverAssumption ==
  /\ Files \subseteq Seq([octet : 1 .. 255, newline : BOOLEAN])
  /\ Modes \subseteq BOOLEAN
  /\ ServerFaults \subseteq {"start", "send", "uninit"}

VARIABLES
  file, round_robin,   \* how the process was started
  serverlist,          \* the circular list, from its first node on
  picked,              \* position of picked_server in it
  lines,               \* how many lines of the file have been read
  bound,               \* TRUE once the socket has its port
  up,                  \* FALSE once the process has exited
  given,               \* history: how often each address was answered
  misaddressed         \* history: the calls whose reply was sent elsewhere

startup == <<file, round_robin, lines, bound>>
server  == <<startup, serverlist, picked, up, given, misaddressed>>

-----------------------------------------------------------------------------
\* Mutation: the second and the later servers are all put in one node.
PushServerOver(list, ip) ==
  IF list[1] = 0 THEN <<ip>> ELSE <<list[1], ip>>

\* init_serverlist and push_server: the list, from its first node on.  A server
\* goes into the first node while that is empty, and after it from then on.
EmptyList == <<0>>
PushServer(list, ip) ==
  IF list[1] = 0 THEN <<ip>> ELSE <<list[1], ip>> \o Tail(list)

\* Mutation: the newline is looked for and not there, but one more is cut.
ReadOctetShort(line) == line.octet \div 10

\* The last character of every line is cut off, newline or not.
ReadOctet(line) == IF line.newline THEN line.octet ELSE line.octet \div 10

\* Mutation: the last node is not closed to the first.
NextPickOpen(i) == i + 1

\* picked_server->next.
NextPick(i) == IF i = Len(serverlist) THEN 1 ELSE i + 1

-----------------------------------------------------------------------------
NameserverInit ==
  /\ file \in Files
  /\ round_robin \in Modes
  /\ lines = 0
  /\ bound = FALSE
  /\ up = TRUE
  /\ serverlist = EmptyList
  /\ picked = 1
  /\ given = [ip \in {ReadOctet(file[i]) : i \in DOMAIN file} |-> 0]
  /\ misaddressed = {}

Exit == up' = FALSE /\ UNCHANGED <<startup, serverlist, picked, given, misaddressed>>

\* The next line of the file, with -r only.
Reading == up /\ round_robin /\ ~bound /\ lines < Len(file)
NextOctet == ReadOctet(file[lines + 1])

\* An iteration of get_serverlist.
ReadLine ==
  /\ Reading
  /\ NextOctet # 0
  /\ serverlist' = PushServer(serverlist, NextOctet)
  /\ lines' = lines + 1
  /\ UNCHANGED <<file, round_robin, bound, picked, up, given, misaddressed>>

\* inet_aton refuses an address cut down to its last dot.
ReadFails == Reading /\ NextOctet = 0 /\ Exit

\* socket and bind, once the file has been read.
Bind ==
  /\ up /\ ~bound
  /\ round_robin => lines = Len(file)
  /\ bound' = TRUE
  /\ UNCHANGED <<file, round_robin, lines, serverlist, picked, up, given, misaddressed>>

\* fopen, socket or bind fails.
StartFails ==
  /\ up /\ ~bound
  /\ round_robin => lines \in {0, Len(file)}
  /\ "start" \in ServerFaults
  /\ Exit

Start == ReadLine \/ ReadFails \/ Bind \/ StartFails

\* A query that comes before the socket has its port is dropped by the kernel.
TooEarly(c) ==
  /\ ~bound
  /\ TakeQuery(c)
  /\ lossy' = lossy \cup {c}
  /\ UNCHANGED <<replies, copies>>

\* Mutation: the answer of an iteration is not sent to its client.
AnswerNobody(c, ip) == UNCHANGED replies

Answer(c, ip) == SendReply(c, ip)

\* recvfrom, cnd_rr, sendto: the whole of an iteration.
Serve(c) ==
  /\ up /\ bound /\ round_robin
  /\ TakeQuery(c)
  /\ serverlist[picked] # 0
  /\ Answer(c, serverlist[picked])
  /\ given' = [given EXCEPT ![serverlist[picked]] = @ + 1]
  /\ picked' = NextPick(picked)
  /\ UNCHANGED <<startup, serverlist, up, misaddressed, copies, lossy>>

\* An iteration that ends the process: cnd_rr asserts that the address is not
\* 0.0.0.0, main that cnd_geo_dist, which sets no length, has set one; sendto
\* may fail.
ServeAborts(c) ==
  /\ up /\ bound
  /\ TakeQuery(c)
  /\ \/ ~round_robin
     \/ serverlist[picked] = 0
     \/ "send" \in ServerFaults
  /\ Exit
  /\ UNCHANGED <<replies, copies, lossy>>

\* The first recvfrom reads client_len uninitialised: it fails when the value is
\* negative, and stores a part of the client's address when it is small, so that
\* the reply goes elsewhere or sendto fails.  It sets client_len.
FirstQuery == \A ip \in DOMAIN given : given[ip] = 0
ServeMisaddressed(c) ==
  /\ up /\ bound /\ round_robin /\ FirstQuery
  /\ "uninit" \in ServerFaults
  /\ TakeQuery(c)
  /\ serverlist[picked] # 0
  /\ \/ Exit
     \/ /\ given' = [given EXCEPT ![serverlist[picked]] = @ + 1]
        /\ picked' = NextPick(picked)
        /\ misaddressed' = misaddressed \cup {c}
        /\ UNCHANGED <<startup, serverlist, up>>
  /\ UNCHANGED <<replies, copies, lossy>>
=============================================================================
