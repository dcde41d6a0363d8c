------------------------------- MODULE Proxy -------------------------------
(***************************************************************************)
(* The event loop of the video proxy (src/proxy.c, main), with the calls   *)
(* it makes per ready descriptor: general_recv and general_send of         *)
(* src/http_parser.c, init_buf, transfer_info, logging of src/helper.c.    *)
(*                                                                         *)
(* The process is single threaded: select() takes a snapshot of the ready  *)
(* descriptors and a for loop visits them in increasing order, reading     *)
(* before writing.  What interleaves with it is the rest of the world:     *)
(* browsers connect, send and hang up, the web server answers, closes or   *)
(* resets, and the kernel hands out the lowest free descriptor, so that a  *)
(* number closed in one visit may name another connection in the next.     *)
(*                                                                         *)
(* Abstracted: a request is the connection that made it and the bitrate in *)
(* its URI (0 when it is not for a video chunk); how its bytes are parsed, *)
(* how the bitrate is chosen and how throughput is averaged are left out.  *)
(* A browser makes one request per connection and does not pipeline.       *)
(***************************************************************************)
EXTENDS Integers, Sequences

CONSTANTS
  Conns,    \* browser connections that may ever be made
  MaxFd,    \* highest descriptor the kernel hands out: bounds open sockets
  Rates,    \* bitrates of the manifest (all_rates)
  Faults,   \* what the environment may do wrong, a subset of FaultKinds
  NONE      \* a null pointer

\* hangup: a browser closes early.  flood: its request overruns rbuf.
\* short: the server closes before the announced length is through.
\* reset: its connection breaks.  cut: send() takes a part of a request.
\* refuse: connect() fails.  clock: the wall clock is stepped back.
\* uninit: cli_size, read uninitialised by the first accept(), is not the
\* size of an address.  stall: a peer takes nothing for a while.
FaultKinds ==
  {"hangup", "flood", "short", "reset", "cut", "refuse", "clock", "uninit",
   "stall"}

WEB   == "web"                  \* the web server, as a peer
Peers == Conns \cup {WEB}

ASSUME ProxyAssumption ==
  /\ MaxFd \in Nat \ {0}
  /\ Rates \subseteq Nat \ {0}
  /\ Faults \subseteq FaultKinds
  /\ NONE \notin [conn : Conns, rate : Rates \cup {0, -1}]
  /\ NONE \notin Conns
  /\ WEB \notin Conns

LISTEN == 0                     \* listen_sock is opened before any connection
Fd     == 1 .. MaxFd
NoSock == -1

Request == [conn : Conns, rate : Rates \cup {0}]
NoChunk(r) == r.rate = 0
MSG503(c) == [conn |-> c, rate |-> -1]      \* what a flooding browser is told

Status == {"RAW", "FROM_BROWSER", "TO_BROWSER", "FROM_SERVER", "TO_SERVER"}

\* The fields of struct buf the loop depends on.
Buf == [ status       : Status,
         sock2server  : Fd \cup {NoSock},
         sock2browser : Fd \cup {NoSock},
         http_reply_p : Request \cup {NONE},
         bitrate      : Rates \cup {0},
         chunk_name   : Request \cup {NONE},
         client_ip    : Conns \cup {NONE} ]

\* A line of the log, as far as it tells whose request it is about.
Line == [ bitrate    : Rates \cup {0},
          client_ip  : Conns \cup {NONE},
          chunk_name : Request ]

VARIABLES
  \* the world
  conn,         \* each browser connection: idle, pending, open, closed
  stalled,      \* the peers that take nothing: the kernel holds all it can for
                \* a browser, or the web server's backlog is full
  got,          \* the replies each browser connection has received, in order
  sent,         \* the requests given to send() for each connection, in order
  role,         \* what a descriptor is open for: free, browser, server
  client,       \* the browser connection behind a browser descriptor
  asked,        \* the request a server has received whole on a descriptor
  inbox,        \* what is waiting to be read from a descriptor
  \* the proxy
  up,           \* FALSE once the process has exited
  master_read,
  master_write,
  read_fds,     \* snapshot of select, less the descriptors already visited
  write_fds,
  maxfd,
  buf_pts,
  log           \* the lines appended to the log file, in order

world == <<conn, stalled, got, sent, role, client, asked, inbox>>
loop  == <<up, master_read, master_write, read_fds, write_fds, maxfd>>
vars  == <<world, loop, buf_pts, log>>

-----------------------------------------------------------------------------
\* Mutation: the descriptors of a new buf are left as calloc left them.
InitBufZeroed(addr) ==
  [ status |-> "RAW", sock2server |-> 0, sock2browser |-> 0,
    http_reply_p |-> NONE, bitrate |-> 0, chunk_name |-> NONE,
    client_ip |-> addr ]

\* calloc + init_buf: addr is the peer's address, NONE for the web server's.
InitBuf(addr) ==
  [ status |-> "RAW", sock2server |-> NoSock, sock2browser |-> NoSock,
    http_reply_p |-> NONE, bitrate |-> 0, chunk_name |-> NONE,
    client_ip |-> addr ]

\* Mutation: the bitrate is not transferred.
TransferInfoNoBitrate(from, to) ==
  [to EXCEPT !.sock2browser = from.sock2browser,
             !.client_ip    = from.client_ip,
             !.chunk_name   = from.chunk_name]

\* Mutation: the client's address is not transferred.
TransferInfoNoClient(from, to) ==
  [to EXCEPT !.sock2browser = from.sock2browser,
             !.bitrate      = from.bitrate,
             !.chunk_name   = from.chunk_name]

\* transfer_info: what the server side's buf takes from the browser side's.
TransferInfo(from, to) ==
  [to EXCEPT !.sock2browser = from.sock2browser,
             !.client_ip    = from.client_ip,
             !.bitrate      = from.bitrate,
             !.chunk_name   = from.chunk_name]

\* The descriptor socket() or accept() returns.
LowestFree(f) ==
  /\ role[f] = "free"
  /\ \A g \in Fd : g < f => role[g] # "free"

NoFreeFd == \A f \in Fd : role[f] # "free"

\* Mutations: an FD_SET or an FD_CLR is forgotten.
StartReadingNot(f)  == f \in Fd /\ UNCHANGED master_read
StopWritingNot(f)   == f \in Fd /\ UNCHANGED master_write
TurnToWritingNot(f) == master_read' = master_read \ {f} /\ UNCHANGED master_write

\* FD_SET and FD_CLR on the master sets.
StartReading(f) == master_read' = master_read \cup {f}
StopReading(f)  == master_read' = master_read \ {f}
StopWriting(f)  == master_write' = master_write \ {f}
TurnToWriting(f) == StopReading(f) /\ master_write' = master_write \cup {f}

Larger(a, b) == IF a > b THEN a ELSE b

-----------------------------------------------------------------------------
Init ==
  /\ conn = [c \in Conns |-> "idle"]
  /\ stalled = {}
  /\ got = [c \in Conns |-> <<>>]
  /\ sent = [c \in Conns |-> <<>>]
  /\ role = [f \in Fd |-> "free"]
  /\ client = [f \in Fd |-> NONE]
  /\ asked = [f \in Fd |-> NONE]
  /\ inbox = [f \in Fd |-> "empty"]
  /\ up = TRUE
  /\ master_read = {LISTEN}
  /\ master_write = {}
  /\ read_fds = {}
  /\ write_fds = {}
  /\ maxfd = LISTEN
  /\ buf_pts = [f \in Fd |-> InitBuf(NONE)]
  /\ log = <<>>

-----------------------------------------------------------------------------
\* select() and the for loop over the descriptors.

Readable(f) ==
  IF f = LISTEN
  THEN \E c \in Conns : conn[c] = "pending"
  ELSE \/ inbox[f] \in {"part", "rest", "flood", "eof", "error"}
       \/ inbox[f] = "empty" /\ role[f] = "browser" /\ conn[client[f]] = "closed"

\* The loop has visited the whole snapshot: back to select, which waits for a
\* descriptor.  A socket with write interest has an empty send queue.
Select ==
  /\ up
  /\ read_fds \cup write_fds = {}
  /\ read_fds' = {f \in master_read : f <= maxfd /\ Readable(f)}
  /\ write_fds' = {f \in master_write : f <= maxfd}
  /\ read_fds' \cup write_fds' # {}
  /\ UNCHANGED <<world, up, master_read, master_write, maxfd, buf_pts, log>>

\* i = f in the for loop, at the check of read_fds or at that of write_fds.
Visiting(f) == up /\ \A g \in read_fds \cup write_fds : f <= g
AtRead(f)   == f \in read_fds /\ Visiting(f)
AtWrite(f)  == f \in write_fds \ read_fds /\ Visiting(f)

DoneRead(f)  == read_fds' = read_fds \ {f} /\ UNCHANGED write_fds
DoneWrite(f) == write_fds' = write_fds \ {f} /\ UNCHANGED read_fds

\* exit(-1), or death by signal, in the middle of a visit.
Exit == up' = FALSE /\ UNCHANGED <<world, master_read, master_write, read_fds,
                                    write_fds, maxfd, buf_pts, log>>

-----------------------------------------------------------------------------
\* The listening socket is readable.

FirstAccept == \A c \in Conns : conn[c] \in {"idle", "pending"}

\* What accept() stores in cli_addr: nothing, when cli_size is 0.  It sets
\* cli_size, so that only the first call can read it uninitialised.
CliAddr(c) ==
  {c} \cup IF FirstAccept /\ "uninit" \in Faults THEN {NONE} ELSE {}

Accept ==
  /\ AtRead(LISTEN)
  /\ \E c \in Conns, f \in Fd :
       /\ conn[c] = "pending"
       /\ LowestFree(f)
       /\ conn' = [conn EXCEPT ![c] = "open"]
       /\ role' = [role EXCEPT ![f] = "browser"]
       /\ client' = [client EXCEPT ![f] = c]
       /\ StartReading(f)
       /\ \E addr \in CliAddr(c) : buf_pts' = [buf_pts EXCEPT ![f] = InitBuf(addr)]
       /\ maxfd' = Larger(f, maxfd)
  /\ DoneRead(LISTEN)
  /\ UNCHANGED <<stalled, got, sent, asked, inbox, up, master_write, log>>

\* accept fails for want of a descriptor, or on a negative cli_size.
AcceptFails ==
  /\ AtRead(LISTEN)
  /\ NoFreeFd \/ (FirstAccept /\ "uninit" \in Faults)
  /\ Exit

-----------------------------------------------------------------------------
\* A connection is readable: general_recv dispatches on the status.

AtRecvBrow(f)   == AtRead(f) /\ buf_pts[f].status \in {"RAW", "FROM_BROWSER"}
AtRecvServer(f) == AtRead(f) /\ buf_pts[f].status = "FROM_SERVER"

\* recv_ret = 2: what has been received is not whole yet, keep reading.
RecvPart(f) ==
  /\ AtRecvBrow(f) \/ AtRecvServer(f)
  /\ inbox[f] = "part"
  /\ inbox' = [inbox EXCEPT ![f] = "empty"]
  /\ DoneRead(f)
  /\ UNCHANGED <<conn, stalled, got, sent, role, client, asked, up, master_read,
                 master_write, maxfd, buf_pts, log>>

\* recv_ret = 0: the peer has closed, or recv failed on a browser's socket.
\* The descriptor leaves master_read and stays open.
RecvNothing(f) ==
  /\ \/ AtRecvBrow(f) /\ inbox[f] = "empty"
     \/ AtRecvServer(f) /\ inbox[f] = "eof"
  /\ inbox' = [inbox EXCEPT ![f] = "spent"]
  /\ StopReading(f)
  /\ DoneRead(f)
  /\ UNCHANGED <<conn, stalled, got, sent, role, client, asked, up,
                 master_write, maxfd, buf_pts, log>>

\* recv_request finds rbuf full: MSG503 goes back, unless the browser has left,
\* and recv_BROW returns 0.
RecvFlood(f) ==
  /\ AtRecvBrow(f)
  /\ inbox[f] = "flood"
  /\ got' = [c \in Conns |-> IF c = client[f] /\ conn[c] = "open"
                             THEN Append(got[c], MSG503(c)) ELSE got[c]]
  /\ inbox' = [inbox EXCEPT ![f] = "spent"]
  /\ StopReading(f)
  /\ DoneRead(f)
  /\ UNCHANGED <<conn, stalled, sent, role, client, asked, up, master_write,
                 maxfd, buf_pts, log>>

\* MSG503 to a browser that has left raises SIGPIPE.
RecvFloodFails(f) ==
  /\ AtRecvBrow(f)
  /\ inbox[f] = "flood"
  /\ conn[client[f]] = "closed"
  /\ Exit

\* The buf of f once its request req is whole: dequeued, at the bitrate it will
\* be sent on with, and ready to be sent.
TakeRequest(b, f, req) ==
  [b EXCEPT !.status       = "TO_SERVER",
            !.sock2browser = f,
            !.http_reply_p = req,
            !.bitrate      = req.rate,
            !.chunk_name   = IF NoChunk(req) THEN NONE ELSE req]

\* recv_ret = 1 from the browser: the request is dequeued, its bitrate is
\* rewritten and remembered, and the socket turns to writing.
RecvRequest(f) ==
  /\ AtRecvBrow(f)
  /\ inbox[f] = "rest"
  /\ \E rate \in Rates \cup {0} :
       buf_pts' = [buf_pts EXCEPT
         ![f] = TakeRequest(buf_pts[f], f, [conn |-> client[f], rate |-> rate])]
  /\ inbox' = [inbox EXCEPT ![f] = "spent"]
  /\ TurnToWriting(f)
  /\ DoneRead(f)
  /\ UNCHANGED <<conn, stalled, got, sent, role, client, asked, up, maxfd, log>>

\* Mutation: the status is not turned.
ReplyReceivedNot(f) == f \in Fd /\ UNCHANGED buf_pts

ReplyReceived(f) == buf_pts' = [buf_pts EXCEPT ![f].status = "TO_BROWSER"]

\* recv_ret = 1 from the server: the reply has reached its Content-Length.
RecvReply(f) ==
  /\ AtRecvServer(f)
  /\ inbox[f] = "rest"
  /\ inbox' = [inbox EXCEPT ![f] = "spent"]
  /\ ReplyReceived(f)
  /\ TurnToWriting(f)
  /\ DoneRead(f)
  /\ UNCHANGED <<conn, stalled, got, sent, role, client, asked, up, maxfd, log>>

\* recv_SERVER exits when recv fails, or when the reply fills the buffer.
RecvReplyFails(f) == AtRecvServer(f) /\ inbox[f] = "error" /\ Exit

-----------------------------------------------------------------------------
\* A connection is writable: general_send dispatches on the status.

AtSendServer(f)  == AtWrite(f) /\ buf_pts[f].status = "TO_SERVER"
AtSendBrowser(f) == AtWrite(f) /\ buf_pts[f].status = "TO_BROWSER"

\* Mutation: the browser's socket is closed once its request has been sent on.
OpenServerCloseBrowser(f, s) ==
  role' = [role EXCEPT ![s] = "server", ![f] = "free"]

\* socket() and connect() in a visit to f.
OpenServer(f, s) == f # s /\ role' = [role EXCEPT ![s] = "server"]

\* How much of the request send() takes: all of it, or a part (or nothing, when
\* it fails: numbytes is unsigned, so -1 takes the branch of a part).
Sent(req) == {req} \cup IF "cut" \in Faults THEN {NONE} ELSE {}

\* The buf of the server's side, where the browser's side is b.
ServerBuf(b) ==
  TransferInfo(b, [InitBuf(NONE) EXCEPT !.status = "FROM_SERVER"])

\* send_SERVER opens and connects a socket s and sends the request once;
\* general_send returns 0 whatever send_SERVER returned, so that f always
\* leaves master_write and s is read from next.  connect() waits for the server.
SendServer(f) ==
  /\ AtSendServer(f)
  /\ WEB \notin stalled
  /\ sent' = [sent EXCEPT ![buf_pts[f].http_reply_p.conn] =
                Append(@, buf_pts[f].http_reply_p)]
  /\ \E s \in Fd :
       /\ LowestFree(s)
       /\ OpenServer(f, s)
       /\ \E part \in Sent(buf_pts[f].http_reply_p) :
            asked' = [asked EXCEPT ![s] = part]
       /\ maxfd' = Larger(s, maxfd)
       /\ buf_pts' = [buf_pts EXCEPT
            ![f].sock2server = s,
            ![s] = ServerBuf(buf_pts[f])]
       /\ StartReading(s)
  /\ StopWriting(f)
  /\ DoneWrite(f)
  /\ UNCHANGED <<conn, stalled, got, client, inbox, up, log>>

\* socket() fails for want of a descriptor, or connect() is refused or gives up.
SendServerFails(f) ==
  /\ AtSendServer(f)
  /\ NoFreeFd \/ "refuse" \in Faults
  /\ Exit

\* send() in send_BROWSER waits as long as the browser takes nothing: the loop
\* around it ends when the whole buffer is out, and nothing else is served.
SendWaits(f) ==
  LET c == client[buf_pts[f].sock2browser]
  IN  c \in stalled /\ conn[c] = "open"

\* send_BROWSER sends the whole buffer on sock2browser.  A browser that has hung
\* up loses the reply.
Relay(f) ==
  LET to == buf_pts[f].sock2browser
  IN  got' = [c \in Conns |->
                IF role[to] = "browser" /\ client[to] = c /\ conn[c] = "open"
                THEN Append(got[c], asked[f])
                ELSE got[c]]

\* close(i): what its peer had sent goes with it.
Close(f) ==
  /\ role' = [role EXCEPT ![f] = "free"]
  /\ asked' = [asked EXCEPT ![f] = NONE]
  /\ inbox' = [inbox EXCEPT ![f] = "empty"]

\* logging: a line for a chunk, none for a page.
LogLine(b) ==
  log' = IF b.chunk_name = NONE THEN log
         ELSE Append(log, [ bitrate    |-> b.bitrate,
                            client_ip  |-> b.client_ip,
                            chunk_name |-> b.chunk_name ])

\* After send_BROWSER the line is logged and the server's socket, the one being
\* visited, is closed.
SendBrowser(f) ==
  /\ AtSendBrowser(f)
  /\ ~SendWaits(f)
  /\ Relay(f)
  /\ LogLine(buf_pts[f])
  /\ Close(f)
  /\ StopWriting(f)
  /\ DoneWrite(f)
  /\ UNCHANGED <<conn, stalled, sent, client, up, master_read, maxfd, buf_pts>>

\* logging asserts tf > ts, two readings of the wall clock, of a chunk's reply.
LoggingAborts(f) ==
  /\ AtSendBrowser(f)
  /\ ~SendWaits(f)
  /\ buf_pts[f].chunk_name # NONE
  /\ "clock" \in Faults
  /\ Relay(f)
  /\ up' = FALSE
  /\ UNCHANGED <<conn, stalled, sent, role, client, asked, inbox, master_read,
                 master_write, read_fds, write_fds, maxfd, buf_pts, log>>

\* Writing to a browser that has hung up fails, or raises SIGPIPE.
SendBrowserFails(f) ==
  /\ AtSendBrowser(f)
  /\ conn[client[buf_pts[f].sock2browser]] = "closed"
  /\ Exit

-----------------------------------------------------------------------------
\* The world: browsers and the web server, with the kernel's buffers between.

Connect(c) ==
  /\ conn[c] = "idle"
  /\ conn' = [conn EXCEPT ![c] = "pending"]
  /\ UNCHANGED <<stalled, got, sent, role, client, asked, inbox, loop, buf_pts,
                 log>>

\* A peer stops taking what it is sent, and goes on.
Stall(p) ==
  /\ "stall" \in Faults
  /\ p \notin stalled
  /\ p \in Conns => conn[p] = "open"
  /\ stalled' = stalled \cup {p}
  /\ UNCHANGED <<conn, got, sent, role, client, asked, inbox, loop, buf_pts, log>>

Resume(p) ==
  /\ p \in stalled
  /\ stalled' = stalled \ {p}
  /\ UNCHANGED <<conn, got, sent, role, client, asked, inbox, loop, buf_pts, log>>

\* A segment of the request arrives: "rest" ends with the CRLFCRLF, "flood"
\* comes when the segments before it have filled rbuf.
BrowserSends(f) ==
  /\ role[f] = "browser" /\ conn[client[f]] = "open" /\ inbox[f] = "empty"
  /\ \E seg \in {"part", "rest"} \cup ({"flood"} \cap Faults) : inbox' = [inbox EXCEPT ![f] = seg]
  /\ UNCHANGED <<conn, stalled, got, sent, role, client, asked, loop, buf_pts,
                 log>>

Hangup(c) ==
  /\ "hangup" \in Faults
  /\ conn[c] = "open"
  /\ conn' = [conn EXCEPT ![c] = "closed"]
  /\ UNCHANGED <<stalled, got, sent, role, client, asked, inbox, loop, buf_pts,
                 log>>

\* Some bytes of the reply arrive; "rest" are those that complete it.
ServerSends(s) ==
  /\ role[s] = "server" /\ asked[s] # NONE /\ inbox[s] = "empty"
  /\ \E seg \in {"part", "rest"} : inbox' = [inbox EXCEPT ![s] = seg]
  /\ UNCHANGED <<conn, stalled, got, sent, role, client, asked, loop, buf_pts,
                 log>>

\* The server closes before a reply of the announced length is through (or
\* announces none), or the connection breaks.
ServerStops(s) ==
  /\ role[s] = "server" /\ inbox[s] = "empty"
  /\ \/ "short" \in Faults /\ inbox' = [inbox EXCEPT ![s] = "eof"]
     \/ "reset" \in Faults /\ inbox' = [inbox EXCEPT ![s] = "error"]
  /\ UNCHANGED <<conn, stalled, got, sent, role, client, asked, loop, buf_pts,
                 log>>

-----------------------------------------------------------------------------
Visit(f) ==
  \/ RecvPart(f) \/ RecvNothing(f) \/ RecvFlood(f) \/ RecvFloodFails(f)
  \/ RecvRequest(f)
  \/ RecvReply(f) \/ RecvReplyFails(f)
  \/ SendServer(f) \/ SendServerFails(f)
  \/ SendBrowser(f) \/ LoggingAborts(f) \/ SendBrowserFails(f)

ProxyStep == Select \/ Accept \/ AcceptFails \/ \E f \in Fd : Visit(f)

WorldStep ==
  \/ \E c \in Conns : Connect(c) \/ Hangup(c)
  \/ \E p \in Peers : Stall(p) \/ Resume(p)
  \/ \E f \in Fd : BrowserSends(f) \/ ServerSends(f) \/ ServerStops(f)

Next == ProxyStep \/ WorldStep

Spec == Init /\ [][Next]_vars

\* The process runs whenever it can.  In a send() or connect() it can only go on
\* when that peer does; what a peer that goes on again and again makes room for
\* is kept for the waiting call, hence SF.  A server that has a whole request
\* sends the rest of its reply in the end.
ServerAnswers(s) == ServerSends(s) /\ inbox'[s] = "rest"
FairSpec == Spec /\ SF_vars(ProxyStep) /\ \A s \in Fd : SF_vars(ServerAnswers(s))

-----------------------------------------------------------------------------
\* What must hold.

Browsers == {f \in Fd : role[f] = "browser"}
Servers  == {f \in Fd : role[f] = "server"}
Watched  == master_read \cup master_write

TypeOK ==
  /\ conn \in [Conns -> {"idle", "pending", "open", "closed"}]
  /\ got \in [Conns -> Seq([conn : Conns, rate : Rates \cup {0, -1}] \cup {NONE})]
  /\ stalled \subseteq Peers
  /\ sent \in [Conns -> Seq(Request)]
  /\ role \in [Fd -> {"free", "browser", "server"}]
  /\ client \in [Fd -> Conns \cup {NONE}]
  /\ asked \in [Fd -> Request \cup {NONE}]
  /\ inbox \in [Fd -> {"empty", "part", "rest", "flood", "eof", "error", "spent"}]
  /\ up \in BOOLEAN
  /\ master_read \subseteq Fd \cup {LISTEN}
  /\ master_write \subseteq Fd \cup {LISTEN}
  /\ read_fds \subseteq Fd \cup {LISTEN}
  /\ write_fds \subseteq Fd \cup {LISTEN}
  /\ maxfd \in Fd \cup {LISTEN}
  /\ buf_pts \in [Fd -> Buf]
  /\ log \in Seq(Line)

\* The server closed before its reply was whole: the loop has dropped the
\* descriptor from master_read and will not look at it again.
CutShort(s) == buf_pts[s].status = "FROM_SERVER" /\ inbox[s] = "spent"

\* The descriptors in the sets given to select are open (a closed one makes
\* select fail and main return), within maxfd, and never in both sets; the
\* snapshot holds no descriptor that an earlier visit of the same pass has
\* dropped; and a socket to the server is closed as soon as it is no longer
\* watched, except when the server closed early.
WatchedExactlyWhileOpen ==
  /\ \A f \in Watched : f = LISTEN \/ (role[f] # "free" /\ f <= maxfd)
  /\ master_read \cap master_write = {}
  /\ read_fds \subseteq master_read
  /\ write_fds \subseteq master_write
  /\ \A s \in Servers : s \in Watched \/ CutShort(s)

\* Whatever order descriptors become ready in and whichever numbers are reused,
\* general_recv never meets a status it exits on ("wrong status"), general_send
\* never meets one it silently ignores, and send_SERVER's assertion on
\* http_reply_p holds.
StatusMatchesInterest ==
  /\ \A f \in master_read \ {LISTEN} :
       buf_pts[f].status = IF role[f] = "browser" THEN "RAW" ELSE "FROM_SERVER"
  /\ \A f \in master_write :
       IF role[f] = "browser"
       THEN buf_pts[f].status = "TO_SERVER" /\ buf_pts[f].http_reply_p # NONE
       ELSE buf_pts[f].status = "TO_BROWSER"

\* A browser gets at most one reply, and it is the reply to the request it made
\* or the refusal of that request, never what another connection asked for,
\* although the proxy knows its peers by descriptor numbers alone.
ReplyRouting ==
  \A c \in Conns :
    \/ got[c] = <<>>
    \/ got[c] = <<MSG503(c)>>
    \/ \E r \in Request : r.conn = c /\ got[c] = <<r>>

\* A line of the log tells of one request: the bitrate is the one its chunk was
\* asked at, and the client is the one that asked (or unknown, when accept
\* stored no address), although the fields are copied from buf to buf and the
\* line is written when another descriptor is visited.
LogFaithful ==
  \A i \in DOMAIN log : /\ log[i].bitrate = log[i].chunk_name.rate
                       /\ log[i].client_ip \in {log[i].chunk_name.conn, NONE}

\* A request the proxy has received whole is in the hands of a descriptor that
\* select is asked about, its own until it is forwarded and then its server's, or
\* it is answered, or its browser has left.  One way to forget it is excused, and
\* only there: a server that closes early (proxy.c:187), whose descriptor leaves
\* master_read with the request unanswered and the browser untold.
NoRequestForgotten ==
  \A b \in Browsers :
    buf_pts[b].http_reply_p # NONE =>
      \/ b \in master_write
      \/ \E s \in Servers : buf_pts[s].sock2browser = b /\ (s \in Watched \/ CutShort(s))
      \/ got[client[b]] # <<>>
      \/ conn[client[b]] = "closed"

\* Why these hold: the inductive invariant of the loop, part by part.

\* The sets of descriptors.
InvSets ==
  /\ LISTEN \in master_read
  /\ LISTEN \notin master_write
  /\ master_read \cap master_write = {}
  /\ read_fds \subseteq master_read
  /\ write_fds \subseteq master_write
  /\ \A f \in Watched : f <= maxfd

\* A descriptor in a set is open, and its status is the one general_recv or
\* general_send expects.
InvInterest ==
  /\ \A f \in master_read \ {LISTEN} :
       \/ role[f] = "browser" /\ buf_pts[f].status = "RAW"
       \/ role[f] = "server" /\ buf_pts[f].status = "FROM_SERVER"
  /\ \A f \in master_write :
       \/ /\ role[f] = "browser"
          /\ buf_pts[f].status = "TO_SERVER"
          /\ buf_pts[f].http_reply_p # NONE
       \/ role[f] = "server" /\ buf_pts[f].status = "TO_BROWSER"

\* A connection has one descriptor, and its buf speaks of that connection.
InvBrowsers ==
  \A b \in Browsers :
    /\ client[b] \in Conns
    /\ conn[client[b]] \in {"open", "closed"}
    /\ buf_pts[b].client_ip \in {client[b], NONE}
    /\ buf_pts[b].http_reply_p = NONE \/ buf_pts[b].http_reply_p.conn = client[b]
    /\ buf_pts[b].http_reply_p # NONE =>
         buf_pts[b].status = "TO_SERVER" /\ buf_pts[b].sock2browser = b
    /\ buf_pts[b].http_reply_p = NONE => buf_pts[b].status = "RAW"
    /\ buf_pts[b].chunk_name = NONE \/
         /\ buf_pts[b].chunk_name = buf_pts[b].http_reply_p
         /\ buf_pts[b].bitrate = buf_pts[b].chunk_name.rate
    /\ \A a \in Browsers : client[a] = client[b] => a = b

\* A server descriptor works for one browser descriptor, whose request it has
\* got whole or in part, and carries the facts to be logged about it.
InvServers ==
  \A s \in Servers :
    LET b == buf_pts[s].sock2browser
    IN  /\ b \in Browsers
        /\ b \notin Watched
        /\ buf_pts[b].http_reply_p # NONE
        /\ asked[s] \in {NONE, buf_pts[b].http_reply_p}
        /\ asked[s] = NONE => inbox[s] \notin {"part", "rest"}
        /\ asked[s] = NONE => buf_pts[s].status = "FROM_SERVER"
        /\ buf_pts[s].client_ip = buf_pts[b].client_ip
        /\ buf_pts[s].chunk_name = buf_pts[b].chunk_name
        /\ buf_pts[s].bitrate = buf_pts[b].bitrate
        /\ \A t \in Servers : buf_pts[t].sock2browser = b => t = s

\* What a browser got answers its own request, which nobody works on any more.
InvGot ==
  \A c \in Conns :
    got[c] # <<>> =>
      \E b \in Browsers :
        /\ client[b] = c
        /\ \/ got[c] = <<MSG503(c)>>
           \/ buf_pts[b].http_reply_p # NONE /\ got[c] = <<buf_pts[b].http_reply_p>>
        /\ up => /\ b \notin Watched
                 /\ \A s \in Servers : buf_pts[s].sock2browser # b

\* Nothing is left over for the next socket to get a descriptor.
InvFree == \A f \in Fd : role[f] = "free" => inbox[f] = "empty"

\* The inductive invariant: in every reachable state, and kept by every step
\* from any state that satisfies it.
Inv ==
  /\ TypeOK
  /\ InvSets
  /\ InvInterest
  /\ InvBrowsers
  /\ InvServers
  /\ InvGot
  /\ InvFree
  /\ LogFaithful

\* Where nothing ends the process, and as long as no peer stalls for ever, neither
\* the web server nor any browser, a browser whose request has arrived whole gets
\* its reply, unless the server closes before the reply is whole.  The premise is
\* needed: a browser that stops reading its reply stops all others for as long
\* (http_parser.c:125), the loop has one thread.
EveryRequestAnswered ==
  (\A p \in Peers : []<>(p \notin stalled)) =>
    \A c \in Conns :
      (\E b \in Browsers : client[b] = c /\ inbox[b] = "rest") ~>
        \/ got[c] # <<>>
        \/ \E s \in Servers : CutShort(s) /\ client[buf_pts[s].sock2browser] = c

\* general_send returns 0 only when it has finished sending: a server the loop
\* reads from has been sent the whole request.  (It does not hold.)
FinishedSending ==
  \A s \in Servers : asked[s] = buf_pts[buf_pts[s].sock2browser].http_reply_p
=============================================================================
