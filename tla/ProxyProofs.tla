---------------------------- MODULE ProxyProofs ----------------------------
(***************************************************************************)
(* Theorems about the event loop of src/proxy.c, for any number of         *)
(* connections and descriptors, any manifest and any set of faults.        *)
(***************************************************************************)
EXTENDS Proxy, TLAPS

(***************************************************************************)
(* Type correctness.                                                       *)
(***************************************************************************)

\* Descriptors, and the listening socket among them, are naturals.
LEMMA FdType == Fd \subseteq Nat /\ LISTEN \in Nat /\ LISTEN \notin Fd
  BY ProxyAssumption DEF ProxyAssumption, Fd, LISTEN

\* The values written into bufs.
LEMMA InitBufType == ASSUME NEW addr \in Conns \cup {NONE} PROVE InitBuf(addr) \in Buf
  BY DEF InitBuf, Buf, Status

LEMMA ServerBufType == ASSUME NEW b \in Buf PROVE ServerBuf(b) \in Buf
  BY DEF ServerBuf, TransferInfo, InitBuf, Buf, Status

LEMMA TakeRequestType ==
  ASSUME NEW b \in Buf, NEW f \in Fd, NEW req \in Request
  PROVE  TakeRequest(b, f, req) \in Buf
<1>1. req.rate \in Rates \cup {0}
  BY DEF Request
<1>2. (IF NoChunk(req) THEN NONE ELSE req) \in Request \cup {NONE}
  OBVIOUS
<1> QED
  BY <1>1, <1>2, ZenonT(60) DEF TakeRequest, Buf, Status

LEMMA Sock2serverType ==
  ASSUME NEW b \in Buf, NEW f \in Fd
  PROVE  [b EXCEPT !.sock2server = f] \in Buf
  BY DEF Buf

LEMMA StatusType ==
  ASSUME NEW b \in Buf
  PROVE  [b EXCEPT !.status = "TO_BROWSER"] \in Buf
  BY DEF Buf, Status

\* The lines written for a buf of the right type.
LEMMA LineType ==
  ASSUME NEW b \in Buf, b.chunk_name # NONE
  PROVE  [bitrate |-> b.bitrate, client_ip |-> b.client_ip, chunk_name |-> b.chunk_name]
           \in Line
  BY DEF Buf, Line

LEMMA LogLineType ==
  ASSUME TypeOK, NEW f \in Fd, LogLine(buf_pts[f]) PROVE log' \in Seq(Line)
<1>1. log \in Seq(Line) /\ buf_pts[f] \in Buf
  BY DEF TypeOK
<1>2. CASE buf_pts[f].chunk_name = NONE
  BY <1>1, <1>2 DEF LogLine
<1>3. CASE buf_pts[f].chunk_name # NONE
  BY <1>1, <1>3, LineType DEF LogLine
<1> QED
  BY <1>2, <1>3

\* A request given to send() is one, whichever buf it comes from.
LEMMA SentType ==
  ASSUME TypeOK, NEW f \in Fd,
         sent' = [sent EXCEPT ![buf_pts[f].http_reply_p.conn] =
                    Append(@, buf_pts[f].http_reply_p)],
         buf_pts[f].http_reply_p # NONE
  PROVE  sent' \in [Conns -> Seq(Request)]
<1>1. sent \in [Conns -> Seq(Request)] /\ buf_pts[f] \in Buf
  BY DEF TypeOK
<1> DEFINE r == buf_pts[f].http_reply_p
<1>2. r \in Request /\ r.conn \in Conns
  BY <1>1 DEF Buf, Request
<1>3. sent' = [sent EXCEPT ![r.conn] = Append(@, r)]
  OBVIOUS
<1> HIDE DEF r
<1>4. Append(sent[r.conn], r) \in Seq(Request)
  BY <1>1, <1>2
<1> QED
  BY <1>1, <1>2, <1>3, <1>4

LEMMA InitType == Init => TypeOK
<1> SUFFICES ASSUME Init PROVE TypeOK
  OBVIOUS
<1>1. buf_pts \in [Fd -> Buf]
  BY InitBufType DEF Init
<1>2. got \in [Conns -> Seq([conn : Conns, rate : Rates \cup {0, -1}] \cup {NONE})]
  BY DEF Init
<1>3. sent \in [Conns -> Seq(Request)] /\ log \in Seq(Line)
  BY DEF Init
<1> QED
  BY <1>1, <1>2, <1>3 DEF Init, TypeOK

\* The descriptors general_recv reads a request from are browsers'.
LEMMA RecvBrowIsBrowser ==
  ASSUME TypeOK, InvSets, InvInterest, NEW f \in Fd, AtRecvBrow(f)
  PROVE  f \in Browsers
  BY FdType DEF TypeOK, InvSets, InvInterest, AtRecvBrow, AtRead, Browsers

\* The descriptors general_send sends a request from have one.
LEMMA WritesRequest ==
  ASSUME TypeOK, InvSets, InvInterest, NEW f \in Fd, AtSendServer(f)
  PROVE  buf_pts[f].http_reply_p # NONE
  BY DEF InvSets, InvInterest, AtSendServer, AtWrite

LEMMA NextType == ASSUME Inv, [Next]_vars PROVE TypeOK'
<1>0. TypeOK /\ InvSets /\ InvInterest /\ InvBrowsers
  BY DEF Inv
<1> USE <1>0 DEF TypeOK
<1>1. CASE Select
  BY <1>1 DEF Select, world
<1>2. CASE Accept
  <2>1. PICK c \in Conns, f \in Fd, addr \in Conns \cup {NONE} :
          /\ conn' = [conn EXCEPT ![c] = "open"]
          /\ role' = [role EXCEPT ![f] = "browser"]
          /\ client' = [client EXCEPT ![f] = c]
          /\ StartReading(f)
          /\ buf_pts' = [buf_pts EXCEPT ![f] = InitBuf(addr)]
          /\ maxfd' = Larger(f, maxfd)
    BY <1>2 DEF Accept, CliAddr
  <2>2. buf_pts' \in [Fd -> Buf]
    BY <2>1, InitBufType
  <2>3. maxfd' \in Fd \cup {LISTEN}
    BY <2>1 DEF Larger
  <2> QED
    BY <1>2, <2>1, <2>2, <2>3 DEF Accept, DoneRead, StartReading
<1>3. CASE AcceptFails
  BY <1>3 DEF AcceptFails, Exit, world
<1>4. ASSUME NEW f \in Fd, Visit(f) PROVE TypeOK'
  <2>1. CASE RecvPart(f)
    BY <2>1 DEF RecvPart, DoneRead
  <2>2. CASE RecvNothing(f)
    BY <2>2 DEF RecvNothing, DoneRead, StopReading
  <2>3. CASE RecvFlood(f)
    <3>1. got' \in [Conns -> Seq([conn : Conns, rate : Rates \cup {0, -1}] \cup {NONE})]
      BY <2>3 DEF RecvFlood, MSG503
    <3> QED
      BY <2>3, <3>1 DEF RecvFlood, DoneRead, StopReading
  <2>4. CASE RecvFloodFails(f)
    BY <2>4 DEF RecvFloodFails, Exit, world
  <2>5. CASE RecvRequest(f)
    <3>1. PICK rate \in Rates \cup {0} :
            buf_pts' = [buf_pts EXCEPT
              ![f] = TakeRequest(buf_pts[f], f, [conn |-> client[f], rate |-> rate])]
      BY <2>5 DEF RecvRequest
    <3>2. client[f] \in Conns
      BY <2>5, RecvBrowIsBrowser DEF RecvRequest, InvBrowsers
    <3>3. buf_pts' \in [Fd -> Buf]
      BY <3>1, <3>2, TakeRequestType DEF Request
    <3> QED
      BY <2>5, <3>3 DEF RecvRequest, DoneRead, TurnToWriting, StopReading
  <2>6. CASE RecvReply(f)
    <3>1. buf_pts' \in [Fd -> Buf]
      <4>1. [buf_pts[f] EXCEPT !.status = "TO_BROWSER"] \in Buf
        BY StatusType
      <4> QED
        BY <2>6, <4>1 DEF RecvReply, ReplyReceived
    <3> QED
      BY <2>6, <3>1 DEF RecvReply, DoneRead, TurnToWriting, StopReading
  <2>7. CASE RecvReplyFails(f)
    BY <2>7 DEF RecvReplyFails, Exit, world
  <2>8. CASE SendServer(f)
    <3>1. PICK s \in Fd, part \in Sent(buf_pts[f].http_reply_p) :
            /\ OpenServer(f, s)
            /\ asked' = [asked EXCEPT ![s] = part]
            /\ maxfd' = Larger(s, maxfd)
            /\ buf_pts' = [buf_pts EXCEPT
                 ![f].sock2server = s, ![s] = ServerBuf(buf_pts[f])]
            /\ StartReading(s)
      BY <2>8 DEF SendServer
    <3>2. asked' \in [Fd -> Request \cup {NONE}]
      BY <3>1 DEF Sent, Buf
    <3>3. buf_pts' \in [Fd -> Buf]
      <4>1. ServerBuf(buf_pts[f]) \in Buf
        BY ServerBufType
      <4>2. [buf_pts[f] EXCEPT !.sock2server = s] \in Buf
        BY Sock2serverType, buf_pts[f] \in Buf
      <4> QED
        BY <3>1, <4>1, <4>2
    <3>4. maxfd' \in Fd \cup {LISTEN}
      BY <3>1 DEF Larger
    <3>5. sent' \in [Conns -> Seq(Request)]
      <4>1. buf_pts[f].http_reply_p # NONE
        BY <2>8, WritesRequest DEF SendServer
      <4> QED
        BY <2>8, <4>1, SentType DEF SendServer
    <3> QED
      BY <2>8, <3>1, <3>2, <3>3, <3>4, <3>5
      DEF SendServer, DoneWrite, StartReading, StopWriting, OpenServer
  <2>9. CASE SendServerFails(f)
    BY <2>9 DEF SendServerFails, Exit, world
  <2>10. ASSUME Relay(f)
         PROVE  got' \in [Conns -> Seq([conn : Conns, rate : Rates \cup {0, -1}] \cup {NONE})]
    <3>1. asked[f] \in [conn : Conns, rate : Rates \cup {0, -1}] \cup {NONE}
      BY DEF Request
    <3> QED
      BY <2>10, <3>1 DEF Relay
  <2>11. CASE SendBrowser(f)
    <3>1. log' \in Seq(Line)
      BY <2>11, LogLineType DEF SendBrowser
    <3> QED
      BY <2>10, <2>11, <3>1 DEF SendBrowser, Close, DoneWrite, StopWriting
  <2>12. CASE LoggingAborts(f)
    BY <2>10, <2>12 DEF LoggingAborts
  <2>13. CASE SendBrowserFails(f)
    BY <2>13 DEF SendBrowserFails, Exit, world
  <2> QED
    BY <1>4, <2>1, <2>2, <2>3, <2>4, <2>5, <2>6, <2>7, <2>8, <2>9, <2>11,
       <2>12, <2>13 DEF Visit
<1>5. CASE WorldStep
  <2>1. ASSUME NEW c \in Conns, Connect(c) \/ Hangup(c) PROVE TypeOK'
    BY <2>1 DEF Connect, Hangup, loop
  <2>5. ASSUME NEW p \in Peers, Stall(p) \/ Resume(p) PROVE TypeOK'
    BY <2>5 DEF Stall, Resume, loop
  <2>2. ASSUME NEW f \in Fd, BrowserSends(f) PROVE TypeOK'
    BY <2>2 DEF BrowserSends, loop
  <2>3. ASSUME NEW f \in Fd, ServerSends(f) \/ ServerStops(f) PROVE TypeOK'
    BY <2>3 DEF ServerSends, ServerStops, loop
  <2> QED
    BY <1>5, <2>1, <2>2, <2>3, <2>5 DEF WorldStep
<1>6. CASE UNCHANGED vars
  BY <1>6 DEF vars, world, loop
<1> QED
  BY <1>1, <1>2, <1>3, <1>4, <1>5, <1>6 DEF Next, ProxyStep


(***************************************************************************)
(* The inductive invariant.  Every lemma below is one step of the loop or  *)
(* of its environment; the parts of Inv it cannot disturb come first.      *)
(***************************************************************************)

USE DEF Browsers, Servers, Watched

\* A descriptor that is in use and the lowest free one differ, and the latter
\* is not watched.
LEMMA FreeIsUnused ==
  ASSUME Inv, NEW f \in Fd, LowestFree(f)
  PROVE  f \notin Browsers /\ f \notin Servers /\ f \notin Watched /\ f # LISTEN
  BY FdType DEF Inv, InvInterest, LowestFree

\* What general_recv and general_send may be called with.
LEMMA RecvServerIsServer ==
  ASSUME Inv, NEW f \in Fd, AtRecvServer(f)
  PROVE  f \in Servers /\ f \in master_read /\ f \notin master_write
  BY FdType DEF Inv, InvSets, InvInterest, AtRecvServer, AtRead

LEMMA SendServerIsBrowser ==
  ASSUME Inv, NEW f \in Fd, AtSendServer(f)
  PROVE  /\ f \in Browsers /\ f \in master_write /\ f \notin master_read
         /\ buf_pts[f].http_reply_p # NONE
         /\ buf_pts[f].sock2browser = f
         /\ \A s \in Servers : buf_pts[s].sock2browser # f
<1>1. f \in Browsers /\ f \in master_write /\ f \notin master_read /\ buf_pts[f].http_reply_p # NONE
  BY FdType DEF Inv, InvSets, InvInterest, AtSendServer, AtWrite
<1> QED
  BY <1>1 DEF Inv, InvBrowsers, InvServers

LEMMA SendBrowserIsServer ==
  ASSUME Inv, NEW f \in Fd, AtSendBrowser(f)
  PROVE  /\ f \in Servers /\ f \in master_write /\ f \notin master_read
         /\ asked[f] # NONE
<1>1. f \in Servers /\ f \in master_write /\ f \notin master_read
  BY FdType DEF Inv, InvSets, InvInterest, AtSendBrowser, AtWrite
<1> QED
  BY <1>1 DEF Inv, InvServers, AtSendBrowser

LEMMA AcceptKeeps == ASSUME Inv, TypeOK', Accept PROVE Inv'
<1>1. PICK c \in Conns, f \in Fd, addr \in Conns \cup {NONE} :
        /\ conn[c] = "pending"
        /\ LowestFree(f)
        /\ conn' = [conn EXCEPT ![c] = "open"]
        /\ role' = [role EXCEPT ![f] = "browser"]
        /\ client' = [client EXCEPT ![f] = c]
        /\ StartReading(f)
        /\ addr \in {c, NONE}
        /\ buf_pts' = [buf_pts EXCEPT ![f] = InitBuf(addr)]
        /\ maxfd' = Larger(f, maxfd)
  BY DEF Accept, CliAddr
<1>2. /\ UNCHANGED <<got, asked, inbox, up, master_write, log, write_fds>>
      /\ read_fds' = read_fds \ {LISTEN}
      /\ master_read' = master_read \cup {f}
  BY <1>1 DEF Accept, DoneRead, StartReading
<1>3. f \notin Browsers /\ f \notin Servers /\ f \notin Watched /\ f # LISTEN
  BY <1>1, FreeIsUnused
<1>4. Browsers' = Browsers \cup {f} /\ Servers' = Servers
  BY <1>1, <1>3 DEF Inv, TypeOK
<1>5. \A g \in Fd \ {f} : role'[g] = role[g] /\ client'[g] = client[g] /\ buf_pts'[g] = buf_pts[g]
  BY <1>1 DEF Inv, TypeOK
<1>6. role'[f] = "browser" /\ client'[f] = c /\ buf_pts'[f] = InitBuf(addr)
  BY <1>1 DEF Inv, TypeOK
<1>7. \A b \in Browsers : client[b] # c
  BY <1>1 DEF Inv, InvBrowsers
<1>8. got[c] = <<>>
  BY <1>7 DEF Inv, InvGot
<1>9. InvSets'
  <2>1. \A g \in Watched' : g <= maxfd'
    BY <1>1, <1>2, FdType DEF Inv, InvSets, TypeOK, Larger
  <2> QED
    BY <1>2, <1>3, <2>1 DEF Inv, InvSets
<1>10. InvInterest'
  <2>1. buf_pts'[f].status = "RAW"
    BY <1>6 DEF InitBuf
  <2>2. \A g \in Watched' \ {LISTEN, f} : g \in Fd \ {f}
    BY <1>2 DEF Inv, TypeOK
  <2>3. LISTEN \notin master_write /\ f \notin master_write'
    BY <1>2, <1>3 DEF Inv, InvSets
  <2> QED
    BY <1>2, <1>5, <1>6, <2>1, <2>2, <2>3 DEF Inv, InvInterest
<1>11. InvBrowsers'
  <2>1. ASSUME NEW b \in Browsers PROVE conn'[client[b]] \in {"open", "closed"}
    BY <1>1, <1>7 DEF Inv, InvBrowsers, TypeOK
  <2>2. conn'[c] = "open"
    BY <1>1 DEF Inv, TypeOK
  <2>3. /\ buf_pts'[f].client_ip = addr /\ buf_pts'[f].http_reply_p = NONE
        /\ buf_pts'[f].status = "RAW" /\ buf_pts'[f].chunk_name = NONE
    BY <1>6 DEF InitBuf
  <2>4. SUFFICES ASSUME NEW b \in Browsers' PROVE InvBrowsers!(b)'
    BY DEF InvBrowsers
  <2>5. CASE b = f
    BY <1>1, <1>3, <1>4, <1>5, <1>6, <1>7, <2>2, <2>3, <2>5
  <2>6. CASE b # f
    BY <1>3, <1>4, <1>5, <1>6, <1>7, <2>1, <2>6 DEF Inv, InvBrowsers
  <2> QED
    BY <2>5, <2>6
<1>12. InvServers'
  BY <1>2, <1>3, <1>4, <1>5 DEF Inv, InvServers
<1>13. InvGot'
  BY <1>2, <1>3, <1>4, <1>5, <1>8 DEF Inv, InvGot
<1>14. LogFaithful'
  BY <1>2 DEF Inv, LogFaithful
<1>15. InvFree'
  BY <1>2, <1>5, <1>6 DEF Inv, InvFree
<1> QED
  BY <1>9, <1>10, <1>11, <1>12, <1>13, <1>14, <1>15 DEF Inv

LEMMA RecvFloodKeeps == ASSUME Inv, TypeOK', NEW f \in Fd, RecvFlood(f) PROVE Inv'
<1> USE DEF RecvFlood
<1>1. f \in Browsers /\ f \in read_fds /\ f \in master_read /\ f # LISTEN
  BY RecvBrowIsBrowser, FdType DEF Inv, InvSets, AtRecvBrow, AtRead
<1>2. InvSets'
  <2>1. /\ UNCHANGED <<maxfd, master_write, write_fds>>
        /\ master_read' = master_read \ {f} /\ read_fds' = read_fds \ {f}
    BY DEF DoneRead, StopReading
  <2> QED
    BY <1>1, <2>1 DEF Inv, InvSets
<1>3. InvInterest'
  BY DEF Inv, InvInterest, StopReading
<1>4. InvBrowsers'
  BY DEF Inv, InvBrowsers
<1>5. InvServers'
  BY <1>1 DEF Inv, TypeOK, InvServers, StopReading
<1>6. InvGot'
  <2>1. f \notin Watched'
    BY <1>1 DEF Inv, InvSets, StopReading
  <2>2. \A s \in Servers : buf_pts[s].sock2browser # f
    BY <1>1 DEF Inv, InvServers
  <2>3. up
    BY DEF AtRecvBrow, AtRead, Visiting
  <2>4. got[client[f]] = <<>>
    BY <1>1, <2>3 DEF Inv, InvGot, InvBrowsers
  <2>5. client[f] \in Conns
    BY <1>1 DEF Inv, InvBrowsers
  <2>6. got'[client[f]] = <<>> \/ got'[client[f]] = <<MSG503(client[f])>>
    <3>1. got'[client[f]] \in {<<>>, Append(<<>>, MSG503(client[f]))}
      BY <2>4, <2>5
    <3>2. Append(<<>>, MSG503(client[f])) = <<MSG503(client[f])>>
      OBVIOUS
    <3> QED
      BY <3>1, <3>2
  <2>7. \A c \in Conns \ {client[f]} : got'[c] = got[c]
    BY DEF Inv, TypeOK
  <2>8. Watched' \subseteq Watched
    BY DEF StopReading
  <2>9. SUFFICES ASSUME NEW c \in Conns PROVE InvGot!(c)'
    BY DEF InvGot
  <2>10. CASE c = client[f]
    BY <1>1, <2>1, <2>2, <2>6, <2>10, ZenonT(60) DEF MSG503
  <2>11. CASE c # client[f]
    BY <2>7, <2>8, <2>11 DEF Inv, InvGot
  <2> QED
    BY <2>10, <2>11
<1>7. LogFaithful'
  BY DEF Inv, LogFaithful
<1>8. InvFree'
  BY <1>1 DEF Inv, TypeOK, InvFree
<1> QED
  BY <1>2, <1>3, <1>4, <1>5, <1>6, <1>7, <1>8 DEF Inv

LEMMA RecvRequestKeeps == ASSUME Inv, TypeOK', NEW f \in Fd, RecvRequest(f) PROVE Inv'
<1>1. /\ UNCHANGED <<conn, got, role, client, asked, up, maxfd, log, write_fds>>
      /\ read_fds' = read_fds \ {f}
      /\ master_read' = master_read \ {f}
      /\ master_write' = master_write \cup {f}
      /\ inbox' = [inbox EXCEPT ![f] = "spent"]
  BY DEF RecvRequest, DoneRead, TurnToWriting, StopReading
<1>2. /\ f \in Browsers /\ f \in master_read /\ f # LISTEN /\ f \notin master_write
      /\ client[f] \in Conns /\ up
      /\ buf_pts[f].http_reply_p = NONE
  <2>1. f \in Browsers /\ f \in master_read /\ f # LISTEN /\ f \notin master_write
    BY RecvBrowIsBrowser, FdType DEF Inv, InvSets, RecvRequest, AtRecvBrow, AtRead
  <2> QED
    BY <2>1 DEF Inv, InvBrowsers, RecvRequest, AtRecvBrow, AtRead, Visiting
<1>3. PICK req \in Request :
        /\ req.conn = client[f]
        /\ buf_pts' = [buf_pts EXCEPT ![f] = TakeRequest(buf_pts[f], f, req)]
  <2>1. PICK rate \in Rates \cup {0} :
          buf_pts' = [buf_pts EXCEPT
            ![f] = TakeRequest(buf_pts[f], f, [conn |-> client[f], rate |-> rate])]
    BY DEF RecvRequest
  <2>2. [conn |-> client[f], rate |-> rate] \in Request
    BY <1>2 DEF Request
  <2> QED
    BY <2>1, <2>2
<1>4. req # NONE
  BY ProxyAssumption DEF ProxyAssumption, Request
<1>5. \A g \in Fd \ {f} : buf_pts'[g] = buf_pts[g]
  BY <1>3 DEF Inv, TypeOK
<1>6. /\ buf_pts'[f].status = "TO_SERVER"
      /\ buf_pts'[f].sock2browser = f
      /\ buf_pts'[f].http_reply_p = req
      /\ buf_pts'[f].bitrate = req.rate
      /\ buf_pts'[f].chunk_name \in {NONE, req}
      /\ buf_pts'[f].client_ip = buf_pts[f].client_ip
  <2>1. buf_pts[f] \in Buf /\ buf_pts'[f] = TakeRequest(buf_pts[f], f, req)
    BY <1>3 DEF Inv, TypeOK
  <2> QED
    BY <2>1 DEF TakeRequest, Buf
<1>7. InvSets'
  BY <1>1, <1>2 DEF Inv, InvSets
<1>8. InvInterest'
  <2>1. \A g \in Watched \ {LISTEN} : g \in Fd
    BY DEF Inv, TypeOK
  <2>2. LISTEN \notin master_write'
    BY <1>1, <1>2 DEF Inv, InvSets
  <2> QED
    BY <1>1, <1>2, <1>4, <1>5, <1>6, <2>1, <2>2 DEF Inv, InvInterest
<1>9. InvBrowsers'
  <2>1. SUFFICES ASSUME NEW b \in Browsers' PROVE InvBrowsers!(b)'
    BY DEF InvBrowsers
  <2>2. b \in Browsers
    BY <1>1
  <2>3. CASE b = f
    BY <1>1, <1>2, <1>3, <1>4, <1>6, <2>2, <2>3 DEF Inv, InvBrowsers
  <2>4. CASE b # f
    BY <1>1, <1>5, <2>2, <2>4 DEF Inv, InvBrowsers
  <2> QED
    BY <2>3, <2>4
<1>10. InvServers'
  <2>1. \A s \in Servers : s # f /\ buf_pts[s].sock2browser # f
    BY <1>2 DEF Inv, InvServers
  <2>2. \A s \in Servers : inbox'[s] = inbox[s] /\ buf_pts'[s] = buf_pts[s]
    BY <1>1, <1>5, <2>1 DEF Inv, TypeOK
  <2>3. SUFFICES ASSUME NEW s \in Servers PROVE InvServers!(s)'
    BY <1>1 DEF InvServers
  <2>4. buf_pts[s].sock2browser \in Fd \ {f}
    BY <2>1 DEF Inv, InvServers
  <2> QED
    BY <1>1, <1>5, <2>1, <2>2, <2>4 DEF Inv, InvServers
<1>11. InvGot'
  <2>1. got[client[f]] = <<>>
    BY <1>2 DEF Inv, InvGot, InvBrowsers
  <2>2. \A s \in Servers : s # f /\ buf_pts'[s] = buf_pts[s]
    BY <1>2, <1>5
  <2>3. SUFFICES ASSUME NEW c \in Conns, got[c] # <<>> PROVE InvGot!(c)'
    BY <1>1 DEF InvGot
  <2>4. PICK b \in Browsers :
          /\ client[b] = c
          /\ \/ got[c] = <<MSG503(c)>>
             \/ buf_pts[b].http_reply_p # NONE /\ got[c] = <<buf_pts[b].http_reply_p>>
          /\ b \notin Watched
          /\ \A s \in Servers : buf_pts[s].sock2browser # b
    BY <1>2, <2>3 DEF Inv, InvGot
  <2>5. b # f
    BY <1>2, <2>4
  <2> QED
    BY <1>1, <1>5, <2>2, <2>4, <2>5 DEF MSG503
<1>12. LogFaithful'
  BY <1>1 DEF Inv, LogFaithful
<1>13. InvFree'
  BY <1>1, <1>2 DEF Inv, TypeOK, InvFree
<1> QED
  BY <1>7, <1>8, <1>9, <1>10, <1>11, <1>12, <1>13 DEF Inv

LEMMA RecvReplyKeeps == ASSUME Inv, TypeOK', NEW f \in Fd, RecvReply(f) PROVE Inv'
<1>1. /\ UNCHANGED <<conn, got, role, client, asked, up, maxfd, log, write_fds>>
      /\ read_fds' = read_fds \ {f}
      /\ master_read' = master_read \ {f}
      /\ master_write' = master_write \cup {f}
      /\ inbox' = [inbox EXCEPT ![f] = "spent"]
      /\ inbox[f] = "rest"
      /\ buf_pts' = [buf_pts EXCEPT ![f].status = "TO_BROWSER"]
  BY DEF RecvReply, ReplyReceived, DoneRead, TurnToWriting, StopReading
<1>2. f \in Servers /\ f \in master_read /\ f \notin master_write
  BY RecvServerIsServer DEF RecvReply
<1>3. f # LISTEN
  BY FdType
<1>4. \A g \in Fd \ {f} : buf_pts'[g] = buf_pts[g]
  BY <1>1 DEF Inv, TypeOK
<1>5. /\ buf_pts'[f].status = "TO_BROWSER"
      /\ buf_pts'[f].sock2browser = buf_pts[f].sock2browser
      /\ buf_pts'[f].client_ip = buf_pts[f].client_ip
      /\ buf_pts'[f].chunk_name = buf_pts[f].chunk_name
      /\ buf_pts'[f].bitrate = buf_pts[f].bitrate
  <2>1. buf_pts[f] \in Buf /\ buf_pts'[f] = [buf_pts[f] EXCEPT !.status = "TO_BROWSER"]
    BY <1>1 DEF Inv, TypeOK
  <2> QED
    BY <2>1 DEF Buf
<1>6. InvSets'
  BY <1>1, <1>2, <1>3 DEF Inv, InvSets
<1>7. InvInterest'
  <2>1. \A g \in Watched \ {LISTEN} : g \in Fd
    BY DEF Inv, TypeOK
  <2>2. LISTEN \notin master_write'
    BY <1>1, <1>3 DEF Inv, InvSets
  <2> QED
    BY <1>1, <1>2, <1>4, <1>5, <2>1, <2>2 DEF Inv, InvInterest
<1>8. InvBrowsers'
  <2>1. \A b \in Browsers : b # f
    BY <1>2
  <2> QED
    BY <1>1, <1>4, <2>1 DEF Inv, InvBrowsers
<1>9. \A s \in Servers : buf_pts'[s].sock2browser = buf_pts[s].sock2browser
  BY <1>4, <1>5
<1>10. InvServers'
  <2>1. SUFFICES ASSUME NEW s \in Servers PROVE InvServers!(s)'
    BY <1>1 DEF InvServers
  <2>2. /\ buf_pts[s].sock2browser \in Browsers
        /\ buf_pts[s].sock2browser \notin Watched
        /\ buf_pts[s].sock2browser # f
    BY <1>2 DEF Inv, InvServers
  <2>3. asked[f] # NONE
    BY <1>1, <1>2 DEF Inv, InvServers
  <2>4. s # f => inbox'[s] = inbox[s]
    BY <1>1 DEF Inv, TypeOK
  <2> QED
    BY <1>1, <1>4, <1>5, <1>9, <2>2, <2>3, <2>4 DEF Inv, InvServers
<1>11. InvGot'
  <2>1. SUFFICES ASSUME NEW c \in Conns, got[c] # <<>> PROVE InvGot!(c)'
    BY <1>1 DEF InvGot
  <2>2. PICK b \in Browsers :
          /\ client[b] = c
          /\ \/ got[c] = <<MSG503(c)>>
             \/ buf_pts[b].http_reply_p # NONE /\ got[c] = <<buf_pts[b].http_reply_p>>
          /\ up => /\ b \notin Watched
                   /\ \A s \in Servers : buf_pts[s].sock2browser # b
    BY <2>1 DEF Inv, InvGot
  <2>3. b # f
    BY <1>2, <2>2
  <2> QED
    BY <1>1, <1>4, <1>9, <2>2, <2>3 DEF MSG503
<1>12. LogFaithful'
  BY <1>1 DEF Inv, LogFaithful
<1>13. InvFree'
  BY <1>1, <1>2 DEF Inv, TypeOK, InvFree
<1> QED
  BY <1>6, <1>7, <1>8, <1>10, <1>11, <1>12, <1>13 DEF Inv

LEMMA SendServerKeeps == ASSUME Inv, TypeOK', NEW f \in Fd, SendServer(f) PROVE Inv'
<1>1. PICK s \in Fd, part \in Sent(buf_pts[f].http_reply_p) :
        /\ LowestFree(s)
        /\ role' = [role EXCEPT ![s] = "server"]
        /\ asked' = [asked EXCEPT ![s] = part]
        /\ maxfd' = Larger(s, maxfd)
        /\ buf_pts' = [buf_pts EXCEPT
             ![f].sock2server = s, ![s] = ServerBuf(buf_pts[f])]
        /\ master_read' = master_read \cup {s}
  BY DEF SendServer, OpenServer, StartReading
<1>2. /\ UNCHANGED <<conn, got, client, inbox, up, log, read_fds>>
      /\ write_fds' = write_fds \ {f}
      /\ master_write' = master_write \ {f}
  BY DEF SendServer, DoneWrite, StopWriting
<1>3. /\ f \in Browsers /\ f \in master_write /\ f \notin master_read /\ up
      /\ buf_pts[f].http_reply_p # NONE
      /\ buf_pts[f].sock2browser = f
      /\ \A t \in Servers : buf_pts[t].sock2browser # f
  BY SendServerIsBrowser DEF SendServer, AtSendServer, AtWrite, Visiting
<1>4. /\ s \notin Browsers /\ s \notin Servers /\ s \notin Watched
      /\ s # LISTEN /\ s # f
  BY <1>1, <1>3, FreeIsUnused
<1>5. Browsers' = Browsers /\ Servers' = Servers \cup {s}
  BY <1>1, <1>4 DEF Inv, TypeOK
<1>6. \A g \in Fd \ {s} : role'[g] = role[g] /\ asked'[g] = asked[g]
  BY <1>1 DEF Inv, TypeOK
<1>7. role'[s] = "server" /\ asked'[s] = part /\ part \in {NONE, buf_pts[f].http_reply_p}
  BY <1>1 DEF Inv, TypeOK, Sent
<1>8. \A g \in Fd \ {f, s} : buf_pts'[g] = buf_pts[g]
  BY <1>1 DEF Inv, TypeOK
<1>9. \A g \in Fd \ {s} :
        /\ buf_pts'[g].status = buf_pts[g].status
        /\ buf_pts'[g].sock2browser = buf_pts[g].sock2browser
        /\ buf_pts'[g].http_reply_p = buf_pts[g].http_reply_p
        /\ buf_pts'[g].bitrate = buf_pts[g].bitrate
        /\ buf_pts'[g].chunk_name = buf_pts[g].chunk_name
        /\ buf_pts'[g].client_ip = buf_pts[g].client_ip
  <2>1. buf_pts[f] \in Buf /\ buf_pts'[f] = [buf_pts[f] EXCEPT !.sock2server = s]
    <3>1. buf_pts \in [Fd -> Buf]
      BY DEF Inv, TypeOK
    <3> QED
      BY <1>1, <1>4, <3>1
  <2>2. /\ buf_pts'[f].status = buf_pts[f].status
        /\ buf_pts'[f].sock2browser = buf_pts[f].sock2browser
        /\ buf_pts'[f].http_reply_p = buf_pts[f].http_reply_p
        /\ buf_pts'[f].bitrate = buf_pts[f].bitrate
        /\ buf_pts'[f].chunk_name = buf_pts[f].chunk_name
        /\ buf_pts'[f].client_ip = buf_pts[f].client_ip
    BY <2>1 DEF Buf
  <2> QED
    BY <1>8, <2>2
<1>10. /\ buf_pts'[s].status = "FROM_SERVER"
       /\ buf_pts'[s].sock2browser = f
       /\ buf_pts'[s].bitrate = buf_pts[f].bitrate
       /\ buf_pts'[s].chunk_name = buf_pts[f].chunk_name
       /\ buf_pts'[s].client_ip = buf_pts[f].client_ip
  <2>1. buf_pts'[s] = ServerBuf(buf_pts[f])
    BY <1>1, <1>4 DEF Inv, TypeOK
  <2> QED
    BY <1>3, <2>1 DEF ServerBuf, TransferInfo, InitBuf
<1>11. InvSets'
  <2>1. \A g \in Watched' : g <= maxfd'
    <3>1. maxfd \in Nat /\ s \in Nat /\ \A g \in Watched : g \in Nat /\ g <= maxfd
      BY FdType DEF Inv, InvSets, TypeOK
    <3>2. maxfd' \in Nat /\ maxfd <= maxfd' /\ s <= maxfd'
      BY <1>1, <3>1 DEF Larger
    <3>3. \A g \in Watched' : g \in Watched \/ g = s
      BY <1>1, <1>2
    <3> QED
      BY <3>1, <3>2, <3>3
  <2> QED
    BY <1>1, <1>2, <1>3, <1>4, <2>1 DEF Inv, InvSets
<1>12. InvInterest'
  <2>1. \A g \in Watched' \ {LISTEN, s} : g \in Fd \ {s}
    BY <1>1, <1>2 DEF Inv, TypeOK
  <2>2. LISTEN \notin master_write' /\ s \notin master_write'
    BY <1>2, <1>4 DEF Inv, InvSets
  <2>3. \A g \in Watched' \ {LISTEN, s} : g \in Fd \ {s} /\ (g \in master_read' => g \in master_read)
    BY <1>1, <2>1
  <2>4. ASSUME NEW g \in master_read' \ {LISTEN}
        PROVE  \/ role'[g] = "browser" /\ buf_pts'[g].status = "RAW"
               \/ role'[g] = "server" /\ buf_pts'[g].status = "FROM_SERVER"
    <3>1. CASE g = s
      BY <1>7, <1>10, <3>1
    <3>2. CASE g # s
      BY <1>6, <1>9, <2>3, <3>2 DEF Inv, InvInterest
    <3> QED
      BY <3>1, <3>2
  <2>5. ASSUME NEW g \in master_write'
        PROVE  \/ /\ role'[g] = "browser"
                  /\ buf_pts'[g].status = "TO_SERVER"
                  /\ buf_pts'[g].http_reply_p # NONE
               \/ role'[g] = "server" /\ buf_pts'[g].status = "TO_BROWSER"
    <3>1. g \in Fd \ {s} /\ g \in master_write
      BY <1>2, <2>1, <2>2
    <3> QED
      BY <1>6, <1>9, <3>1 DEF Inv, InvInterest
  <2> QED
    BY <2>4, <2>5 DEF InvInterest
<1>13. InvBrowsers'
  <2>1. SUFFICES ASSUME NEW b \in Browsers PROVE InvBrowsers!(b)'
    BY <1>5 DEF InvBrowsers
  <2> QED
    BY <1>2, <1>4, <1>5, <1>9 DEF Inv, InvBrowsers
<1>14. InvServers'
  <2>1. SUFFICES ASSUME NEW t \in Servers' PROVE InvServers!(t)'
    BY DEF InvServers
  <2>2. CASE t = s
    <3>1. f \notin Watched'
      BY <1>1, <1>2, <1>3, <1>4
    <3>2. \A u \in Servers : u # s /\ buf_pts'[u].sock2browser # f
      BY <1>3, <1>4, <1>9
    <3>3. inbox[s] \notin {"part", "rest"}
      BY <1>1 DEF Inv, InvFree, LowestFree
    <3> QED
      BY <1>2, <1>3, <1>4, <1>5, <1>7, <1>9, <1>10, <2>2, <3>1, <3>2, <3>3
  <2>3. CASE t # s
    <3>1. t \in Servers /\ buf_pts[t].sock2browser \in Browsers
          /\ buf_pts[t].sock2browser \notin Watched
      BY <1>5, <2>3 DEF Inv, InvServers
    <3>2. buf_pts'[t].sock2browser = buf_pts[t].sock2browser
      BY <1>9, <2>3
    <3>3. buf_pts[t].sock2browser # s /\ buf_pts[t].sock2browser # f
      BY <1>3, <1>4, <3>1
    <3>4. buf_pts[t].sock2browser \notin Watched'
      BY <1>1, <1>2, <3>1, <3>3
    <3>5. \A u \in Servers' : buf_pts'[u].sock2browser = buf_pts[t].sock2browser => u = t
      BY <1>5, <1>9, <1>10, <3>1, <3>3 DEF Inv, InvServers
    <3> QED
      BY <1>2, <1>5, <1>6, <1>9, <2>3, <3>1, <3>2, <3>3, <3>4, <3>5 DEF Inv, InvServers
  <2> QED
    BY <2>2, <2>3
<1>15. InvGot'
  <2>1. SUFFICES ASSUME NEW c \in Conns, got[c] # <<>> PROVE InvGot!(c)'
    BY <1>2 DEF InvGot
  <2>2. PICK b \in Browsers :
          /\ client[b] = c
          /\ \/ got[c] = <<MSG503(c)>>
             \/ buf_pts[b].http_reply_p # NONE /\ got[c] = <<buf_pts[b].http_reply_p>>
          /\ b \notin Watched
          /\ \A t \in Servers : buf_pts[t].sock2browser # b
    BY <1>3, <2>1 DEF Inv, InvGot
  <2>3. b # f /\ b # s
    BY <1>3, <1>4, <2>2
  <2>4. b \notin Watched'
    BY <1>1, <1>2, <2>2, <2>3
  <2>5. \A t \in Servers' : buf_pts'[t].sock2browser # b
    BY <1>5, <1>9, <1>10, <2>2, <2>3
  <2> QED
    BY <1>2, <1>5, <1>9, <2>2, <2>3, <2>4, <2>5 DEF MSG503
<1>16. LogFaithful'
  BY <1>2 DEF Inv, LogFaithful
<1>17. InvFree'
  BY <1>2, <1>6, <1>7 DEF Inv, InvFree
<1> QED
  BY <1>11, <1>12, <1>13, <1>14, <1>15, <1>16, <1>17 DEF Inv

\* What Relay does to one connection.
LEMMA RelayOne ==
  ASSUME Inv, NEW f \in Fd, AtSendBrowser(f), Relay(f)
  PROVE  /\ client[buf_pts[f].sock2browser] \in Conns
         /\ got[client[buf_pts[f].sock2browser]] = <<>>
         /\ got'[client[buf_pts[f].sock2browser]] \in
              {<<>>, <<buf_pts[buf_pts[f].sock2browser].http_reply_p>>}
         /\ \A c \in Conns \ {client[buf_pts[f].sock2browser]} : got'[c] = got[c]
<1> DEFINE b == buf_pts[f].sock2browser
<1> HIDE DEF b
<1>1. f \in Servers /\ asked[f] # NONE /\ up
  BY SendBrowserIsServer DEF AtSendBrowser, AtWrite, Visiting
<1>2. b \in Browsers /\ asked[f] = buf_pts[b].http_reply_p
  BY <1>1 DEF Inv, InvServers, b
<1>3. client[b] \in Conns
  BY <1>2 DEF Inv, InvBrowsers
<1>4. got[client[b]] = <<>>
  <2>1. SUFFICES ASSUME got[client[b]] # <<>> PROVE FALSE
    OBVIOUS
  <2>2. PICK a \in Browsers : client[a] = client[b] /\ \A s \in Servers : buf_pts[s].sock2browser # a
    BY <1>1, <1>3, <2>1 DEF Inv, InvGot
  <2>3. a = b
    BY <1>2, <2>2 DEF Inv, InvBrowsers
  <2> QED
    BY <1>1, <2>2, <2>3 DEF b
<1>5. got' = [c \in Conns |->
                IF role[b] = "browser" /\ client[b] = c /\ conn[c] = "open"
                THEN Append(got[c], asked[f]) ELSE got[c]]
  BY DEF Relay, b
<1>6. got'[client[b]] \in {<<>>, <<buf_pts[b].http_reply_p>>}
  <2>1. Append(<<>>, asked[f]) = <<asked[f]>>
    OBVIOUS
  <2> QED
    BY <1>2, <1>3, <1>4, <1>5, <2>1
<1>7. \A c \in Conns \ {client[b]} : got'[c] = got[c]
  BY <1>5
<1> QED
  BY <1>3, <1>4, <1>6, <1>7 DEF b

LEMMA SendBrowserKeeps == ASSUME Inv, TypeOK', NEW f \in Fd, SendBrowser(f) PROVE Inv'
<1> DEFINE b == buf_pts[f].sock2browser
<1> HIDE DEF b
<1>1. /\ UNCHANGED <<conn, client, up, master_read, maxfd, buf_pts, read_fds>>
      /\ write_fds' = write_fds \ {f}
      /\ master_write' = master_write \ {f}
      /\ role' = [role EXCEPT ![f] = "free"]
      /\ asked' = [asked EXCEPT ![f] = NONE]
      /\ inbox' = [inbox EXCEPT ![f] = "empty"]
  BY DEF SendBrowser, DoneWrite, StopWriting, Close
<1>2. f \in Servers /\ f \in master_write /\ f \notin master_read
  BY SendBrowserIsServer DEF SendBrowser
<1>3. /\ b \in Browsers /\ b \notin Watched /\ buf_pts[b].http_reply_p # NONE
      /\ \A s \in Servers : buf_pts[s].sock2browser = b => s = f
  BY <1>2 DEF Inv, InvServers, b
<1>4. Browsers' = Browsers /\ Servers' = Servers \ {f}
  BY <1>1, <1>2 DEF Inv, TypeOK
<1>5. \A g \in Fd \ {f} : role'[g] = role[g] /\ asked'[g] = asked[g] /\ inbox'[g] = inbox[g]
  BY <1>1 DEF Inv, TypeOK
<1>6. Watched' \subseteq Watched /\ f \notin Watched'
  BY <1>1, <1>2
<1>7. InvSets'
  BY <1>1, <1>6 DEF Inv, InvSets
<1>8. InvInterest'
  <2>1. \A g \in Watched' \ {LISTEN} : g \in Fd \ {f}
    BY <1>1, <1>6 DEF Inv, TypeOK
  <2>2. LISTEN \notin master_write
    BY DEF Inv, InvSets
  <2> QED
    BY <1>1, <1>5, <2>1, <2>2 DEF Inv, InvInterest
<1>9. InvBrowsers'
  BY <1>1, <1>4 DEF Inv, InvBrowsers
<1>10. InvServers'
  <2>1. SUFFICES ASSUME NEW s \in Servers \ {f} PROVE InvServers!(s)'
    BY <1>4 DEF InvServers
  <2> QED
    BY <1>1, <1>4, <1>5, <1>6 DEF Inv, InvServers
<1>11. InvGot'
  <2>1. SUFFICES ASSUME NEW c \in Conns, got'[c] # <<>> PROVE InvGot!(c)'
    BY DEF InvGot
  <2>2. /\ client[b] \in Conns
        /\ got'[client[b]] \in {<<>>, <<buf_pts[b].http_reply_p>>}
        /\ \A d \in Conns \ {client[b]} : got'[d] = got[d]
    BY RelayOne DEF SendBrowser, b
  <2>3. CASE c = client[b]
    BY <1>1, <1>3, <1>4, <1>6, <2>1, <2>2, <2>3
  <2>4. CASE c # client[b]
    BY <1>1, <1>4, <1>6, <2>1, <2>2, <2>4 DEF Inv, InvGot, MSG503
  <2> QED
    BY <2>3, <2>4
<1>12. LogFaithful'
  <2>1. /\ buf_pts[f].chunk_name = buf_pts[b].chunk_name
        /\ buf_pts[f].client_ip = buf_pts[b].client_ip
        /\ buf_pts[f].bitrate = buf_pts[b].bitrate
    BY <1>2 DEF Inv, InvServers, b
  <2>2. buf_pts[f].chunk_name # NONE =>
          /\ buf_pts[f].bitrate = buf_pts[f].chunk_name.rate
          /\ buf_pts[f].client_ip \in {buf_pts[f].chunk_name.conn, NONE}
    BY <1>3, <2>1 DEF Inv, InvBrowsers
  <2>3. LogLine(buf_pts[f]) /\ LogFaithful /\ TypeOK
    BY DEF SendBrowser, Inv
  <2>4. CASE buf_pts[f].chunk_name = NONE
    BY <2>3, <2>4 DEF LogLine, LogFaithful
  <2>5. CASE buf_pts[f].chunk_name # NONE
    <3> DEFINE line == [ bitrate    |-> buf_pts[f].bitrate,
                         client_ip  |-> buf_pts[f].client_ip,
                         chunk_name |-> buf_pts[f].chunk_name ]
    <3>1. log' = Append(log, line) /\ log \in Seq(Line)
      BY <2>3, <2>5 DEF LogLine, TypeOK
    <3>2. line.bitrate = line.chunk_name.rate /\ line.client_ip \in {line.chunk_name.conn, NONE}
      BY <2>2, <2>5
    <3> HIDE DEF line
    <3>3. \A i \in DOMAIN log' : (i \in DOMAIN log /\ log'[i] = log[i]) \/ log'[i] = line
      BY <3>1
    <3> QED
      BY <2>3, <3>2, <3>3 DEF LogFaithful
  <2> QED
    BY <2>4, <2>5
<1>13. InvFree'
  BY <1>1, <1>5 DEF Inv, TypeOK, InvFree
<1> QED
  BY <1>7, <1>8, <1>9, <1>10, <1>11, <1>12, <1>13 DEF Inv

LEMMA LoggingAbortsKeeps == ASSUME Inv, TypeOK', NEW f \in Fd, LoggingAborts(f) PROVE Inv'
<1> DEFINE b == buf_pts[f].sock2browser
<1> HIDE DEF b
<1>1. /\ UNCHANGED <<conn, role, client, asked, inbox, master_read, master_write,
                     read_fds, write_fds, maxfd, buf_pts, log>>
      /\ up' = FALSE
  BY DEF LoggingAborts
<1>2. b \in Browsers /\ buf_pts[b].http_reply_p # NONE
  BY SendBrowserIsServer DEF LoggingAborts, Inv, InvServers, b
<1>3. InvSets' /\ InvInterest' /\ InvBrowsers' /\ InvServers' /\ LogFaithful' /\ InvFree'
  BY <1>1 DEF Inv, InvSets, InvInterest, InvBrowsers, InvServers, LogFaithful, InvFree
<1>4. InvGot'
  <2>1. SUFFICES ASSUME NEW c \in Conns, got'[c] # <<>> PROVE InvGot!(c)'
    BY DEF InvGot
  <2>2. /\ client[b] \in Conns
        /\ got'[client[b]] \in {<<>>, <<buf_pts[b].http_reply_p>>}
        /\ \A d \in Conns \ {client[b]} : got'[d] = got[d]
    BY RelayOne DEF LoggingAborts, b
  <2>3. CASE c = client[b]
    BY <1>1, <1>2, <2>1, <2>2, <2>3
  <2>4. CASE c # client[b]
    BY <1>1, <2>1, <2>2, <2>4 DEF Inv, InvGot, MSG503
  <2> QED
    BY <2>3, <2>4
<1> QED
  BY <1>3, <1>4 DEF Inv

\* A request or a reply that is not whole, or an end of file, changes what is
\* read from next and nothing else.
LEMMA RecvLittleKeeps ==
  ASSUME Inv, TypeOK', NEW f \in Fd, RecvPart(f) \/ RecvNothing(f)
  PROVE  Inv'
<1>1. /\ UNCHANGED <<conn, got, role, client, asked, up, master_write, maxfd,
                     buf_pts, log, write_fds>>
      /\ read_fds' = read_fds \ {f}
      /\ master_read' \in {master_read, master_read \ {f}}
      /\ inbox' \in {[inbox EXCEPT ![f] = "empty"], [inbox EXCEPT ![f] = "spent"]}
  BY DEF RecvPart, RecvNothing, DoneRead, StopReading
<1>2. role[f] # "free" /\ f # LISTEN
  BY FdType, RecvBrowIsBrowser, RecvServerIsServer DEF RecvPart, RecvNothing, Inv
<1>3. Watched' \subseteq Watched
  BY <1>1
<1>4. InvSets'
  <2>1. read_fds' \subseteq master_read'
    BY <1>1 DEF Inv, InvSets
  <2> QED
    BY <1>1, <1>2, <1>3, <2>1 DEF Inv, InvSets
<1>5. InvInterest'
  BY <1>1 DEF Inv, InvInterest
<1>6. InvBrowsers' /\ LogFaithful'
  BY <1>1 DEF Inv, InvBrowsers, LogFaithful
<1>7. InvServers'
  <2>1. \A s \in Servers : inbox'[s] \in {inbox[s], "empty", "spent"}
    BY <1>1 DEF Inv, TypeOK
  <2>2. SUFFICES ASSUME NEW s \in Servers PROVE InvServers!(s)'
    BY <1>1 DEF InvServers
  <2> QED
    BY <1>1, <1>3, <2>1 DEF Inv, InvServers
<1>8. InvGot'
  <2>1. SUFFICES ASSUME NEW c \in Conns, got[c] # <<>> PROVE InvGot!(c)'
    BY <1>1 DEF InvGot
  <2> QED
    BY <1>1, <1>3, <2>1 DEF Inv, InvGot, MSG503
<1>9. InvFree'
  BY <1>1, <1>2 DEF Inv, TypeOK, InvFree
<1> QED
  BY <1>4, <1>5, <1>6, <1>7, <1>8, <1>9 DEF Inv

LEMMA SelectKeeps == ASSUME Inv, TypeOK', Select PROVE Inv'
<1>1. /\ UNCHANGED <<conn, got, role, client, asked, inbox, up, master_read,
                     master_write, maxfd, buf_pts, log>>
      /\ read_fds' \subseteq master_read /\ write_fds' \subseteq master_write
  BY DEF Select, world
<1>2. InvSets'
  BY <1>1 DEF Inv, InvSets
<1>3. InvInterest' /\ InvBrowsers' /\ InvFree'
  BY <1>1 DEF Inv, InvInterest, InvBrowsers, InvFree
<1>4. InvServers' /\ LogFaithful'
  BY <1>1 DEF Inv, InvServers, LogFaithful
<1>5. InvGot'
  <2>1. SUFFICES ASSUME NEW c \in Conns, got[c] # <<>> PROVE InvGot!(c)'
    BY <1>1 DEF InvGot
  <2> QED
    BY <1>1, <2>1 DEF Inv, InvGot, MSG503
<1> QED
  BY <1>2, <1>3, <1>4, <1>5 DEF Inv

\* A process that has ended owes nothing to the clause of InvGot about up.
LEMMA ExitKeeps == ASSUME Inv, TypeOK', Exit PROVE Inv'
<1>1. /\ UNCHANGED <<conn, got, role, client, asked, inbox, read_fds, write_fds,
                     master_read, master_write, maxfd, buf_pts, log>>
      /\ up' = FALSE
  BY DEF Exit, world
<1>2. InvSets' /\ InvInterest' /\ InvBrowsers' /\ InvFree'
  BY <1>1 DEF Inv, InvSets, InvInterest, InvBrowsers, InvFree
<1>3. InvServers' /\ LogFaithful'
  BY <1>1 DEF Inv, InvServers, LogFaithful
<1>4. InvGot'
  <2>1. SUFFICES ASSUME NEW c \in Conns, got[c] # <<>> PROVE InvGot!(c)'
    BY <1>1 DEF InvGot
  <2> QED
    BY <1>1, <2>1 DEF Inv, InvGot, MSG503
<1> QED
  BY <1>2, <1>3, <1>4 DEF Inv

\* The environment moves conn and inbox only.
LEMMA WorldKeeps == ASSUME Inv, TypeOK', WorldStep PROVE Inv'
<1>1. UNCHANGED <<got, role, client, asked, loop, buf_pts, log>>
  BY DEF WorldStep, Connect, Hangup, Stall, Resume, BrowserSends, ServerSends, ServerStops
<1>2. \A c \in Conns : conn[c] \in {"open", "closed"} => conn'[c] \in {"open", "closed"}
  <2>1. ASSUME NEW d \in Conns, Connect(d) \/ Hangup(d)
        PROVE  \A c \in Conns : conn[c] \in {"open", "closed"} => conn'[c] \in {"open", "closed"}
    BY <2>1 DEF Inv, TypeOK, Connect, Hangup
  <2> QED
    BY <2>1 DEF WorldStep, Stall, Resume, BrowserSends, ServerSends, ServerStops
<1> DEFINE Fed(f) ==
      \/ role[f] = "browser"
      \/ role[f] = "server" /\ (asked[f] # NONE \/ inbox'[f] \in {"eof", "error"})
<1>3. \A f \in Fd : inbox'[f] # inbox[f] => Fed(f)
  <2>1. ASSUME NEW g \in Fd, BrowserSends(g) PROVE \A f \in Fd : inbox'[f] # inbox[f] => Fed(f)
    BY <2>1 DEF Inv, TypeOK, BrowserSends
  <2>2. ASSUME NEW g \in Fd, ServerSends(g) \/ ServerStops(g) PROVE \A f \in Fd : inbox'[f] # inbox[f] => Fed(f)
    BY <2>2 DEF Inv, TypeOK, ServerSends, ServerStops
  <2> QED
    BY <2>1, <2>2 DEF WorldStep, Connect, Hangup, Stall, Resume
<1>4. InvSets' /\ InvInterest'
  BY <1>1 DEF Inv, InvSets, InvInterest, loop
<1>5. InvBrowsers' /\ LogFaithful'
  BY <1>1, <1>2 DEF Inv, InvBrowsers, LogFaithful
<1>6. InvServers'
  <2>1. SUFFICES ASSUME NEW s \in Servers PROVE InvServers!(s)'
    BY <1>1 DEF InvServers
  <2> QED
    BY <1>1, <1>3, <2>1 DEF Inv, InvServers, loop
<1>7. InvGot'
  <2>1. SUFFICES ASSUME NEW c \in Conns, got[c] # <<>> PROVE InvGot!(c)'
    BY <1>1 DEF InvGot
  <2> QED
    BY <1>1, <2>1 DEF Inv, InvGot, MSG503, loop
<1>8. InvFree'
  BY <1>1, <1>3 DEF Inv, InvFree
<1> QED
  BY <1>4, <1>5, <1>6, <1>7, <1>8 DEF Inv

LEMMA VisitKeeps == ASSUME Inv, TypeOK', NEW f \in Fd, Visit(f) PROVE Inv'
<1>1. CASE RecvPart(f) \/ RecvNothing(f)
  BY <1>1, RecvLittleKeeps
<1>2. CASE RecvFlood(f)
  BY <1>2, RecvFloodKeeps
<1>3. CASE RecvRequest(f)
  BY <1>3, RecvRequestKeeps
<1>4. CASE RecvReply(f)
  BY <1>4, RecvReplyKeeps
<1>5. CASE SendServer(f)
  BY <1>5, SendServerKeeps
<1>6. CASE SendBrowser(f)
  BY <1>6, SendBrowserKeeps
<1>7. CASE LoggingAborts(f)
  BY <1>7, LoggingAbortsKeeps
<1>8. CASE Exit
  BY <1>8, ExitKeeps
<1> QED
  BY <1>1, <1>2, <1>3, <1>4, <1>5, <1>6, <1>7, <1>8
  DEF Visit, RecvFloodFails, RecvReplyFails, SendServerFails, SendBrowserFails

LEMMA InitInv == Init => Inv
<1> SUFFICES ASSUME Init PROVE Inv
  OBVIOUS
<1>1. Browsers = {} /\ Servers = {}
  BY DEF Init
<1>2. InvSets
  BY FdType DEF Init, InvSets
<1>3. InvInterest /\ InvBrowsers /\ InvServers /\ InvGot /\ InvFree /\ LogFaithful
  BY <1>1 DEF Init, InvInterest, InvBrowsers, InvServers, InvGot, InvFree, LogFaithful
<1> QED
  BY <1>2, <1>3, InitType DEF Inv

LEMMA NextInv == ASSUME Inv, [Next]_vars PROVE Inv'
<1>1. TypeOK'
  BY NextType
<1>2. CASE Select
  BY <1>1, <1>2, SelectKeeps
<1>3. CASE Accept
  BY <1>1, <1>3, AcceptKeeps
<1>4. CASE AcceptFails
  BY <1>1, <1>4, ExitKeeps DEF AcceptFails
<1>5. ASSUME NEW f \in Fd, Visit(f) PROVE Inv'
  BY <1>1, <1>5, VisitKeeps
<1>6. CASE WorldStep
  BY <1>1, <1>6, WorldKeeps
<1>7. CASE UNCHANGED vars
  <2>1. InvSets' /\ InvInterest' /\ InvBrowsers' /\ InvServers'
    BY <1>7 DEF vars, world, loop, Inv, InvSets, InvInterest, InvBrowsers, InvServers
  <2>2. InvGot' /\ InvFree' /\ LogFaithful'
    BY <1>7 DEF vars, world, loop, Inv, InvGot, InvFree, LogFaithful, MSG503
  <2> QED
    BY <1>1, <2>1, <2>2 DEF Inv
<1> QED
  BY <1>2, <1>3, <1>4, <1>5, <1>6, <1>7 DEF Next, ProxyStep

(***************************************************************************)
(* The theorems.                                                           *)
(***************************************************************************)

\* The invariant holds in every reachable state of the loop.
THEOREM Invariant == Spec => []Inv
  BY InitInv, NextInv, PTL DEF Spec

\* Every variable keeps its type whatever the loop and its environment do.
THEOREM TypeCorrect == Spec => []TypeOK
<1>1. Inv => TypeOK
  BY DEF Inv
<1> QED
  BY <1>1, Invariant, PTL

\* A browser gets at most one reply, and it is the reply to its own request,
\* however descriptors are reused.
THEOREM RepliesAreRouted == Spec => []ReplyRouting
<1>1. Inv => ReplyRouting
  <2>1. SUFFICES ASSUME Inv, NEW c \in Conns, got[c] # <<>> PROVE ReplyRouting!(c)
    BY DEF ReplyRouting
  <2>2. PICK b \in Browsers :
          /\ client[b] = c
          /\ \/ got[c] = <<MSG503(c)>>
             \/ buf_pts[b].http_reply_p # NONE /\ got[c] = <<buf_pts[b].http_reply_p>>
    BY <2>1 DEF Inv, InvGot
  <2>3. buf_pts[b].http_reply_p # NONE =>
          buf_pts[b].http_reply_p \in Request /\ buf_pts[b].http_reply_p.conn = c
    <3>1. buf_pts[b] \in Buf
      <4>1. b \in Fd /\ buf_pts \in [Fd -> Buf]
        BY <2>1 DEF Inv, TypeOK
      <4> QED
        BY <4>1
    <3>2. buf_pts[b].http_reply_p \in Request \cup {NONE}
      BY <3>1 DEF Buf
    <3>3. buf_pts[b].http_reply_p = NONE \/ buf_pts[b].http_reply_p.conn = client[b]
      BY <2>1 DEF Inv, InvBrowsers
    <3> QED
      BY <2>2, <3>2, <3>3
  <2> QED
    BY <2>2, <2>3
<1> QED
  BY <1>1, Invariant, PTL

\* general_recv and general_send never meet a status they are not written for.
THEOREM StatusIsExpected == Spec => []StatusMatchesInterest
<1>1. Inv => StatusMatchesInterest
  BY DEF Inv, InvInterest, StatusMatchesInterest
<1> QED
  BY <1>1, Invariant, PTL

\* Every line of the log tells of one request, of the client that made it and
\* of the bitrate it was sent on with.
THEOREM LogIsFaithful == Spec => []LogFaithful
<1>1. Inv => LogFaithful
  BY DEF Inv
<1> QED
  BY <1>1, Invariant, PTL

(***************************************************************************)
(* That the loop watches what it has open, and works on every request it   *)
(* has taken: two more invariants, each inductive together with Inv.       *)
(***************************************************************************)

\* A socket to the server is watched until it is closed, unless the server has
\* closed early.
ServersServed == \A s \in Servers : s \in Watched \/ CutShort(s)

(***************************************************************************)
(* Watched descriptors.                                                    *)
(***************************************************************************)

\* Accept opens a browser's descriptor and touches no server's.
LEMMA AcceptServes == ASSUME Inv, ServersServed, Accept PROVE ServersServed'
<1>1. PICK f \in Fd, addr \in Conns \cup {NONE} :
        /\ LowestFree(f)
        /\ role' = [role EXCEPT ![f] = "browser"]
        /\ StartReading(f)
        /\ buf_pts' = [buf_pts EXCEPT ![f] = InitBuf(addr)]
  BY ZenonT(60) DEF Accept, CliAddr
<1>2. UNCHANGED <<inbox, master_write>> /\ TypeOK
  BY DEF Accept, Inv
<1>3. ASSUME NEW s \in Servers' PROVE (s \in Watched \/ CutShort(s))'
  <2>1. s # f /\ s \in Servers
    BY <1>1, <1>2 DEF Servers, TypeOK
  <2>2. s \in Watched \/ CutShort(s)
    BY <2>1 DEF ServersServed
  <2> QED
    BY <1>1, <1>2, <2>1, <2>2 DEF Watched, CutShort, StartReading, TypeOK, Servers
<1> QED
  BY <1>3 DEF ServersServed

\* A visit that reads takes a server's descriptor from master_read only to
\* write its reply, or because the server has closed.
LEMMA RecvServes ==
  ASSUME Inv, ServersServed, NEW f \in Fd,
         \/ RecvPart(f) \/ RecvNothing(f) \/ RecvFlood(f)
         \/ RecvRequest(f) \/ RecvReply(f)
  PROVE  ServersServed'
<1>1. TypeOK /\ UNCHANGED role
  BY DEF Inv, RecvPart, RecvNothing, RecvFlood, RecvRequest, RecvReply
<1>2. AtRecvBrow(f) => f \in Browsers
  BY RecvBrowIsBrowser DEF Inv
<1>3. AtRecvServer(f) => f \in Servers /\ f \in master_read /\ buf_pts[f].status = "FROM_SERVER"
  BY RecvServerIsServer DEF AtRecvServer
<1>4. Browsers \cap Servers = {}
  BY DEF Browsers, Servers
<1> SUFFICES ASSUME NEW s \in Servers' PROVE (s \in Watched \/ CutShort(s))'
  BY DEF ServersServed
<1>5. s \in Servers /\ s \in Fd
  BY <1>1 DEF Servers
<1>6. s \in Watched \/ CutShort(s)
  BY <1>5 DEF ServersServed
<1>7. CASE s # f
  BY <1>1, <1>5, <1>6, <1>7
  DEF RecvPart, RecvNothing, RecvFlood, RecvRequest, RecvReply, Watched, CutShort,
      StopReading, TurnToWriting, ReplyReceived, TypeOK
<1>8. CASE s = f
  <2>1. AtRecvServer(f) /\ ~AtRecvBrow(f)
    BY <1>2, <1>4, <1>5, <1>8
    DEF RecvPart, RecvNothing, RecvFlood, RecvRequest, RecvReply
  <2>2. CASE RecvPart(f)
    BY <1>3, <1>8, <2>1, <2>2 DEF RecvPart, Watched
  <2>3. CASE RecvNothing(f)
    BY <1>1, <1>3, <1>8, <2>1, <2>3 DEF RecvNothing, CutShort, TypeOK
  <2>4. CASE RecvReply(f)
    BY <1>8, <2>4 DEF RecvReply, TurnToWriting, Watched
  <2> QED
    BY <2>1, <2>2, <2>3, <2>4 DEF RecvFlood, RecvRequest
<1> QED
  BY <1>7, <1>8

\* The descriptor a request goes out on is read from next.
LEMMA SendServerServes ==
  ASSUME Inv, ServersServed, NEW f \in Fd, SendServer(f) PROVE ServersServed'
<1>1. PICK n \in Fd :
        /\ LowestFree(n)
        /\ OpenServer(f, n)
        /\ buf_pts' = [buf_pts EXCEPT ![f].sock2server = n, ![n] = ServerBuf(buf_pts[f])]
        /\ StartReading(n)
  BY DEF SendServer
<1>2. TypeOK /\ UNCHANGED inbox /\ StopWriting(f)
  BY DEF Inv, SendServer
<1>3. f \in Browsers
  BY SendServerIsBrowser DEF SendServer
<1> SUFFICES ASSUME NEW s \in Servers' PROVE (s \in Watched \/ CutShort(s))'
  BY DEF ServersServed
<1>4. CASE s = n
  BY <1>1, <1>4 DEF StartReading, Watched
<1>5. CASE s # n
  <2>1. s \in Servers /\ s # f
    BY <1>1, <1>2, <1>3, <1>5 DEF Servers, Browsers, OpenServer, TypeOK
  <2>2. s \in Watched \/ CutShort(s)
    BY <2>1 DEF ServersServed
  <2>3. buf_pts'[s] = buf_pts[s]
    BY <1>1, <1>2, <1>5, <2>1 DEF TypeOK, Servers
  <2> QED
    BY <1>1, <1>2, <2>1, <2>2, <2>3 DEF StartReading, StopWriting, Watched, CutShort
<1> QED
  BY <1>4, <1>5

\* The descriptor that leaves master_write after a reply is closed.
LEMMA SendBrowserServes ==
  ASSUME Inv, ServersServed, NEW f \in Fd, SendBrowser(f) PROVE ServersServed'
<1>1. TypeOK /\ UNCHANGED <<master_read, buf_pts>> /\ StopWriting(f) /\ Close(f)
  BY DEF Inv, SendBrowser
<1> SUFFICES ASSUME NEW s \in Servers' PROVE (s \in Watched \/ CutShort(s))'
  BY DEF ServersServed
<1>2. s \in Servers /\ s # f
  BY <1>1 DEF Close, Servers, TypeOK
<1>3. s \in Watched \/ CutShort(s)
  BY <1>2 DEF ServersServed
<1> QED
  BY <1>1, <1>2, <1>3 DEF Close, StopWriting, Watched, CutShort, TypeOK, Servers

\* The world only ever adds to what is waiting on a descriptor.
LEMMA WorldServes == ASSUME Inv, ServersServed, WorldStep PROVE ServersServed'
<1>1. TypeOK /\ UNCHANGED <<role, master_read, master_write, buf_pts>>
  BY DEF Inv, WorldStep, Connect, Hangup, Stall, Resume, BrowserSends, ServerSends, ServerStops, loop
<1>2. ASSUME NEW s \in Fd, inbox[s] = "spent" PROVE inbox'[s] = "spent"
  BY <1>1, <1>2
  DEF WorldStep, Connect, Hangup, Stall, Resume, BrowserSends, ServerSends, ServerStops, TypeOK
<1> QED
  BY <1>1, <1>2 DEF ServersServed, Servers, Watched, CutShort

LEMMA NextServes == ASSUME Inv, ServersServed, [Next]_vars PROVE ServersServed'
<1>1. ASSUME UNCHANGED <<role, master_read, master_write, buf_pts, inbox>>
      PROVE ServersServed'
  BY <1>1 DEF ServersServed, Servers, Watched, CutShort
<1>2. CASE UNCHANGED vars
  BY <1>1, <1>2 DEF vars, world, loop
<1>3. CASE Select \/ AcceptFails
  BY <1>1, <1>3 DEF Select, AcceptFails, Exit, world
<1>4. ASSUME NEW f \in Fd, Visit(f) PROVE ServersServed'
  <2>1. CASE \/ RecvPart(f) \/ RecvNothing(f) \/ RecvFlood(f)
             \/ RecvRequest(f) \/ RecvReply(f)
    BY <2>1, RecvServes
  <2>2. CASE \/ RecvFloodFails(f) \/ RecvReplyFails(f) \/ SendServerFails(f)
             \/ LoggingAborts(f) \/ SendBrowserFails(f)
    BY <1>1, <2>2 DEF RecvFloodFails, RecvReplyFails, SendServerFails, LoggingAborts,
                      SendBrowserFails, Exit, world
  <2> QED
    BY <1>4, <2>1, <2>2, SendServerServes, SendBrowserServes DEF Visit
<1> QED
  BY <1>2, <1>3, <1>4, AcceptServes, WorldServes DEF Next, ProxyStep

\* The descriptors given to select are open, in one set, and within maxfd; the
\* snapshot is within the sets; and a server's socket is watched until closed.
THEOREM WatchedWhileOpen == Spec => []WatchedExactlyWhileOpen
<1>1. Init => ServersServed
  BY DEF Init, ServersServed, Servers
<1>2. Inv /\ ServersServed /\ [Next]_vars => ServersServed'
  BY NextServes
<1>3. Inv /\ ServersServed => WatchedExactlyWhileOpen
  BY DEF Inv, InvSets, InvInterest, ServersServed, WatchedExactlyWhileOpen, Watched
<1> QED
  BY <1>1, <1>2, <1>3, Invariant, PTL DEF Spec

(***************************************************************************)
(* Requests.                                                               *)
(***************************************************************************)

\* Somebody works on the request of browser descriptor b, or need not any more.
CaredFor(b) ==
  \/ b \in master_write
  \/ \E s \in Servers : buf_pts[s].sock2browser = b
  \/ got[client[b]] # <<>>
  \/ conn[client[b]] = "closed"

RequestsHeld == \A b \in Browsers : buf_pts[b].http_reply_p # NONE => CaredFor(b)

LEMMA AppendNotEmpty ==
  ASSUME NEW S, NEW s \in Seq(S), NEW x \in S PROVE Append(s, x) # <<>>
<1>1. Len(Append(s, x)) = Len(s) + 1 /\ Len(s) \in Nat
  OBVIOUS
<1> QED
  BY <1>1

\* What a browser has got is never taken back.
LEMMA GotGrows ==
  ASSUME TypeOK, NEW f \in Fd, RecvFlood(f) \/ Relay(f), NEW c \in Conns, got[c] # <<>>
  PROVE  got'[c] # <<>>
<1> DEFINE Replies == [conn : Conns, rate : Rates \cup {0, -1}] \cup {NONE}
<1>1. got[c] \in Seq(Replies) /\ MSG503(c) \in Replies /\ asked[f] \in Replies
  BY DEF TypeOK, MSG503, Request
<1> HIDE DEF Replies
<1>2. Append(got[c], MSG503(c)) # <<>> /\ Append(got[c], asked[f]) # <<>>
  BY <1>1, AppendNotEmpty
<1> QED
  BY <1>2 DEF RecvFlood, Relay

\* The descriptor accept opens has no request yet.
LEMMA AcceptCares == ASSUME Inv, RequestsHeld, Accept PROVE RequestsHeld'
<1>1. PICK c \in Conns, f \in Fd, addr \in Conns \cup {NONE} :
        /\ conn[c] = "pending"
        /\ LowestFree(f)
        /\ conn' = [conn EXCEPT ![c] = "open"]
        /\ role' = [role EXCEPT ![f] = "browser"]
        /\ client' = [client EXCEPT ![f] = c]
        /\ StartReading(f)
        /\ addr \in {c, NONE}
        /\ buf_pts' = [buf_pts EXCEPT ![f] = InitBuf(addr)]
        /\ maxfd' = Larger(f, maxfd)
  BY DEF Accept, CliAddr
<1>2. UNCHANGED <<got, master_write>> /\ TypeOK /\ InvBrowsers
  BY DEF Accept, Inv
<1> SUFFICES ASSUME NEW b \in Browsers', buf_pts'[b].http_reply_p # NONE
             PROVE  CaredFor(b)'
  BY ZenonT(60) DEF RequestsHeld
<1>3. b # f
  BY <1>1, <1>2 DEF TypeOK, InitBuf
<1>4. b \in Browsers /\ buf_pts'[b] = buf_pts[b] /\ client'[b] = client[b]
  BY <1>1, <1>2, <1>3 DEF Browsers, TypeOK
<1>5. CaredFor(b) /\ client[b] \in Conns
  BY <1>2, <1>4 DEF RequestsHeld, CaredFor, InvBrowsers
<1>6. conn[client[b]] = "closed" => conn'[client[b]] = "closed"
  BY <1>1, <1>2, <1>5 DEF TypeOK
<1>7. \A s \in Servers : s \in Servers' /\ buf_pts'[s] = buf_pts[s]
  BY <1>1, <1>2 DEF Servers, LowestFree, TypeOK
<1> QED
  BY <1>2, <1>4, <1>5, <1>6, <1>7 DEF CaredFor

\* A request turns its descriptor to writing; no read disturbs another's.
LEMMA RecvCares ==
  ASSUME Inv, RequestsHeld, NEW f \in Fd,
         \/ RecvPart(f) \/ RecvNothing(f) \/ RecvFlood(f)
         \/ RecvRequest(f) \/ RecvReply(f)
  PROVE  RequestsHeld'
<1>1. TypeOK /\ InvBrowsers /\ InvInterest /\ UNCHANGED <<role, client, conn>>
  BY DEF Inv, RecvPart, RecvNothing, RecvFlood, RecvRequest, RecvReply
<1>2. master_write \subseteq master_write'
  BY DEF RecvPart, RecvNothing, RecvFlood, RecvRequest, RecvReply, TurnToWriting
<1>3. AtRecvBrow(f) => f \in Browsers
  BY RecvBrowIsBrowser, <1>1 DEF Inv
<1>4. AtRecvServer(f) => f \in Servers
  BY RecvServerIsServer
<1>5. Browsers \cap Servers = {}
  BY DEF Browsers, Servers
<1>6. \A c \in Conns : got[c] # <<>> => got'[c] # <<>>
  BY <1>1, GotGrows DEF RecvPart, RecvNothing, RecvRequest, RecvReply
<1>7. \A s \in Servers : buf_pts'[s].sock2browser = buf_pts[s].sock2browser
  <2>1. CASE RecvRequest(f)
    BY <1>1, <1>3, <1>5, <2>1 DEF RecvRequest, TypeOK, Servers
  <2>2. CASE RecvReply(f)
    <3>1. ASSUME NEW s \in Servers PROVE buf_pts'[s].sock2browser = buf_pts[s].sock2browser
      <4>1. buf_pts[s] \in Buf
        BY <1>1 DEF TypeOK, Servers
      <4> QED
        BY <1>1, <2>2, <4>1 DEF RecvReply, ReplyReceived, TypeOK, Servers, Buf
    <3> QED
      BY <3>1
  <2> QED
    BY <2>1, <2>2 DEF RecvPart, RecvNothing, RecvFlood
<1> SUFFICES ASSUME NEW b \in Browsers', buf_pts'[b].http_reply_p # NONE
             PROVE  CaredFor(b)'
  BY ZenonT(60) DEF RequestsHeld
<1>8. b \in Browsers /\ client[b] \in Conns
  BY <1>1 DEF Browsers, InvBrowsers
<1>9. CASE RecvRequest(f) /\ b = f
  BY <1>9 DEF RecvRequest, TurnToWriting, CaredFor
<1>10. CASE ~(RecvRequest(f) /\ b = f)
  <2>1. buf_pts'[b] = buf_pts[b]
    BY <1>1, <1>4, <1>5, <1>8, <1>10
    DEF RecvPart, RecvNothing, RecvFlood, RecvRequest, RecvReply, ReplyReceived,
        TypeOK, Browsers
  <2>2. CaredFor(b)
    BY <1>8, <2>1 DEF RequestsHeld, CaredFor
  <2>3. Servers' = Servers
    BY <1>1 DEF Servers
  <2> QED
    BY <1>1, <1>2, <1>6, <1>7, <1>8, <2>2, <2>3 DEF CaredFor
<1> QED
  BY <1>9, <1>10

\* The server's descriptor that a request goes out on names its browser.
LEMMA SendServerCares ==
  ASSUME Inv, RequestsHeld, NEW f \in Fd, SendServer(f)
  PROVE  RequestsHeld'
<1>1. PICK n \in Fd :
        /\ LowestFree(n)
        /\ OpenServer(f, n)
        /\ buf_pts' = [buf_pts EXCEPT ![f].sock2server = n, ![n] = ServerBuf(buf_pts[f])]
  BY DEF SendServer
<1>2. /\ TypeOK /\ InvBrowsers
      /\ UNCHANGED <<conn, got, client>> /\ StopWriting(f)
  BY DEF Inv, SendServer
<1>3. f \in Browsers /\ buf_pts[f].sock2browser = f
  BY SendServerIsBrowser DEF SendServer
<1>4. n # f /\ n \notin Servers /\ n \in Servers' /\ Servers \subseteq Servers'
  BY <1>1, <1>2 DEF OpenServer, LowestFree, Servers, TypeOK
<1>5. buf_pts'[n].sock2browser = f
  <2>1. buf_pts'[n] = ServerBuf(buf_pts[f])
    BY <1>1, <1>2 DEF TypeOK
  <2> QED
    BY <1>3, <2>1 DEF ServerBuf, TransferInfo, InitBuf
<1>6. \A g \in Fd \ {f, n} : buf_pts'[g] = buf_pts[g]
  BY <1>1, <1>2 DEF TypeOK
<1> SUFFICES ASSUME NEW b \in Browsers', buf_pts'[b].http_reply_p # NONE
             PROVE  CaredFor(b)'
  BY ZenonT(60) DEF RequestsHeld
<1>7. CASE b = f
  BY <1>4, <1>5, <1>7 DEF CaredFor
<1>8. CASE b # f
  <2>1. b \in Browsers /\ b # n
    BY <1>1, <1>2, <1>4 DEF Browsers, Servers, OpenServer, TypeOK
  <2>2. CaredFor(b)
    BY <1>6, <1>8, <2>1 DEF RequestsHeld, CaredFor, Browsers
  <2>3. \A s \in Servers : buf_pts'[s] = buf_pts[s]
    BY <1>3, <1>4, <1>6 DEF Servers, Browsers
  <2> QED
    BY <1>2, <1>4, <1>8, <2>2, <2>3 DEF CaredFor, StopWriting
<1> QED
  BY <1>7, <1>8

\* When a server's descriptor is closed its browser has got the reply or left.
LEMMA SendBrowserCares ==
  ASSUME Inv, RequestsHeld, NEW f \in Fd, SendBrowser(f) \/ LoggingAborts(f)
  PROVE  RequestsHeld'
<1>1. /\ TypeOK /\ InvBrowsers /\ InvServers
      /\ UNCHANGED <<conn, client, buf_pts>> /\ Relay(f)
  BY DEF Inv, SendBrowser, LoggingAborts
<1>2. f \in Servers
  BY SendBrowserIsServer DEF SendBrowser, LoggingAborts
<1>3. /\ Browsers' = Browsers
      /\ Servers \ {f} \subseteq Servers'
      /\ master_write \ {f} \subseteq master_write'
  BY <1>1, <1>2
  DEF SendBrowser, LoggingAborts, Close, StopWriting, Browsers, Servers, TypeOK
<1>4. \A c \in Conns : got[c] # <<>> => got'[c] # <<>>
  BY <1>1, GotGrows
<1> SUFFICES ASSUME NEW b \in Browsers, buf_pts[b].http_reply_p # NONE
             PROVE  CaredFor(b)'
  BY <1>1, <1>3, ZenonT(60) DEF RequestsHeld
<1>5. CaredFor(b) /\ client[b] \in Conns /\ conn[client[b]] \in {"open", "closed"}
  BY <1>1 DEF RequestsHeld, CaredFor, InvBrowsers
<1>6. b # f
  BY <1>2 DEF Browsers, Servers
<1>7. CASE buf_pts[f].sock2browser = b
  <2>1. SUFFICES ASSUME conn[client[b]] = "open" PROVE got'[client[b]] # <<>>
    BY <1>1, <1>5 DEF CaredFor
  <2>2. got'[client[b]] = Append(got[client[b]], asked[f])
    BY <1>1, <1>5, <1>7, <2>1 DEF Relay, Browsers
  <2>3. /\ asked[f] \in [conn : Conns, rate : Rates \cup {0, -1}] \cup {NONE}
        /\ got[client[b]] \in Seq([conn : Conns, rate : Rates \cup {0, -1}] \cup {NONE})
    BY <1>1, <1>5 DEF TypeOK, Request
  <2> QED
    BY <2>2, <2>3, AppendNotEmpty
<1>8. CASE buf_pts[f].sock2browser # b
  BY <1>1, <1>3, <1>4, <1>5, <1>6, <1>8 DEF CaredFor
<1> QED
  BY <1>7, <1>8

LEMMA WorldCares == ASSUME Inv, RequestsHeld, WorldStep PROVE RequestsHeld'
<1>1. /\ TypeOK /\ InvBrowsers
      /\ UNCHANGED <<got, role, client, master_write, buf_pts>>
  BY DEF Inv, WorldStep, Connect, Hangup, Stall, Resume, BrowserSends, ServerSends, ServerStops, loop
<1>2. ASSUME NEW c \in Conns, conn[c] = "closed" PROVE conn'[c] = "closed"
  BY <1>1, <1>2
  DEF WorldStep, Connect, Hangup, Stall, Resume, BrowserSends, ServerSends, ServerStops, TypeOK
<1> QED
  BY <1>1, <1>2 DEF RequestsHeld, CaredFor, Browsers, Servers, InvBrowsers

LEMMA NextCares ==
  ASSUME Inv, RequestsHeld, [Next]_vars PROVE RequestsHeld'
<1>1. ASSUME UNCHANGED <<conn, got, role, client, master_write, buf_pts>>
      PROVE RequestsHeld'
  BY <1>1 DEF RequestsHeld, CaredFor, Browsers, Servers
<1>2. CASE UNCHANGED vars
  BY <1>1, <1>2 DEF vars, world, loop
<1>3. CASE Select \/ AcceptFails
  BY <1>1, <1>3 DEF Select, AcceptFails, Exit, world
<1>4. ASSUME NEW f \in Fd, Visit(f) PROVE RequestsHeld'
  <2>1. CASE \/ RecvPart(f) \/ RecvNothing(f) \/ RecvFlood(f)
             \/ RecvRequest(f) \/ RecvReply(f)
    BY <2>1, RecvCares
  <2>2. CASE \/ RecvFloodFails(f) \/ RecvReplyFails(f) \/ SendServerFails(f)
             \/ SendBrowserFails(f)
    BY <1>1, <2>2 DEF RecvFloodFails, RecvReplyFails, SendServerFails,
                      SendBrowserFails, Exit, world
  <2> QED
    BY <1>4, <2>1, <2>2, SendServerCares, SendBrowserCares DEF Visit
<1> QED
  BY <1>2, <1>3, <1>4, AcceptCares, WorldCares DEF Next, ProxyStep

\* A request taken whole is in the hands of a descriptor that is watched, or of
\* one whose server closed early, until its browser has been answered or has left.
THEOREM RequestsAreCaredFor == Spec => []NoRequestForgotten
<1>1. Init => ServersServed /\ RequestsHeld
  BY DEF Init, ServersServed, RequestsHeld, Browsers, Servers
<1>2. Inv /\ ServersServed /\ [Next]_vars => ServersServed'
  BY NextServes
<1>3. Inv /\ RequestsHeld /\ [Next]_vars => RequestsHeld'
  BY NextCares
<1>4. ServersServed /\ RequestsHeld => NoRequestForgotten
  BY DEF ServersServed, RequestsHeld, CaredFor, NoRequestForgotten
<1> QED
  BY <1>1, <1>2, <1>3, <1>4, Invariant, PTL DEF Spec
=============================================================================
