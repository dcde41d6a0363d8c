----------------------- MODULE ProxyRefinementProofs -----------------------
(***************************************************************************)
(* That the loop of src/proxy.c does what ProxyService promises: every     *)
(* step from a state that satisfies Inv is a step of the service or leaves *)
(* its variables alone.                                                    *)
(***************************************************************************)
EXTENDS ProxyRefinement, ProxyProofs

\* A request dequeued for a browser is remembered by name if it is for a chunk,
\* so that the line logged for its reply is there exactly then.
ChunkNamed ==
  \A b \in Browsers :
    buf_pts[b].http_reply_p # NONE =>
      (buf_pts[b].chunk_name = NONE <=> NoChunk(buf_pts[b].http_reply_p))

(***************************************************************************)
(* The chunk names.                                                        *)
(***************************************************************************)

\* Only accept and the request's own visit write what ChunkNamed is about.
LEMMA NextNamed == ASSUME Inv, ChunkNamed, [Next]_vars PROVE ChunkNamed'
<1>1. TypeOK
  BY DEF Inv
<1>2. ASSUME \A b \in Browsers' :
                \/ buf_pts'[b].http_reply_p = NONE
                \/ /\ b \in Browsers
                   /\ buf_pts'[b].http_reply_p = buf_pts[b].http_reply_p
                   /\ buf_pts'[b].chunk_name = buf_pts[b].chunk_name
      PROVE  ChunkNamed'
  BY <1>2 DEF ChunkNamed
<1>3. CASE UNCHANGED <<role, buf_pts>>
  BY <1>2, <1>3 DEF Browsers
<1>4. CASE Accept
  <2>1. PICK f \in Fd, addr \in Conns \cup {NONE} :
          /\ role' = [role EXCEPT ![f] = "browser"]
          /\ buf_pts' = [buf_pts EXCEPT ![f] = InitBuf(addr)]
    BY <1>4, ZenonT(60) DEF Accept, CliAddr
  <2> QED
    BY <1>1, <1>2, <2>1 DEF TypeOK, InitBuf, Browsers
<1>5. ASSUME NEW f \in Fd, RecvRequest(f) PROVE ChunkNamed'
  <2>1. PICK rate \in Rates \cup {0} :
          buf_pts' = [buf_pts EXCEPT
            ![f] = TakeRequest(buf_pts[f], f, [conn |-> client[f], rate |-> rate])]
    BY <1>5 DEF RecvRequest
  <2>2. f \in Browsers /\ client[f] \in Conns
    BY <1>5, RecvBrowIsBrowser DEF RecvRequest, Inv, InvBrowsers
  <2>3. [conn |-> client[f], rate |-> rate] # NONE
    BY <2>2, ProxyAssumption DEF ProxyAssumption
  <2>4. buf_pts[f] \in Buf
    BY <1>1 DEF TypeOK
  <2>5. /\ buf_pts'[f].http_reply_p = [conn |-> client[f], rate |-> rate]
        /\ buf_pts'[f].chunk_name =
             IF NoChunk([conn |-> client[f], rate |-> rate]) THEN NONE
             ELSE [conn |-> client[f], rate |-> rate]
    BY <1>1, <2>1, <2>4 DEF TakeRequest, Buf, TypeOK
  <2>6. \A g \in Fd \ {f} : buf_pts'[g] = buf_pts[g]
    BY <1>1, <2>1 DEF TypeOK
  <2> QED
    BY <1>5, <2>3, <2>5, <2>6 DEF ChunkNamed, RecvRequest, Browsers
<1>6. ASSUME NEW f \in Fd, RecvReply(f) PROVE ChunkNamed'
  <2>1. ASSUME NEW b \in Fd
        PROVE  /\ buf_pts'[b].http_reply_p = buf_pts[b].http_reply_p
               /\ buf_pts'[b].chunk_name = buf_pts[b].chunk_name
    <3>1. buf_pts[b] \in Buf
      BY <1>1 DEF TypeOK
    <3> QED
      BY <1>1, <1>6, <3>1 DEF RecvReply, ReplyReceived, TypeOK, Buf
  <2> QED
    BY <1>2, <1>6, <2>1 DEF RecvReply, Browsers
<1>7. ASSUME NEW f \in Fd, SendServer(f) PROVE ChunkNamed'
  <2>1. PICK s \in Fd :
          /\ OpenServer(f, s)
          /\ buf_pts' = [buf_pts EXCEPT ![f].sock2server = s, ![s] = ServerBuf(buf_pts[f])]
    BY <1>7 DEF SendServer
  <2>2. Browsers' = Browsers \ {s}
    BY <1>1, <2>1 DEF OpenServer, Browsers, TypeOK
  <2>3. ASSUME NEW b \in Fd, b # s
        PROVE  /\ buf_pts'[b].http_reply_p = buf_pts[b].http_reply_p
               /\ buf_pts'[b].chunk_name = buf_pts[b].chunk_name
    <3>1. buf_pts[b] \in Buf
      BY <1>1 DEF TypeOK
    <3> QED
      BY <1>1, <2>1, <2>3, <3>1 DEF OpenServer, TypeOK, Buf
  <2> QED
    BY <1>2, <2>2, <2>3 DEF Browsers
<1>8. ASSUME NEW f \in Fd, SendBrowser(f) PROVE ChunkNamed'
  BY <1>1, <1>2, <1>8 DEF SendBrowser, Close, Browsers, TypeOK
<1>9. ASSUME NEW f \in Fd, Visit(f) PROVE ChunkNamed'
  BY <1>3, <1>5, <1>6, <1>7, <1>8, <1>9
  DEF Visit, RecvPart, RecvNothing, RecvFlood, RecvFloodFails, RecvReplyFails,
      SendServerFails, LoggingAborts, SendBrowserFails, Exit, world
<1>10. CASE Select \/ AcceptFails \/ UNCHANGED vars
  BY <1>3, <1>10 DEF Select, AcceptFails, Exit, vars, world
<1>11. CASE WorldStep
  <2>1. UNCHANGED <<role, buf_pts>>
    BY <1>11
    DEF WorldStep, Connect, Hangup, Stall, Resume, BrowserSends, ServerSends, ServerStops
  <2> QED
    BY <1>3, <2>1
<1> QED
  BY <1>4, <1>9, <1>10, <1>11 DEF Next, ProxyStep

(***************************************************************************)
(* The refinement mapping.                                                 *)
(***************************************************************************)

\* The descriptor a connection's stage is read off is its only one.
LEMMA OwnOne ==
  ASSUME Inv, NEW b \in Browsers
  PROVE  /\ client[b] \in Conns
         /\ OwnFds(client[b]) = {b}
         /\ Dequeued(client[b]) = IF buf_pts[b].http_reply_p = NONE THEN {} ELSE {b}
<1>1. client[b] \in Conns /\ \A a \in Browsers : client[a] = client[b] => a = b
  BY DEF Inv, InvBrowsers
<1>2. OwnFds(client[b]) = {b}
  BY <1>1 DEF OwnFds
<1> QED
  BY <1>1, <1>2 DEF Dequeued

\* A browser descriptor somebody still works for has not been answered.
LEMMA NotYetAnswered ==
  ASSUME Inv, up, NEW b \in Browsers,
         b \in Watched \/ \E s \in Servers : buf_pts[s].sock2browser = b
  PROVE  got[client[b]] = <<>>
<1> SUFFICES ASSUME got[client[b]] # <<>> PROVE FALSE
  OBVIOUS
<1>1. PICK a \in Browsers :
        /\ client[a] = client[b]
        /\ a \notin Watched
        /\ \A s \in Servers : buf_pts[s].sock2browser # a
  BY OwnOne DEF Inv, InvGot
<1>2. a = b
  BY <1>1 DEF Inv, InvBrowsers
<1> QED
  BY <1>1, <1>2

\* The request of a connection is the one its only descriptor has dequeued.
LEMMA RequestIs ==
  ASSUME NEW c, NEW b, Dequeued(c) = {b}
  PROVE  RequestOf(c) = buf_pts[b].http_reply_p
<1>1. (CHOOSE a \in Dequeued(c) : TRUE) = b
  OBVIOUS
<1> QED
  BY <1>1 DEF RequestOf

\* A connection that a step does not touch stays at its stage.
LEMMA StageKept ==
  ASSUME NEW c, Dequeued(c)' = Dequeued(c),
         Dequeued(c) = {} => got'[c] = got[c],
         \A b \in Dequeued(c) : /\ b \in master_write' <=> b \in master_write
                                /\ buf_pts'[b].http_reply_p = buf_pts[b].http_reply_p,
         Forwarded(c)' <=> Forwarded(c)
  PROVE  Stage(c)' = Stage(c) /\ RequestOf(c)' = RequestOf(c)
<1>1. Dequeued(c)' \cap master_write' = {} <=> Dequeued(c) \cap master_write = {}
  OBVIOUS
<1>2. Stage(c)' = IF Dequeued(c)' = {} THEN (IF got'[c] = <<>> THEN "waiting" ELSE "refused")
                  ELSE IF Forwarded(c)' THEN "forwarded"
                  ELSE IF Dequeued(c)' \cap master_write' # {} THEN "asked"
                  ELSE "done"
  BY DEF Stage
<1>3. RequestOf(c)' = RequestOf(c)
  <2>1. CASE Dequeued(c) = {}
    BY <2>1 DEF RequestOf
  <2>2. CASE Dequeued(c) # {}
    <3>1. PICK b \in Dequeued(c) : b = CHOOSE a \in Dequeued(c) : TRUE
      BY <2>2
    <3>2. RequestOf(c)' = buf_pts'[b].http_reply_p /\ RequestOf(c) = buf_pts[b].http_reply_p
      BY <2>2, <3>1 DEF RequestOf
    <3> QED
      BY <3>2
  <2> QED
    BY <2>1, <2>2
<1> QED
  BY <1>1, <1>2, <1>3 DEF Stage

\* A step that touches what the mapping reads nowhere is a stutter of it.
LEMMA MapKept ==
  ASSUME \A c \in Conns : Stage(c)' = Stage(c) /\ RequestOf(c)' = RequestOf(c)
  PROVE  UNCHANGED <<StageMap, RequestMap>>
  BY DEF StageMap, RequestMap

\* Steps that open and close nothing, turn nothing to or from writing, and write
\* in bufs at most a status.
LEMMA QuietKept ==
  ASSUME UNCHANGED <<role, client, master_write, got>>,
         \A f \in Fd : /\ buf_pts'[f].http_reply_p = buf_pts[f].http_reply_p
                       /\ buf_pts'[f].sock2browser = buf_pts[f].sock2browser
  PROVE  UNCHANGED <<StageMap, RequestMap>>
<1>1. Browsers' = Browsers /\ Servers' = Servers /\ Browsers \subseteq Fd /\ Servers \subseteq Fd
  BY DEF Browsers, Servers
<1>2. ASSUME NEW c \in Conns
      PROVE  Dequeued(c)' = Dequeued(c) /\ Dequeued(c) \subseteq Fd
  BY <1>1 DEF Dequeued, OwnFds
<1>3. ASSUME NEW c \in Conns PROVE Forwarded(c)' <=> Forwarded(c)
  BY <1>1, <1>2 DEF Forwarded
<1>4. \A c \in Conns : Stage(c)' = Stage(c) /\ RequestOf(c)' = RequestOf(c)
  BY <1>2, <1>3, StageKept
<1> QED
  BY <1>4, MapKept

\* A step that moves one connection, from one stage to another.
LEMMA OneMoves ==
  ASSUME NEW c \in Conns, NEW from, NEW to, up, Stage(c) = from, Stage(c)' = to,
         \A d \in Conns \ {c} : Stage(d)' = Stage(d)
  PROVE  Service!Move(c, from, to)
  BY DEF StageMap, Service!Move

(***************************************************************************)
(* The steps of the loop.                                                  *)
(***************************************************************************)

\* Accept opens a descriptor that has no request yet.
LEMMA AcceptMaps ==
  ASSUME Inv, Accept PROVE UNCHANGED Service!vars
<1>1. PICK a \in Conns, f \in Fd :
        /\ LowestFree(f)
        /\ role' = [role EXCEPT ![f] = "browser"]
        /\ client' = [client EXCEPT ![f] = a]
        /\ \E addr \in CliAddr(a) : buf_pts' = [buf_pts EXCEPT ![f] = InitBuf(addr)]
  BY DEF Accept
<1>2. UNCHANGED <<got, sent, master_write, log, up>> /\ TypeOK
  BY DEF Accept, Inv
<1>3. /\ f \notin Browsers /\ f \notin Servers
      /\ Browsers' = Browsers \cup {f} /\ Servers' = Servers
      /\ buf_pts'[f].http_reply_p = NONE
  BY <1>1, <1>2, FreeIsUnused DEF Browsers, Servers, InitBuf, TypeOK
<1>4. \A g \in Fd \ {f} : buf_pts'[g] = buf_pts[g] /\ client'[g] = client[g]
  BY <1>1, <1>2 DEF TypeOK
<1>5. ASSUME NEW c \in Conns PROVE Dequeued(c)' = Dequeued(c)
  BY <1>3, <1>4 DEF Dequeued, OwnFds, Browsers
<1>6. ASSUME NEW c \in Conns PROVE Forwarded(c)' <=> Forwarded(c)
  BY <1>3, <1>4, <1>5 DEF Forwarded, Servers
<1>7. ASSUME NEW c \in Conns, NEW b \in Dequeued(c) PROVE buf_pts'[b] = buf_pts[b]
  BY <1>3, <1>4 DEF Dequeued, OwnFds, Browsers
<1>8. \A c \in Conns : Stage(c)' = Stage(c) /\ RequestOf(c)' = RequestOf(c)
  BY <1>2, <1>5, <1>6, <1>7, StageKept
<1> QED
  BY <1>2, <1>8, MapKept DEF Service!vars

\* A connection read from for a request waits for its request to be whole.
LEMMA ReadWaits ==
  ASSUME Inv, NEW f \in Fd, AtRecvBrow(f)
  PROVE  /\ f \in Browsers /\ f \in master_read /\ f \notin master_write /\ up
         /\ client[f] \in Conns
         /\ OwnFds(client[f]) = {f} /\ Dequeued(client[f]) = {}
         /\ got[client[f]] = <<>>
         /\ Stage(client[f]) = "waiting"
<1>1. f \in Browsers
  BY RecvBrowIsBrowser DEF Inv
<1>2. f \in master_read /\ f \notin master_write /\ up
  BY DEF Inv, InvSets, AtRecvBrow, AtRead, Visiting
<1>3. buf_pts[f].http_reply_p = NONE
  BY <1>1 DEF AtRecvBrow, Inv, InvBrowsers
<1>4. /\ client[f] \in Conns
      /\ OwnFds(client[f]) = {f} /\ Dequeued(client[f]) = {}
  BY <1>1, <1>3, OwnOne
<1>5. got[client[f]] = <<>>
  BY <1>1, <1>2, NotYetAnswered DEF Watched
<1>6. Stage(client[f]) = "waiting"
  BY <1>4, <1>5 DEF Stage
<1> QED
  BY <1>1, <1>2, <1>4, <1>5, <1>6

\* The descriptors of the other connections, where one has a single descriptor.
LEMMA OthersApart ==
  ASSUME Inv, NEW b \in Browsers, NEW d \in Conns \ {client[b]}
  PROVE  b \notin OwnFds(d) /\ b \notin Dequeued(d)
  BY DEF OwnFds, Dequeued

\* A browser that floods rbuf is refused, unless it has left.
LEMMA RecvFloodMaps ==
  ASSUME Inv, NEW f \in Fd, RecvFlood(f) PROVE [Service!Next]_Service!vars
<1>1. /\ AtRecvBrow(f) /\ TypeOK
      /\ UNCHANGED <<role, client, master_write, buf_pts, sent, log, up>>
  BY DEF RecvFlood, Inv
<1>2. PICK c \in Conns :
        c = client[f] /\ got[c] = <<>> /\ Dequeued(c) = {} /\ Stage(c) = "waiting" /\ up
  BY <1>1, ReadWaits
<1>3. got' = [d \in Conns |-> IF d = c /\ conn[d] = "open"
                             THEN Append(got[d], MSG503(d)) ELSE got[d]]
  BY <1>2 DEF RecvFlood
<1>4. ASSUME NEW d \in Conns
      PROVE Dequeued(d)' = Dequeued(d) /\ (Forwarded(d)' <=> Forwarded(d))
  BY <1>1 DEF Dequeued, OwnFds, Forwarded, Browsers, Servers
<1>5. ASSUME NEW d \in Conns, got'[d] = got[d]
      PROVE  Stage(d)' = Stage(d) /\ RequestOf(d)' = RequestOf(d)
  BY <1>1, <1>4, <1>5, StageKept
<1>6. CASE conn[c] = "open"
  <2>1. got' = [got EXCEPT ![c] = Append(@, MSG503(c))]
    BY <1>1, <1>3, <1>6 DEF TypeOK
  <2>2. got'[c] # <<>>
    <3>1. got'[c] = Append(<<>>, MSG503(c))
      BY <1>2, <1>3, <1>6
    <3>2. Append(<<>>, MSG503(c)) # <<>>
      OBVIOUS
    <3> QED
      BY <3>1, <3>2
  <2>3. Dequeued(c)' = {}
    BY <1>2, <1>4
  <2>4. Stage(c)' = "refused" /\ RequestOf(c)' = RequestOf(c)
    BY <1>2, <2>2, <2>3 DEF Stage, RequestOf
  <2>5. \A d \in Conns \ {c} : Stage(d)' = Stage(d) /\ RequestOf(d)' = RequestOf(d)
    BY <1>3, <1>5
  <2>6. Service!Move(c, "waiting", "refused")
    BY <1>2, <2>4, <2>5, OneMoves
  <2>7. UNCHANGED RequestMap
    BY <2>4, <2>5 DEF RequestMap
  <2>8. Service!Refuse(c)
    BY <1>1, <2>1, <2>6, <2>7
    DEF Service!Refuse, Service!Tell, Service!MSG503, MSG503
  <2> QED
    BY <1>2, <2>8 DEF Service!Next
<1>7. CASE conn[c] # "open"
  <2>1. UNCHANGED got
    BY <1>1, <1>3, <1>7 DEF TypeOK
  <2>2. UNCHANGED <<StageMap, RequestMap>>
    BY <1>5, <2>1, MapKept
  <2> QED
    BY <1>1, <2>1, <2>2 DEF Service!vars
<1> QED
  BY <1>6, <1>7

\* A request that is whole is dequeued and its descriptor turned to writing.
LEMMA RecvRequestMaps ==
  ASSUME Inv, NEW f \in Fd, RecvRequest(f) PROVE Service!Next
<1>1. /\ AtRecvBrow(f) /\ TurnToWriting(f) /\ TypeOK
      /\ UNCHANGED <<got, sent, role, client, log, up>>
  BY DEF RecvRequest, Inv
<1>2. PICK c \in Conns :
        /\ c = client[f] /\ f \in Browsers /\ f \notin Servers /\ OwnFds(c) = {f} /\ up
        /\ Dequeued(c) = {} /\ got[c] = <<>> /\ Stage(c) = "waiting"
  BY <1>1, ReadWaits DEF Browsers, Servers
<1>3. PICK rate \in Rates \cup {0} :
        buf_pts' = [buf_pts EXCEPT
          ![f] = TakeRequest(buf_pts[f], f, [conn |-> c, rate |-> rate])]
  BY <1>2 DEF RecvRequest
<1> DEFINE req == [conn |-> c, rate |-> rate]
<1>4. buf_pts'[f].http_reply_p = req /\ req # NONE
  <2>1. buf_pts[f] \in Buf
    BY <1>1 DEF TypeOK
  <2> QED
    BY <1>1, <1>2, <1>3, <2>1, ProxyAssumption DEF TakeRequest, Buf, TypeOK, ProxyAssumption
<1>5. \A g \in Fd \ {f} : buf_pts'[g] = buf_pts[g]
  BY <1>1, <1>3 DEF TypeOK
<1> HIDE DEF req
<1>6. OwnFds(c)' = {f} /\ Dequeued(c)' = {f}
  BY <1>1, <1>2, <1>4 DEF OwnFds, Dequeued, Browsers
<1>7. f \in master_write' /\ \A g \in Fd \ {f} : g \in master_write' <=> g \in master_write
  BY <1>1 DEF TurnToWriting
<1>8. Stage(c)' = "asked"
  <2>1. \A s \in Servers : buf_pts'[s].sock2browser # f
    <3>1. f \in master_read
      BY <1>1, ReadWaits
    <3> QED
      BY <1>2, <1>5, <3>1 DEF Inv, InvServers, Servers, Watched
  <2>2. ~Forwarded(c)'
    BY <1>1, <1>6, <2>1 DEF Forwarded, Servers
  <2> QED
    BY <1>1, <1>2, <1>6, <1>7, <2>2 DEF Stage
<1>9. ASSUME NEW d \in Conns \ {c}
      PROVE  Stage(d)' = Stage(d) /\ RequestOf(d)' = RequestOf(d)
  <2>1. f \notin OwnFds(d) /\ Browsers' = Browsers /\ Browsers \subseteq Fd
    BY <1>1, <1>2, OthersApart DEF Browsers
  <2>2. OwnFds(d)' = OwnFds(d) /\ OwnFds(d) \subseteq Fd \ {f}
    BY <1>1, <2>1 DEF OwnFds
  <2>3. Dequeued(d)' = Dequeued(d) /\ Dequeued(d) \subseteq Fd \ {f}
    BY <1>5, <2>2 DEF Dequeued
  <2>4. \A s \in Servers : buf_pts'[s] = buf_pts[s]
    BY <1>2, <1>5 DEF Servers
  <2>5. Forwarded(d)' <=> Forwarded(d)
    BY <1>1, <2>3, <2>4 DEF Forwarded, Servers
  <2> QED
    BY <1>1, <1>5, <1>7, <2>3, <2>5, StageKept
<1>10. Service!Move(c, "waiting", "asked")
  BY <1>2, <1>8, <1>9, OneMoves
<1>11. RequestMap' = [RequestMap EXCEPT ![c] = [conn |-> c, rate |-> rate]]
  <2>1. RequestOf(c)' = [conn |-> c, rate |-> rate]
    <3>1. (CHOOSE a \in Dequeued(c)' : TRUE) = f
      BY <1>6
    <3> QED
      BY <1>4, <1>6, <3>1 DEF RequestOf, req
  <2> QED
    BY <1>9, <2>1 DEF RequestMap
<1>12. Service!Ask(c)
  BY <1>1, <1>10, <1>11 DEF Service!Ask
<1> QED
  BY <1>2, <1>12 DEF Service!Next

\* A request goes out on a descriptor of its own.
LEMMA SendServerMaps ==
  ASSUME Inv, NEW f \in Fd, SendServer(f) PROVE Service!Next
<1>1. /\ AtSendServer(f) /\ StopWriting(f) /\ TypeOK /\ up
      /\ UNCHANGED <<got, client, log, up>>
      /\ sent' = [sent EXCEPT ![buf_pts[f].http_reply_p.conn] =
                    Append(@, buf_pts[f].http_reply_p)]
  BY DEF SendServer, AtSendServer, AtWrite, Visiting, Inv
<1>2. PICK n \in Fd :
        /\ LowestFree(n)
        /\ OpenServer(f, n)
        /\ buf_pts' = [buf_pts EXCEPT ![f].sock2server = n, ![n] = ServerBuf(buf_pts[f])]
  BY DEF SendServer
<1>3. /\ f \in Browsers /\ f \in master_write /\ buf_pts[f].http_reply_p # NONE
      /\ buf_pts[f].sock2browser = f
      /\ \A s \in Servers : buf_pts[s].sock2browser # f
  BY <1>1, SendServerIsBrowser
<1>4. PICK c \in Conns : c = client[f] /\ Dequeued(c) = {f}
  BY <1>1, <1>3, OwnOne
<1>5. Stage(c) = "asked"
  <2>1. ~Forwarded(c)
    BY <1>3, <1>4 DEF Forwarded
  <2> QED
    BY <1>3, <1>4, <2>1 DEF Stage
<1>6. /\ n \notin Browsers /\ n \notin Servers /\ n # f
      /\ Browsers' = Browsers /\ Servers' = Servers \cup {n}
  BY <1>1, <1>2, <1>3, FreeIsUnused DEF OpenServer, Browsers, Servers, TypeOK
<1>7. buf_pts'[n].sock2browser = f
  <2>1. buf_pts'[n] = ServerBuf(buf_pts[f])
    BY <1>1, <1>2, <1>6 DEF TypeOK
  <2> QED
    BY <1>3, <2>1 DEF ServerBuf, TransferInfo, InitBuf
<1>8. \A g \in Fd \ {n} : /\ buf_pts'[g].http_reply_p = buf_pts[g].http_reply_p
                         /\ buf_pts'[g].sock2browser = buf_pts[g].sock2browser
  <2>1. \A g \in Fd : buf_pts[g] \in Buf
    BY <1>1 DEF TypeOK
  <2> QED
    BY <1>1, <1>2, <1>6, <2>1 DEF TypeOK, Buf
<1>9. ASSUME NEW d \in Conns PROVE Dequeued(d)' = Dequeued(d) /\ Dequeued(d) \subseteq Browsers
  BY <1>1, <1>6, <1>8 DEF Dequeued, OwnFds, Browsers
<1>10. Forwarded(c)'
  BY <1>4, <1>6, <1>7, <1>9 DEF Forwarded
<1>11. Stage(c)' = "forwarded"
  BY <1>1, <1>4, <1>9, <1>10 DEF Stage, StopWriting
<1>12. ASSUME NEW d \in Conns \ {c}
       PROVE  Stage(d)' = Stage(d) /\ RequestOf(d)' = RequestOf(d)
  <2>1. f \notin Dequeued(d)
    BY <1>3, <1>4, OthersApart
  <2>2. Forwarded(d)' <=> Forwarded(d)
    BY <1>6, <1>7, <1>8, <1>9, <2>1 DEF Forwarded, Servers
  <2>3. \A b \in Dequeued(d) : /\ b \in master_write' <=> b \in master_write
                             /\ buf_pts'[b].http_reply_p = buf_pts[b].http_reply_p
    BY <1>1, <1>6, <1>8, <1>9, <2>1 DEF StopWriting, Browsers
  <2> QED
    BY <1>1, <1>9, <2>2, <2>3, StageKept
<1>13. Service!Move(c, "asked", "forwarded")
  BY <1>1, <1>5, <1>11, <1>12, OneMoves
<1>14. RequestOf(c) = buf_pts[f].http_reply_p /\ UNCHANGED RequestMap
  <2>1. RequestOf(c) = buf_pts[f].http_reply_p
    BY <1>4, RequestIs
  <2>2. RequestOf(c)' = buf_pts'[f].http_reply_p
    <3>1. (CHOOSE a \in Dequeued(c)' : TRUE) = f
      BY <1>4, <1>9
    <3> QED
      BY <1>4, <1>9, <3>1 DEF RequestOf
  <2>3. buf_pts'[f].http_reply_p = buf_pts[f].http_reply_p
    BY <1>3, <1>6, <1>8 DEF Browsers
  <2> QED
    BY <1>12, <2>1, <2>2, <2>3 DEF RequestMap
<1>15. sent' = [sent EXCEPT ![c] = Append(@, RequestMap[c])]
  <2>1. buf_pts[f].http_reply_p.conn = c
    BY <1>3, <1>4 DEF Inv, InvBrowsers
  <2>2. RequestMap[c] = buf_pts[f].http_reply_p
    BY <1>14 DEF RequestMap
  <2> QED
    BY <1>1, <2>1, <2>2
<1>16. Service!Forward(c)
  BY <1>1, <1>13, <1>14, <1>15 DEF Service!Forward
<1> QED
  BY <1>16 DEF Service!Next

\* A reply is written for a request that has been forwarded, and is no refusal.
LEMMA ReplyDue ==
  ASSUME Inv, NEW f \in Fd, AtSendBrowser(f), Relay(f)
  PROVE  \E b \in Browsers, c \in Conns :
           /\ b = buf_pts[f].sock2browser /\ c = client[b]
           /\ f \in Servers /\ up
           /\ b \notin master_write /\ Dequeued(c) = {b}
           /\ \A s \in Servers : buf_pts[s].sock2browser = b => s = f
           /\ Stage(c) = "forwarded"
           /\ RequestMap[c] = buf_pts[b].http_reply_p
           /\ UNCHANGED got \/ got' = [got EXCEPT ![c] = Append(@, RequestMap[c])]
<1>1. f \in Servers /\ up
  BY SendBrowserIsServer DEF AtSendBrowser, AtWrite, Visiting
<1>2. PICK b \in Browsers : b = buf_pts[f].sock2browser
  BY <1>1 DEF Inv, InvServers
<1>3. /\ b \notin master_write /\ buf_pts[b].http_reply_p # NONE
      /\ \A s \in Servers : buf_pts[s].sock2browser = b => s = f
  BY <1>1, <1>2 DEF Inv, InvServers, Watched
<1>4. PICK c \in Conns : c = client[b] /\ Dequeued(c) = {b}
  BY <1>1, <1>2, <1>3, OwnOne
<1>5. Stage(c) = "forwarded"
  <2>1. Forwarded(c)
    BY <1>1, <1>2, <1>4 DEF Forwarded
  <2> QED
    BY <1>3, <1>4, <2>1 DEF Stage
<1>6. RequestMap[c] = buf_pts[b].http_reply_p
  BY <1>4, RequestIs DEF RequestMap
<1>7. UNCHANGED got \/ got' = [got EXCEPT ![c] = Append(@, RequestMap[c])]
  <2>1. asked[f] = RequestMap[c]
    <3>1. asked[f] # NONE
      BY SendBrowserIsServer
    <3> QED
      BY <1>1, <1>2, <1>6, <3>1 DEF Inv, InvServers
  <2>2. got \in [Conns -> Seq([conn : Conns, rate : Rates \cup {0, -1}] \cup {NONE})]
    BY DEF Inv, TypeOK
  <2>3. got' = [d \in Conns |->
                 IF role[b] = "browser" /\ client[b] = d /\ conn[d] = "open"
                 THEN Append(got[d], asked[f]) ELSE got[d]]
    BY <1>2 DEF Relay
  <2>4. CASE conn[c] = "open"
    BY <1>4, <2>1, <2>2, <2>3, <2>4 DEF Browsers
  <2>5. CASE conn[c] # "open"
    BY <1>4, <2>2, <2>3, <2>5
  <2> QED
    BY <2>4, <2>5
<1> QED
  BY <1>1, <1>2, <1>3, <1>4, <1>5, <1>6, <1>7

\* The line logged with a reply, if any, is the one of its request.
LEMMA LineDue ==
  ASSUME Inv, ChunkNamed, NEW f \in Servers, NEW b \in Browsers,
         b = buf_pts[f].sock2browser, LogLine(buf_pts[f])
  PROVE  IF buf_pts[b].http_reply_p.rate = 0 THEN UNCHANGED log
         ELSE \E line \in Service!Lines(buf_pts[b].http_reply_p) :
                log' = Append(log, line)
<1> DEFINE r == buf_pts[b].http_reply_p
<1>1. /\ r # NONE
      /\ buf_pts[f].chunk_name = buf_pts[b].chunk_name
      /\ buf_pts[f].client_ip = buf_pts[b].client_ip
      /\ buf_pts[f].bitrate = buf_pts[b].bitrate
  BY DEF Inv, InvServers
<1>2. buf_pts[b].chunk_name = NONE <=> r.rate = 0
  BY <1>1 DEF ChunkNamed, NoChunk
<1>3. CASE r.rate = 0
  BY <1>1, <1>2, <1>3 DEF LogLine
<1>4. CASE r.rate # 0
  <2>1. /\ buf_pts[f].chunk_name = r
        /\ buf_pts[f].bitrate = r.rate
        /\ buf_pts[f].client_ip \in {r.conn, NONE}
    BY <1>1, <1>2, <1>4 DEF Inv, InvBrowsers
  <2> DEFINE line == [ bitrate    |-> buf_pts[f].bitrate,
                       client_ip  |-> buf_pts[f].client_ip,
                       chunk_name |-> buf_pts[f].chunk_name ]
  <2>2. log' = Append(log, line)
    BY <1>1, <1>2, <1>4 DEF LogLine
  <2>3. line \in Service!Lines(r)
    BY <2>1 DEF Service!Lines
  <2> QED
    BY <1>4, <2>2, <2>3
<1> QED
  BY <1>3, <1>4

\* The reply goes out, its line is logged, and the server's descriptor is closed.
LEMMA SendBrowserMaps ==
  ASSUME Inv, ChunkNamed, NEW f \in Fd, SendBrowser(f) PROVE Service!Next
<1>1. /\ AtSendBrowser(f) /\ Relay(f) /\ Close(f) /\ StopWriting(f) /\ TypeOK
      /\ LogLine(buf_pts[f])
      /\ UNCHANGED <<sent, client, buf_pts, up>>
  BY DEF SendBrowser, Inv
<1>2. PICK b \in Browsers, c \in Conns :
        /\ b = buf_pts[f].sock2browser /\ c = client[b]
        /\ f \in Servers /\ up
        /\ b \notin master_write /\ Dequeued(c) = {b}
        /\ \A s \in Servers : buf_pts[s].sock2browser = b => s = f
        /\ Stage(c) = "forwarded"
        /\ RequestMap[c] = buf_pts[b].http_reply_p
        /\ UNCHANGED got \/ got' = [got EXCEPT ![c] = Append(@, RequestMap[c])]
  BY <1>1, ReplyDue
<1>3. f \notin Browsers /\ Browsers' = Browsers /\ Servers' = Servers \ {f}
  BY <1>1, <1>2 DEF Close, Browsers, Servers, TypeOK
<1>4. ASSUME NEW d \in Conns
      PROVE  Dequeued(d)' = Dequeued(d) /\ f \notin Dequeued(d)
  BY <1>1, <1>3 DEF Dequeued, OwnFds
<1>5. ASSUME NEW d \in Conns \ {c}
      PROVE  Stage(d)' = Stage(d) /\ RequestOf(d)' = RequestOf(d)
  <2>1. b \notin Dequeued(d)
    BY <1>2, OthersApart
  <2>2. Forwarded(d)' <=> Forwarded(d)
    BY <1>1, <1>2, <1>3, <1>4, <2>1 DEF Forwarded
  <2>3. got'[d] = got[d]
    BY <1>1, <1>2 DEF TypeOK
  <2> QED
    BY <1>1, <1>2, <1>4, <2>2, <2>3, StageKept DEF StopWriting
<1>6. Stage(c)' = "done"
  <2>1. ~Forwarded(c)'
    BY <1>1, <1>2, <1>3, <1>4 DEF Forwarded
  <2>2. Dequeued(c)' = {b} /\ b \notin master_write'
    BY <1>1, <1>2, <1>4 DEF StopWriting
  <2> QED
    BY <1>2, <2>1, <2>2 DEF Stage
<1>7. Service!Move(c, "forwarded", "done")
  BY <1>2, <1>5, <1>6, OneMoves
<1>8. UNCHANGED RequestMap
  <2>1. RequestOf(c) = buf_pts[b].http_reply_p
    BY <1>2, RequestIs
  <2>2. RequestOf(c)' = buf_pts'[b].http_reply_p
    <3>1. Dequeued(c)' = {b} /\ (CHOOSE a \in Dequeued(c)' : TRUE) = b
      BY <1>2, <1>4
    <3> QED
      BY <3>1 DEF RequestOf
  <2> QED
    BY <1>1, <1>5, <2>1, <2>2 DEF RequestMap
<1>9. IF RequestMap[c].rate = 0 THEN UNCHANGED log
      ELSE \E line \in Service!Lines(RequestMap[c]) : log' = Append(log, line)
  BY <1>1, <1>2, LineDue
<1>10. Service!Reply(c)
  BY <1>1, <1>2, <1>7, <1>8, <1>9 DEF Service!Reply, Service!Tell
<1> QED
  BY <1>10 DEF Service!Next

\* The assertion of logging ends the process when a chunk's reply is out already.
LEMMA LoggingAbortsMaps ==
  ASSUME Inv, ChunkNamed, NEW f \in Fd, LoggingAborts(f) PROVE Service!Next
<1>1. /\ AtSendBrowser(f) /\ Relay(f) /\ up' = FALSE
      /\ buf_pts[f].chunk_name # NONE
      /\ UNCHANGED <<role, client, master_write, buf_pts, sent, log>>
  BY DEF LoggingAborts
<1>2. PICK b \in Browsers, c \in Conns :
        /\ b = buf_pts[f].sock2browser /\ c = client[b]
        /\ f \in Servers /\ up
        /\ b \notin master_write /\ Dequeued(c) = {b}
        /\ \A s \in Servers : buf_pts[s].sock2browser = b => s = f
        /\ Stage(c) = "forwarded"
        /\ RequestMap[c] = buf_pts[b].http_reply_p
        /\ UNCHANGED got \/ got' = [got EXCEPT ![c] = Append(@, RequestMap[c])]
  <2>1. AtSendBrowser(f) /\ Relay(f)
    BY <1>1
  <2> QED
    BY <2>1, ReplyDue, Zenon
<1>3. RequestMap[c].rate # 0
  <2>1. buf_pts[b].http_reply_p # NONE /\ buf_pts[b].chunk_name # NONE
    BY <1>1, <1>2 DEF Inv, InvServers
  <2> QED
    BY <1>2, <2>1 DEF ChunkNamed, NoChunk
<1>4. ASSUME NEW d \in Conns
      PROVE  Dequeued(d)' = Dequeued(d) /\ (Forwarded(d)' <=> Forwarded(d))
  BY <1>1 DEF Dequeued, OwnFds, Forwarded, Browsers, Servers
<1>5. ASSUME NEW d \in Conns
      PROVE  Stage(d)' = Stage(d) /\ RequestOf(d)' = RequestOf(d)
  <2>1. Dequeued(d) = {} => got'[d] = got[d]
    <3>1. CASE d = c
      BY <1>2, <3>1
    <3>2. CASE d # c
      BY <1>2, <3>2 DEF Inv, TypeOK
    <3> QED
      BY <3>1, <3>2
  <2> QED
    BY <1>1, <1>4, <2>1, StageKept
<1>6. UNCHANGED <<StageMap, RequestMap>>
  BY <1>5, MapKept
<1>7. StageMap[c] = "forwarded"
  BY <1>2 DEF StageMap
<1>8. Service!Stop
  BY <1>1, <1>2, <1>3, <1>6, <1>7 DEF Service!Stop, Service!Tell
<1> QED
  BY <1>8 DEF Service!Next

\* Every other end of the process leaves the stages as they are.
LEMMA ExitMaps == ASSUME up, Exit PROVE Service!Next
<1>1. UNCHANGED <<role, client, master_write, sent, got, buf_pts, log>> /\ up' = FALSE
  BY DEF Exit, world
<1>2. UNCHANGED <<StageMap, RequestMap>>
  BY <1>1, QuietKept
<1> QED
  BY <1>1, <1>2 DEF Service!Next, Service!Stop

\* Select, the reads that complete nothing, a server's reply that is whole and
\* the world: none is seen by the service.
LEMMA QuietSteps ==
  ASSUME Inv,
         \/ Select \/ WorldStep \/ UNCHANGED vars
         \/ \E f \in Fd : RecvPart(f) \/ RecvNothing(f) \/ RecvReply(f)
  PROVE  UNCHANGED Service!vars
<1>1. TypeOK
  BY DEF Inv
<1>2. ASSUME UNCHANGED <<role, client, sent, got, log, up>>,
             UNCHANGED master_write,
             \A f \in Fd : /\ buf_pts'[f].http_reply_p = buf_pts[f].http_reply_p
                           /\ buf_pts'[f].sock2browser = buf_pts[f].sock2browser
      PROVE  UNCHANGED Service!vars
  BY <1>2, QuietKept DEF Service!vars
<1>3. CASE \/ Select \/ WorldStep \/ UNCHANGED vars
           \/ \E f \in Fd : RecvPart(f) \/ RecvNothing(f)
  <2>1. UNCHANGED <<role, client, sent, got, log, up, master_write, buf_pts>>
    BY <1>3
    DEF Select, RecvPart, RecvNothing, WorldStep, Connect, Hangup, Stall, Resume,
        BrowserSends, ServerSends, ServerStops, vars, world, loop
  <2> QED
    BY <1>2, <2>1
<1>4. ASSUME NEW f \in Fd, RecvReply(f) PROVE UNCHANGED Service!vars
  <2>1. f \in Servers /\ buf_pts' = [buf_pts EXCEPT ![f].status = "TO_BROWSER"]
    BY <1>4, RecvServerIsServer DEF RecvReply, ReplyReceived
  <2>2. ASSUME NEW g \in Fd
        PROVE  /\ buf_pts'[g].http_reply_p = buf_pts[g].http_reply_p
               /\ buf_pts'[g].sock2browser = buf_pts[g].sock2browser
    <3>1. buf_pts[g] \in Buf
      BY <1>1 DEF TypeOK
    <3> QED
      BY <1>1, <2>1, <3>1 DEF TypeOK, Buf
  <2>3. master_write' = master_write \cup {f} /\ \A c \in Conns : f \notin Dequeued(c)
    BY <1>4, <2>1 DEF RecvReply, TurnToWriting, Dequeued, OwnFds, Browsers, Servers
  <2>4. UNCHANGED <<role, client, sent, got, log, up>>
    BY <1>4 DEF RecvReply
  <2>5. ASSUME NEW c \in Conns PROVE Dequeued(c)' = Dequeued(c) /\ Dequeued(c) \subseteq Fd
    BY <2>2, <2>4 DEF Dequeued, OwnFds, Browsers
  <2>6. ASSUME NEW c \in Conns PROVE Forwarded(c)' <=> Forwarded(c)
    BY <2>2, <2>4, <2>5 DEF Forwarded, Servers
  <2>7. \A c \in Conns : Stage(c)' = Stage(c) /\ RequestOf(c)' = RequestOf(c)
    BY <2>2, <2>3, <2>4, <2>5, <2>6, StageKept
  <2> QED
    BY <2>4, <2>7, MapKept DEF Service!vars
<1> QED
  BY <1>3, <1>4

LEMMA NextMaps ==
  ASSUME Inv, ChunkNamed, [Next]_vars PROVE [Service!Next]_Service!vars
<1>1. CASE Accept
  BY <1>1, AcceptMaps
<1>2. CASE AcceptFails
  BY <1>2, ExitMaps DEF AcceptFails, AtRead, Visiting
<1>3. ASSUME NEW f \in Fd, Visit(f) PROVE [Service!Next]_Service!vars
  <2>1. CASE RecvPart(f) \/ RecvNothing(f) \/ RecvReply(f)
    BY <2>1, QuietSteps
  <2>2. CASE \/ RecvFloodFails(f) \/ RecvReplyFails(f) \/ SendServerFails(f)
             \/ SendBrowserFails(f)
    BY <2>2, ExitMaps
    DEF RecvFloodFails, RecvReplyFails, SendServerFails, SendBrowserFails, AtRecvBrow,
        AtRecvServer, AtSendServer, AtSendBrowser, AtRead, AtWrite, Visiting
  <2> QED
    BY <1>3, <2>1, <2>2, RecvFloodMaps, RecvRequestMaps, SendServerMaps,
       SendBrowserMaps, LoggingAbortsMaps
    DEF Visit
<1> QED
  BY <1>1, <1>2, <1>3, QuietSteps DEF Next, ProxyStep

LEMMA InitMaps == Init => Service!Init /\ ChunkNamed
<1> SUFFICES ASSUME Init PROVE Service!Init /\ ChunkNamed
  OBVIOUS
<1>1. Browsers = {}
  BY DEF Init, Browsers
<1>2. ASSUME NEW c \in Conns PROVE Dequeued(c) = {} /\ got[c] = <<>>
  BY <1>1 DEF Init, Dequeued, OwnFds
<1>3. ASSUME NEW c \in Conns PROVE Stage(c) = "waiting" /\ RequestOf(c) = NONE
  BY <1>2 DEF Stage, RequestOf
<1>4. StageMap = [c \in Conns |-> "waiting"] /\ RequestMap = [c \in Conns |-> NONE]
  BY <1>3 DEF StageMap, RequestMap
<1> QED
  BY <1>1, <1>4 DEF Init, Service!Init, ChunkNamed

\* The loop implements the service: whatever order descriptors are visited in,
\* whichever numbers are reused and whatever goes wrong around it, a request goes
\* to send() once at most, its reply goes out once at most and only after that,
\* and the log has one line for every reply to a chunk, none for any other, unless
\* the process ends between a reply and its line.
THEOREM Implementation == Spec => ImplementsService
<1>1. Init => Service!Init /\ ChunkNamed
  BY InitMaps
<1>2. Inv /\ ChunkNamed /\ [Next]_vars => ChunkNamed'
  BY NextNamed
<1>3. Inv /\ ChunkNamed /\ [Next]_vars => [Service!Next]_Service!vars
  BY NextMaps
<1> QED
  BY <1>1, <1>2, <1>3, Invariant, PTL DEF Spec, ImplementsService, Service!Spec
=============================================================================
