--------------------------- MODULE RequestIntake ---------------------------
(***************************************************************************)
(* What happens to the bytes of browsers: recv_BROW of src/http_parser.c   *)
(* with all it calls.  A connection's struct buf collects segments in rbuf *)
(* until a request is whole; requests are parsed, queued, and the first is *)
(* dequeued, rewritten (manifest, bitrate, Connection) and handed to the   *)
(* event loop to be sent on.  Once its reply is through, logging moves the *)
(* average the next bitrates are chosen by.                                *)
(*                                                                         *)
(* There is one operator per function of the code, from struct buf to      *)
(* struct buf.  Text is a sequence of tokens of size one: a request line,  *)
(* the headers, a CRLF, a piece of a body.  Pointers into rbuf are counts  *)
(* of the tokens before them.  Behind the last token rbuf holds zeros, one *)
(* more than BUF_SIZE with the allocator the code is built for, so that    *)
(* strstr ends there.  Sockets, descriptors and their order are Proxy's.   *)
(***************************************************************************)
EXTENDS RateControl, FiniteSets, SequencesExt

CONSTANTS
  Conns,     \* browser connections
  Streams,   \* what each may send: a function to sets of sequences of requests
  BUF_SIZE,  \* capacity of rbuf, in tokens
  Tputs      \* throughputs a reply may come through at

ASSUME IntakeAssumption ==
  /\ BUF_SIZE \in Nat \ {0}
  /\ Tputs \subseteq Nat \ {0}

VARIABLES
  up,       \* FALSE once the process has died
  stream,   \* the requests a browser sends, one behind the other
  taken,    \* how many tokens of them the proxy has read
  stage,    \* reading, handed (recv_ret 1), refused, dropped (0), replied
  bufs,     \* the struct buf of each connection
  rate_at,  \* avg_tput when the bitrate of a connection's chunk was chosen
  log       \* the lines of the log, in order

vars == <<up, stream, taken, stage, bufs, rate_at, log, rate_vars>>

-----------------------------------------------------------------------------
\* Text.  A request line names a file: the manifest ("f4m", or "nolist" for the
\* one without a list), a chunk of the video at a rate, some page, or a page
\* with "Seg" somewhere in its name.

CRLF == [t |-> "crlf"]
Line(r) == [t |-> "line", method |-> r.method, file |-> r.file, rate |-> r.rate]
Headers(r) == [t |-> "headers", cont_len |-> r.cont_len, alive |-> r.alive]
HasHeaders(r) == r.cont_len # 0 \/ r.alive

Text(r) ==
  <<Line(r), CRLF>> \o (IF HasHeaders(r) THEN <<Headers(r), CRLF>> ELSE <<>>)
    \o <<CRLF>> \o r.body

Token ==
  [t : {"crlf", "body"}] \cup [t : {"headers"}, cont_len : Nat, alive : BOOLEAN]
    \cup [ t : {"line"}, method : {"GET", "POST"}, rate : Nat,
           file : {"page", "f4m", "nolist", "chunk", "seg"} ]

\* What a browser may ask for: the length it gives is that of the body, and only
\* a POST has one.
Request ==
  {r \in [ method : {"GET", "POST"}, rate : Nat, alive : BOOLEAN, cont_len : Nat,
           file : {"page", "f4m", "nolist", "chunk", "seg"},
           body : Seq([t : {"crlf", "body"}]) ] :
     r.cont_len = Len(r.body) /\ (r.method = "GET" => r.body = <<>>)}

ASSUME StreamsAssumption ==
  /\ \A c \in Conns : Streams[c] \subseteq Seq(Request) \ {<<>>}
  /\ NONE \notin Token \cup Seq(Token)

StreamText(c) == FlattenSeq([i \in 1 .. Len(stream[c]) |-> Text(stream[c][i])])

\* What strstr finds first in s, 0 if nothing.
Vod(s) == SelectInSeq(s, LAMBDA k : k.t = "line" /\ k.file \in {"f4m", "nolist", "chunk"})
Seg(s) == SelectInSeq(s, LAMBDA k : k.t = "line" /\ k.file \in {"chunk", "seg"})
F4m(s) == SelectInSeq(s, LAMBDA k : k.t = "line" /\ k.file = "f4m")
KeepAlive(s) == SelectInSeq(s, LAMBDA k : k.t = "headers" /\ k.alive)

\* Whether a CRLFCRLF ends at offset i of s, when it is looked for from offset
\* p, and then from behind each one that was found.
CRLF2Ends(s, p) ==
  LET ends[i \in p .. Len(s)] ==
        i >= p + 2 /\ s[i] = CRLF /\ s[i - 1] = CRLF /\ ~ends[i - 1]
  IN  {i \in p .. Len(s) : ends[i]}

-----------------------------------------------------------------------------
InitBuf ==
  [ rbuf |-> <<>>, rbuf_size |-> 0, rbuf_head |-> 0, parse_p |-> 0,
    rbuf_req_count |-> 0, req_fully_received |-> TRUE,
    http_reqs |-> <<>>,       \* the requests that were queued, in order
    req_queue |-> <<>>,       \* those still in the queue, by their number
    http_req_p |-> 0,         \* number of the last one parsed, 0 for one that
    http_reply_p |-> 0,       \*   is not queued or for null
    res_fully_sent |-> TRUE, buf |-> NONE, bitrate |-> 0, chunk_name |-> NONE ]

reset_rbuf(b) ==
  [b EXCEPT !.rbuf = <<>>, !.rbuf_size = 0, !.rbuf_head = 0, !.parse_p = 0]

\* recv_request: what it finds before recv, and after recv got toks.
Emptied(b) == IF b.req_fully_received THEN reset_rbuf(b) ELSE b

\* Mutations: a place of rbuf more or less than there is.
FreeSizeMore(b) == BUF_SIZE + 1 - Emptied(b).rbuf_size
FreeSizeLess(b) == BUF_SIZE - 1 - Emptied(b).rbuf_size

FreeSize(b) == BUF_SIZE - Emptied(b).rbuf_size

recv_request(b, toks) ==
  [Emptied(b) EXCEPT !.rbuf = @ \o toks, !.rbuf_size = @ + Len(toks)]

\* And when recv got none: its result, 0 or -1, is added to rbuf_size all the same.
recv_nothing(b, readbytes) == [Emptied(b) EXCEPT !.rbuf_size = @ + readbytes]

-----------------------------------------------------------------------------
\* parse_request

\* Mutation: counting goes on behind the last token received.
count_requests_all(b) ==
  [b EXCEPT !.rbuf_req_count = @ + Cardinality(CRLF2Ends(b.rbuf, b.parse_p)),
            !.parse_p        = b.rbuf_size]

\* Its first loop: one request for every CRLFCRLF, from parse_p on.
count_requests(b) ==
  LET ends == CRLF2Ends(b.rbuf, b.parse_p)
  IN  [b EXCEPT !.rbuf_req_count = @ + Cardinality(ends),
                !.parse_p        = Max(ends \cup {@})]

\* parse_request_line, for a request at offset from.  Text that starts with
\* anything but a request line, such as what is left of a body, has no method.
Method(s, from) ==
  IF s[from + 1].t = "line" THEN s[from + 1].method ELSE "method_not_found"

\* parse_request_headers: the first header behind the request line counts when
\* it comes before the request's end.
ContLen(s, from, to) ==
  LET h == {i \in from + 1 .. Len(s) : s[i].t = "headers"}
  IN  IF h # {} /\ Min(h) < to THEN s[Min(h)].cont_len ELSE 0

\* Mutation: the text of a POST is not saved.
http_req_unsaved(s, from, to) ==
  [ method   |-> Method(s, from),
    cont_len |-> ContLen(s, from, to),
    orig_req |-> IF Method(s, from) = "POST" THEN NONE ELSE SubSeq(s, from + 1, to) ]

http_req(s, from, to) ==
  [ method   |-> Method(s, from),
    cont_len |-> ContLen(s, from, to),
    orig_req |-> SubSeq(s, from + 1, to) ]

NoLength(req) == req.method = "POST" /\ req.cont_len = 0

\* Mutation: a body that ends with the segment is waited for.
FullyReceivedMore(b, req, to) ==
  req.method # "POST" \/ NoLength(req) \/ b.rbuf_size - to > req.cont_len

\* parse_message_body: all that follows a POST's header is taken for its body.
FullyReceived(b, req, to) ==
  req.method # "POST" \/ NoLength(req) \/ b.rbuf_size - to >= req.cont_len

\* Mutation: requests are put in at the head of the queue.
req_enqueue_head(q, p) == Reverse(p) \o q

req_enqueue(q, p) == q \o p

\* Mutation: req_fully_received is left as it is when nothing can be parsed.
nothing_parsed_yet(b) == b

nothing_parsed(b) == [b EXCEPT !.req_fully_received = FALSE]

\* Where the i-th request behind rbuf_head ends.
ReqEnd(b, i) ==
  LET ends == CRLF2Ends(b.rbuf, b.rbuf_head)
  IN  IF i = 0 THEN b.rbuf_head
      ELSE CHOOSE e \in ends : Cardinality({j \in ends : j <= e}) = i

Counted(b, i) == http_req(b.rbuf, ReqEnd(b, i - 1), ReqEnd(b, i))

\* The counted requests whose body is not through.
Short(b) ==
  {i \in 1 .. b.rbuf_req_count : ~FullyReceived(b, Counted(b, i), ReqEnd(b, i))}

\* Its second loop: as many of the counted requests as are whole go into the
\* queue, up to a POST whose body is not through.  push_error puts MSG411 into
\* buf, which is not what the browser is sent.
parse_counted(b) ==
  LET short == Short(b)
      n     == IF short = {} THEN b.rbuf_req_count ELSE Min(short) - 1
      old   == Len(b.http_reqs)
  IN  [b EXCEPT
         !.rbuf_req_count     = @ - n,
         !.rbuf_head          = ReqEnd(b, n),
         !.req_fully_received = short = {},
         !.http_reqs          = @ \o [i \in 1 .. n |-> Counted(b, i)],
         !.req_queue          = req_enqueue(@, [i \in 1 .. n |-> old + i]),
         !.http_req_p         = IF short = {} THEN old + n ELSE 0,
         !.buf                = IF \E i \in 1 .. n : NoLength(Counted(b, i))
                                THEN "MSG411" ELSE @]

parse_request(b) ==
  LET counted == count_requests(b)
  IN  IF counted.rbuf_req_count = 0 THEN nothing_parsed(counted)
                                    ELSE parse_counted(counted)

-----------------------------------------------------------------------------
\* recv_BROW, once a request is in the queue.

dequeue_request(b) ==
  IF b.res_fully_sent
  THEN [b EXCEPT !.http_reply_p   = Head(b.req_queue),
                 !.req_queue      = Tail(b.req_queue),
                 !.res_fully_sent = FALSE]
  ELSE b

\* return_nolist: the request becomes all of rbuf, with its first f4m replaced.
return_nolist(b) ==
  LET i == F4m(b.rbuf)
  IN  IF i = 0 THEN b
      ELSE [b EXCEPT !.http_reqs[b.http_reply_p].orig_req =
                       [b.rbuf EXCEPT ![i].file = "nolist"]]

\* change_rate: what stands between the first "/vod/" and the first "Seg" of
\* rbuf is replaced by a bitrate, and the request becomes all of rbuf.
change_rate(b) ==
  LET i       == Vod(b.rbuf)
      j       == Seg(b.rbuf)
      chunk   == [b.rbuf[i] EXCEPT !.file = "chunk", !.rate = new_rate]
      rewritten == SubSeq(b.rbuf, 1, i - 1) \o <<chunk>>
                     \o SubSeq(b.rbuf, j + 1, Len(b.rbuf))
  IN  IF j = 0 THEN b
      ELSE IF avg_tput = 0
           THEN [b EXCEPT !.bitrate = IF i = j THEN b.rbuf[i].rate ELSE 0]
           ELSE [b EXCEPT !.bitrate = new_rate,
                          !.http_reqs[b.http_reply_p].orig_req = rewritten]

\* log_chunkname looks at the last request parsed.
LastParsed(b) == b.http_reqs[b.http_req_p].orig_req

log_chunkname(b) ==
  IF Seg(LastParsed(b)) = 0 THEN b
  ELSE [b EXCEPT !.chunk_name = LastParsed(b)[Vod(LastParsed(b))]]

switch_to_close(b) ==
  LET i == KeepAlive(LastParsed(b))
  IN  IF i = 0 THEN b
      ELSE [b EXCEPT !.http_reqs[b.http_req_p].orig_req[i].alive = FALSE]

\* Mutations: the chunk's name is noted before its bitrate is changed, or the
\* connection switched to close.
prepare_request_named(b) ==
  switch_to_close(change_rate(log_chunkname(return_nolist(dequeue_request(b)))))
prepare_request_closed(b) ==
  log_chunkname(change_rate(switch_to_close(return_nolist(dequeue_request(b)))))

prepare_request(b) ==
  switch_to_close(log_chunkname(change_rate(return_nolist(dequeue_request(b)))))

\* In between the process dies of a failed assertion (a name with "Seg" and no
\* "/vod/" before it) or of the null orig_req of a POST not yet whole.
Kills(b) ==
  \/ Seg(b.rbuf) # 0 /\ (Vod(b.rbuf) = 0 \/ Seg(b.rbuf) < Vod(b.rbuf))
  \/ ~ /\ b.http_req_p # 0
       /\ LastParsed(b) # NONE
       /\ Seg(LastParsed(b)) # 0 => Vod(LastParsed(b)) # 0

\* parse_message_body copies all that follows a POST's header into room for
\* cont_len characters.
Overrun(s) ==
  LET ends == CRLF2Ends(s, 0)
  IN  \E from \in ends \cup {0}, to \in ends :
        /\ from < to /\ ~\E e \in ends : from < e /\ e < to
        /\ Method(s, from) = "POST"
        /\ ContLen(s, from, to) \in 1 .. Len(s) - to - 1

\* Between the "/vod/" of one request and the "Seg" of a later one there may be
\* more than the 128 characters change_rate has room for.  What either copy
\* overwrites may kill the process.
MayKill(b) == Overrun(b.rbuf) \/ Seg(b.rbuf) \notin {0, Vod(b.rbuf)}

-----------------------------------------------------------------------------
Init ==
  /\ RateInit
  /\ up = TRUE
  /\ stream \in {f \in [Conns -> UNION {Streams[c] : c \in Conns}] :
                   \A c \in Conns : f[c] \in Streams[c]}
  /\ taken = [c \in Conns |-> 0]
  /\ stage = [c \in Conns |-> "reading"]
  /\ bufs = [c \in Conns |-> InitBuf]
  /\ rate_at = [c \in Conns |-> 0]
  /\ log = <<>>

\* main before its loop: getf4m has not returned yet.
Starting == up /\ all_rates = NONE

Start ==
  /\ Starting
  /\ RecvManifest \/ GotManifest
  /\ UNCHANGED <<up, stream, taken, stage, bufs, rate_at, log>>

\* main exits: an argument is no address, a call fails, or parsef4m finds a
\* manifest in wrong format.
StartFails ==
  /\ Starting
  /\ up' = FALSE
  /\ UNCHANGED <<stream, taken, stage, bufs, rate_at, log, rate_vars>>

\* The loop may receive from c.
Reading(c) == up /\ all_rates # NONE /\ stage[c] = "reading"

\* The struct buf of c once recv has got n tokens and they have been parsed.
Received(c, n) ==
  parse_request(recv_request(bufs[c], SubSeq(StreamText(c), taken[c] + 1, taken[c] + n)))

\* recv returns n tokens: a segment, or what rbuf has room for.
Segment(c, n) ==
  /\ Reading(c)
  /\ n <= FreeSize(bufs[c])
  /\ n <= Len(StreamText(c)) - taken[c]
  /\ taken' = [taken EXCEPT ![c] = @ + n]

\* recv_BROW returns 2: no request is whole yet.
RecvPart(c, n) ==
  /\ Segment(c, n)
  /\ Received(c, n).req_queue = <<>>
  /\ bufs' = [bufs EXCEPT ![c] = Received(c, n)]
  /\ UNCHANGED <<up, stream, stage, rate_at, log, rate_vars>>

\* recv_BROW returns 1: http_reply_p is ready to be sent on.
RecvRequest(c, n) ==
  /\ Segment(c, n)
  /\ LET b == Received(c, n)
     IN  /\ b.req_queue # <<>>
         /\ ~Kills(b)
         /\ bufs' = [bufs EXCEPT ![c] = prepare_request(b)]
  /\ stage' = [stage EXCEPT ![c] = "handed"]
  /\ rate_at' = [rate_at EXCEPT ![c] = avg_tput]
  /\ UNCHANGED <<up, stream, log, rate_vars>>

RecvDies(c, n) ==
  /\ Segment(c, n)
  /\ Received(c, n).req_queue # <<>>
  /\ Kills(Received(c, n)) \/ MayKill(Received(c, n))
  /\ up' = FALSE
  /\ UNCHANGED <<stream, stage, bufs, rate_at, log, rate_vars>>

\* rbuf is full: MSG503 goes back and recv_BROW returns 0.
RecvFull(c) ==
  /\ Reading(c)
  /\ FreeSize(bufs[c]) = 0
  /\ stage' = [stage EXCEPT ![c] = "refused"]
  /\ bufs' = [bufs EXCEPT ![c] = Emptied(@)]
  /\ UNCHANGED <<up, stream, taken, rate_at, log, rate_vars>>

\* recv returns 0 (the browser has closed) or -1: recv_BROW returns 0.
RecvNothing(c) ==
  /\ Reading(c)
  /\ FreeSize(bufs[c]) # 0
  /\ \E readbytes \in {0, -1} :
       bufs' = [bufs EXCEPT ![c] = recv_nothing(@, readbytes)]
  /\ stage' = [stage EXCEPT ![c] = "dropped"]
  /\ UNCHANGED <<up, stream, taken, rate_at, log, rate_vars>>

\* What logging writes about the reply to a client.
LogLine(c, tput) ==
  [ tput |-> tput, avg_tput |-> Average(tput), bitrate |-> bufs[c].bitrate,
    client_ip |-> c, chunk_name |-> bufs[c].chunk_name ]

\* Mutation: every reply moves the average, whether it is a chunk or not.
LoggingAll(c, tput) ==
  /\ avg_tput' = Average(tput)
  /\ log' = IF bufs[c].chunk_name = NONE THEN log ELSE Append(log, LogLine(c, tput))

\* logging: nothing, when the reply is not a chunk.
Logging(c, tput) ==
  IF bufs[c].chunk_name = NONE
  THEN UNCHANGED <<avg_tput, log>>
  ELSE avg_tput' = Average(tput) /\ log' = Append(log, LogLine(c, tput))

\* The reply has been relayed (Proxy's SendBrowser).
Replied(c) ==
  /\ up /\ stage[c] = "handed"
  /\ \E tput \in Tputs : Logging(c, tput)
  /\ stage' = [stage EXCEPT ![c] = "replied"]
  /\ UNCHANGED <<up, stream, taken, bufs, rate_at, manifest_vars>>

Next ==
  \/ Start \/ StartFails
  \/ \E c \in Conns :
       \/ \E n \in 1 .. BUF_SIZE : RecvPart(c, n) \/ RecvRequest(c, n) \/ RecvDies(c, n)
       \/ RecvFull(c) \/ RecvNothing(c) \/ Replied(c)

Spec == Init /\ [][Next]_vars

-----------------------------------------------------------------------------
\* What must hold.

Asked(c)  == stream[c][1]
Single(c) == Len(stream[c]) = 1
Taken(c)  == stage[c] \in {"handed", "replied"}

\* What is sent to the server.
Sent(c) == bufs[c].http_reqs[bufs[c].http_reply_p].orig_req

\* The last offset of the first request, its body included.
RequestEnd(c) == Len(Text(Asked(c)))

\* Every field of a struct buf is of its kind, and its pointers stay in order
\* and in rbuf.
BufOK(b) ==
  /\ b.rbuf \in Seq(Token) /\ Len(b.rbuf) <= BUF_SIZE
  /\ b.rbuf_size \in -1 .. BUF_SIZE
  /\ 0 <= b.rbuf_head /\ b.rbuf_head <= b.parse_p /\ b.parse_p <= Len(b.rbuf)
  /\ b.rbuf_req_count \in 0 .. BUF_SIZE
  /\ b.req_fully_received \in BOOLEAN /\ b.res_fully_sent \in BOOLEAN
  /\ b.http_reqs \in Seq([ method   : {"GET", "POST", "method_not_found"},
                           cont_len : Nat, orig_req : Seq(Token) \cup {NONE} ])
  /\ {b.http_req_p, b.http_reply_p} \subseteq 0 .. Len(b.http_reqs)
  /\ b.req_queue \in Seq(1 .. Len(b.http_reqs))
  /\ b.buf \in {NONE, "MSG411"}
  /\ b.bitrate \in Nat /\ b.chunk_name \in Token \cup {NONE}

TypeOK ==
  /\ up \in BOOLEAN
  /\ manifest \in Manifests \cup {<<>>} /\ received \in 0 .. 2 * Len(manifest)
  /\ all_rates \in [Slots -> Nat] \cup {NONE} /\ avg_tput \in Nat
  /\ \A c \in Conns :
       /\ stream[c] \in Streams[c]
       /\ taken[c] \in 0 .. Len(StreamText(c))
       /\ stage[c] \in {"reading", "handed", "refused", "dropped", "replied"}
       /\ rate_at[c] \in Nat
       /\ BufOK(bufs[c])

\* Segments are put together again: while a request is being received, rbuf
\* holds all that was read of the connection, however it was cut into segments
\* (a buf that seems to hold a whole request is emptied by the next recv).
PartsJoined ==
  up => \A c \in Conns : stage[c] = "reading" =>
    bufs[c].rbuf = SubSeq(StreamText(c), 1, taken[c])

\* The requests counted are those between rbuf_head and parse_p, over any number
\* of receives: parse_request never looks for a CRLFCRLF that is not there
\* (strstr's null is not checked), and never misses one cut by a segment's end.
CountInStep ==
  \A c \in Conns :
    LET b == bufs[c]
    IN  b.rbuf_req_count =
          Cardinality({i \in CRLF2Ends(b.rbuf, b.rbuf_head) : i <= b.parse_p})

\* A request is handed over when its last byte has come, the body of a POST
\* included: neither earlier nor, while more is waited for, later.
HandedWhenWhole ==
  \A c \in Conns :
    /\ stage[c] = "reading" /\ up => taken[c] < RequestEnd(c)
    /\ Taken(c) => taken[c] >= RequestEnd(c)

\* The requests of a segment are queued in the order they were sent in, each
\* with its own method and length, and the first is handed over.  (What follows
\* a POST with a body is taken for a part of it.)
QueuedInOrder ==
  \A c \in Conns : Taken(c) =>
    LET b == bufs[c]
    IN  /\ b.http_reply_p = 1
        /\ b.req_queue = [i \in 1 .. Len(b.http_reqs) - 1 |-> i + 1]
        /\ \A k \in 1 .. Len(b.http_reqs) :
             (\A i \in 1 .. Min({k - 1, Len(stream[c])}) : stream[c][i].body = <<>>) =>
               /\ k <= Len(stream[c])
               /\ b.http_reqs[k].method = stream[c][k].method
               /\ b.http_reqs[k].cont_len = stream[c][k].cont_len

\* MSG503 is for requests that do not fit into rbuf, not for short ones that
\* came in many segments or fill it to the last byte.
RefusedOnlyTooLong ==
  \A c \in Conns : stage[c] = "refused" => RequestEnd(c) > BUF_SIZE

\* What the server should be sent for a request: the same text, but the manifest
\* without its list, a chunk at the chosen rate, and the connection not kept.
Rewritten(c) ==
  [i \in DOMAIN Text(Asked(c)) |->
     LET tok == Text(Asked(c))[i]
     IN  CASE tok.t = "headers" -> [tok EXCEPT !.alive = FALSE]
           [] tok.t = "line" /\ tok.file = "f4m" -> [tok EXCEPT !.file = "nolist"]
           [] tok.t = "line" /\ tok.file = "chunk" -> [tok EXCEPT !.rate = bufs[c].bitrate]
           [] OTHER -> tok]

\* Three rewritings are applied one after the other, each to a copy of its own,
\* and the request sent on has all of them.  (For a browser that does not
\* pipeline, and for requests without a body.)
SentIsAsked ==
  \A c \in Conns : Taken(c) /\ Single(c) /\ Asked(c).body = <<>> => Sent(c) = Rewritten(c)

\* The chunk and the bitrate that will be logged are those of the request sent,
\* although name and rate are read off different copies of it.
LoggedIsSent ==
  \A c \in Conns : Taken(c) /\ Single(c) /\ Asked(c).body = <<>> =>
    IF Asked(c).file = "chunk"
    THEN bufs[c].chunk_name = Sent(c)[1] /\ bufs[c].bitrate = Sent(c)[1].rate
    ELSE bufs[c].chunk_name = NONE

\* Once started, the process survives whatever browsers send, in whatever segments, unless one
\* asks for a page with "Seg" in its name or sends another request behind one.
DiesOnlyOfOddText ==
  up \/ all_rates = NONE \/ \E c \in Conns : ~Single(c) \/ Asked(c).file = "seg"

\* A chunk is asked for at the rate the browser chose until a throughput has been
\* measured; then at one the manifest offers: from an ascending manifest, the
\* highest that takes two thirds of the average at most, or the lowest.
RateIsBestOffer ==
  \A c \in Conns : Taken(c) /\ Single(c) /\ Asked(c).file = "chunk" /\ Offered # {} =>
    IF rate_at[c] = 0
    THEN bufs[c].bitrate = Asked(c).rate
    ELSE LET within == {r \in Offered : 3 * r <= 2 * rate_at[c]}
         IN  /\ bufs[c].bitrate \in Offered
             /\ Ascending =>
                  bufs[c].bitrate = IF within = {} THEN Min(Offered) ELSE Max(within)

\* The average is one of values measured: between the lowest and the highest
\* throughput logged, by whichever connections, and 0 only before the first.
AverageWithinMeasured ==
  IF log = <<>> THEN avg_tput = 0
  ELSE \E i, j \in 1 .. Len(log) : log[i].tput <= avg_tput /\ avg_tput <= log[j].tput

\* Every chunk counts once and nothing else does.  A client's reply leaves one
\* line when it is a chunk, for the client's own request, and none when it is a
\* page, a manifest or still on its way; and the average that all clients share
\* is what these lines alone make of it, in their order: the first throughput,
\* then the weighted mean of each with what was before it.
LinesOf(c) == {i \in DOMAIN log : log[i].client_ip = c}
ChunksCountOnce ==
  /\ \A c \in Conns :
       /\ \A i, j \in LinesOf(c) : i = j
       /\ Single(c) /\ Asked(c).body = <<>> =>
            (LinesOf(c) # {} <=> stage[c] = "replied" /\ Asked(c).file = "chunk")
  /\ avg_tput = IF log = <<>> THEN 0 ELSE log[Len(log)].avg_tput
  /\ \A i \in DOMAIN log :
       log[i].avg_tput =
         IF i = 1 THEN log[i].tput
         ELSE (AlphaNum * log[i].tput + (AlphaDen - AlphaNum) * log[i - 1].avg_tput)
                \div AlphaDen
=============================================================================
