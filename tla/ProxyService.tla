---------------------------- MODULE ProxyService ----------------------------
(***************************************************************************)
(* What the proxy promises browsers, the web server and the reader of its  *)
(* log, with no descriptor, buffer or select in sight.  The request of a   *)
(* connection is forwarded once at most, only then answered, once at most, *)
(* and a reply to a request for a chunk has one line in the log.  Requests *)
(* forwarded, replies and lines are counted: each is an element of a       *)
(* sequence, so that a second one would be a step the service has not got. *)
(* The process may stop at any time, and then does no more.                *)
(* Specifies the loop of src/proxy.c, main.                                *)
(***************************************************************************)
EXTENDS Integers, Sequences

CONSTANTS Conns, Rates, NONE

VARIABLES
  stage,    \* how far the request of a connection has come
  request,  \* that request, once it has been received whole
  sent,     \* what has been forwarded for a connection, in order
  got,      \* what has been sent back to a connection, in order
  log,      \* the lines written, in order
  up

vars == <<stage, request, sent, got, log, up>>

Stages == {"waiting", "refused", "asked", "forwarded", "done"}

MSG503(c) == [conn |-> c, rate |-> -1]

Init ==
  /\ stage = [c \in Conns |-> "waiting"]
  /\ request = [c \in Conns |-> NONE]
  /\ sent = [c \in Conns |-> <<>>]
  /\ got = [c \in Conns |-> <<>>]
  /\ log = <<>>
  /\ up = TRUE

Move(c, from, to) ==
  /\ up
  /\ stage[c] = from
  /\ stage' = [stage EXCEPT ![c] = to]

Tell(c, r) == got' = [got EXCEPT ![c] = Append(@, r)]

\* The request has been received whole.
Ask(c) ==
  /\ Move(c, "waiting", "asked")
  /\ \E rate \in Rates \cup {0} :
       request' = [request EXCEPT ![c] = [conn |-> c, rate |-> rate]]
  /\ UNCHANGED <<sent, got, log, up>>

Refuse(c) ==
  /\ Move(c, "waiting", "refused")
  /\ Tell(c, MSG503(c))
  /\ UNCHANGED <<request, sent, log, up>>

Forward(c) ==
  /\ Move(c, "asked", "forwarded")
  /\ sent' = [sent EXCEPT ![c] = Append(@, request[c])]
  /\ UNCHANGED <<request, got, log, up>>

\* The line of a chunk's reply: the client is the one that asked, or unknown.
Lines(r) == [bitrate : {r.rate}, client_ip : {r.conn, NONE}, chunk_name : {r}]

\* The reply goes to the browser, or is lost when the browser has left; a line
\* is logged for a chunk either way.
Reply(c) ==
  /\ Move(c, "forwarded", "done")
  /\ Tell(c, request[c]) \/ UNCHANGED got
  /\ IF request[c].rate = 0 THEN UNCHANGED log
     ELSE \E line \in Lines(request[c]) : log' = Append(log, line)
  /\ UNCHANGED <<request, sent, up>>

\* The process ends, possibly between the reply to a chunk and its line.
Stop ==
  /\ up /\ up' = FALSE
  /\ \/ UNCHANGED got
     \/ \E c \in Conns : /\ stage[c] = "forwarded"
                        /\ request[c].rate # 0
                        /\ Tell(c, request[c])
  /\ UNCHANGED <<stage, request, sent, log>>

Next == Stop \/ \E c \in Conns : Ask(c) \/ Refuse(c) \/ Forward(c) \/ Reply(c)

Spec == Init /\ [][Next]_vars
=============================================================================
