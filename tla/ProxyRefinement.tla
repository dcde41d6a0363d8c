-------------------------- MODULE ProxyRefinement --------------------------
(***************************************************************************)
(* The loop of src/proxy.c implements ProxyService.  What is forwarded,    *)
(* told and logged is the same in both; the stage of a connection's        *)
(* request is read off the descriptors that work for it.                   *)
(***************************************************************************)
EXTENDS Proxy

\* The browser descriptors of a connection: one from accept on, none before.
OwnFds(c) == {b \in Browsers : client[b] = c}
Dequeued(c) == {b \in OwnFds(c) : buf_pts[b].http_reply_p # NONE}

\* A server descriptor works for the request of c.
Forwarded(c) == \E s \in Servers : buf_pts[s].sock2browser \in Dequeued(c)

Stage(c) ==
  IF Dequeued(c) = {} THEN (IF got[c] = <<>> THEN "waiting" ELSE "refused")
  ELSE IF Forwarded(c) THEN "forwarded"
  ELSE IF Dequeued(c) \cap master_write # {} THEN "asked"
  ELSE "done"

\* The request of c, once it has been dequeued.
RequestOf(c) ==
  IF Dequeued(c) = {} THEN NONE
  ELSE buf_pts[CHOOSE b \in Dequeued(c) : TRUE].http_reply_p

StageMap   == [c \in Conns |-> Stage(c)]
RequestMap == [c \in Conns |-> RequestOf(c)]

Service == INSTANCE ProxyService WITH stage <- StageMap, request <- RequestMap

\* Every step of the loop, with every fault of its environment, is a step of
\* the service or none: a request goes to send() once at most, and is that
\* browser's own; its reply is sent once at most, and only after it; and the
\* reply to a chunk has exactly one line in the log, unless the process ends
\* between the two (helper.c:608).
ImplementsService == Service!Spec
=============================================================================
