------------------------------ MODULE Resolver ------------------------------
(***************************************************************************)
(* resolve (src/mydns.c): one query is sent, the first datagram that comes *)
(* back is the answer.  The code has no timeout, sends no query twice and  *)
(* compares nothing of the reply with the query; every failure of a system *)
(* call ends the process.                                                  *)
(***************************************************************************)
EXTENDS Datagrams

CONSTANT NoAddr    \* the result of a call that has none

VARIABLES
  call,      \* idle, waiting in recvfrom, returned, or exited
  addr       \* the address in res

resolver == <<call, addr>>

ResolverInit ==
  /\ call = [c \in Calls |-> "idle"]
  /\ addr = [c \in Calls |-> NoAddr]

\* make_dns_query and sendto.
Ask(c) ==
  /\ call[c] = "idle"
  /\ call' = [call EXCEPT ![c] = "waiting"]
  /\ SendQuery(c)
  /\ UNCHANGED <<addr, copies, replies, lossy>>

\* socket or sendto fails, or recvfrom does.
Fails(c) ==
  /\ call[c] \in {"idle", "waiting"}
  /\ call' = [call EXCEPT ![c] = "exited"]
  /\ UNCHANGED <<addr, net>>

\* recvfrom and parse_dns_reply.
Return(c) ==
  /\ call[c] = "waiting"
  /\ \E ip \in replies[c] :
       /\ TakeReply(c, ip)
       /\ addr' = [addr EXCEPT ![c] = ip]
  /\ call' = [call EXCEPT ![c] = "returned"]
  /\ UNCHANGED <<queries, copies, lossy>>
=============================================================================
