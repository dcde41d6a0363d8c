----------------------------- MODULE Datagrams -----------------------------
(***************************************************************************)
(* UDP between the resolvers and the nameserver, as src/mydns.c and        *)
(* src/nameserver.c use it: one socket per call of resolve, which sends    *)
(* one datagram and reads one.  The network loses, delays, reorders and    *)
(* duplicates.  Replies waiting for one socket form a set: copies of one   *)
(* reply cannot be told apart by a reader of a single datagram.            *)
(***************************************************************************)
EXTENDS Naturals

CONSTANTS
  Calls,       \* calls of resolve, each with a socket of its own
  MaxCopies,   \* bound on the copies the network makes of one query
  NetFaults    \* a subset of {"loss", "duplication"}

ASSUME DatagramsAssumption ==
  /\ MaxCopies \in Nat
  /\ NetFaults \subseteq {"loss", "duplication"}

VARIABLES
  queries,     \* copies of each call's query in flight
  copies,      \* history: how many of them the network has made
  replies,     \* the addresses in the replies in flight to each call
  lossy        \* history: the calls that have lost a datagram

net == <<queries, copies, replies, lossy>>

NetInit ==
  /\ queries = [c \in Calls |-> 0]
  /\ copies = [c \in Calls |-> 0]
  /\ replies = [c \in Calls |-> {}]
  /\ lossy = {}

SendQuery(c)      == queries' = [queries EXCEPT ![c] = @ + 1]
TakeQuery(c)      == queries[c] > 0 /\ queries' = [queries EXCEPT ![c] = @ - 1]
SendReply(c, ip)  == replies' = [replies EXCEPT ![c] = @ \cup {ip}]
TakeReply(c, ip)  == ip \in replies[c] /\ replies' = [replies EXCEPT ![c] = @ \ {ip}]

Duplicate(c) ==
  /\ "duplication" \in NetFaults
  /\ queries[c] > 0 /\ copies[c] < MaxCopies
  /\ SendQuery(c)
  /\ copies' = [copies EXCEPT ![c] = @ + 1]
  /\ UNCHANGED <<replies, lossy>>

Lose(c) ==
  /\ "loss" \in NetFaults
  /\ \/ TakeQuery(c) /\ UNCHANGED replies
     \/ \E ip \in replies[c] : TakeReply(c, ip) /\ UNCHANGED queries
  /\ lossy' = lossy \cup {c}
  /\ UNCHANGED copies
=============================================================================
