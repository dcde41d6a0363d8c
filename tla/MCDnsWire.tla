----------------------------- MODULE MCDnsWire -----------------------------
(***************************************************************************)
(* Names of one to three labels, of one character, of two, of the longest  *)
(* that are legal, and of the shortest and the longest that are refused,   *)
(* for TLC.                                                                *)
(***************************************************************************)
EXTENDS DnsWire

Label(n, ch) == [k \in 1 .. n |-> ch]
Lengths == {1, 2, 62, 63, 64, 255}

One   == {Label(n, 97) : n \in Lengths}
Two   == {a \o <<DOT>> \o Label(n, 98) : a \in One, n \in Lengths}
Three == {a \o <<DOT>> \o Label(n, 99) : a \in Two, n \in {1, 63}}

SomeNames == One \cup Two \cup Three
SomeIps   == { <<10, 0, 0, 1>>, <<1, 0, 0, 0>>, <<0, 0, 0, 255>>, <<192, 168, 1, 46>> }
SomeIds   == {0, 65535}
=============================================================================
