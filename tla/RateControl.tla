---------------------------- MODULE RateControl ----------------------------
(***************************************************************************)
(* The bitrates on offer and the average throughput (all_rates, avg_tput   *)
(* of src/helper.c).  One pair of globals serves all connections: getf4m   *)
(* reads the bitrates off the manifest before the first is accepted,       *)
(* logging moves the average when a chunk has been relayed, change_rate    *)
(* reads both when any browser asks for one.                               *)
(*                                                                         *)
(* The manifest comes in halves: `bitrate="600` is one, its closing quote  *)
(* with all up to the next bitrate the other.  It is assumed to fit into   *)
(* the buffer of getf4m, which does not look.                              *)
(*                                                                         *)
(* Throughput is in whole Kbps where the code's doubles carry fractions;   *)
(* alpha is the fraction AlphaNum / AlphaDen.                              *)
(***************************************************************************)
EXTENDS Integers, Sequences

CONSTANTS
  MaxNum,              \* max_num of parsef4m, the length of the array
  AlphaNum, AlphaDen,  \* alpha, the second argument of the proxy
  Manifests,           \* the bitrates a manifest may list, in its order (atoi
                       \* reads one that is no number as 0)
  NONE                 \* a null pointer

ASSUME RateAssumption ==
  /\ MaxNum \in Nat \ {0, 1}
  /\ AlphaDen \in Nat \ {0}
  /\ AlphaNum \in 0 .. AlphaDen
  /\ Manifests \subseteq Seq(Nat)

VARIABLES
  manifest,    \* what the web server has for getf4m
  received,    \* how many halves of it are in getf4m's buf
  all_rates, avg_tput

manifest_vars == <<manifest, received, all_rates>>
rate_vars == <<manifest_vars, avg_tput>>

Slots == 0 .. MaxNum - 1

\* Its last bitrate was cut off before the closing quote, and the loop of
\* parsef4m, which stops one short of the array's length, gets there.
WrongFormat(n) == n % 2 = 1 /\ n \div 2 < MaxNum - 1

\* Mutations: the last slot is filled as well; the closing quote is not needed,
\* so that a rate may lack a digit.
parsef4m_full(n) ==
  IF WrongFormat(n) THEN NONE
  ELSE [i \in Slots |-> IF i < n \div 2 THEN manifest[i + 1] ELSE 0]
parsef4m_cut(n) ==
  [i \in Slots |-> IF i < n \div 2 /\ i < MaxNum - 1 THEN manifest[i + 1]
                   ELSE IF WrongFormat(n) /\ i = n \div 2 THEN manifest[i + 1] \div 10
                   ELSE 0]

\* parsef4m, for n halves of the manifest: NONE when it exits.  Reading stops one
\* short of the array's length, so that calloc's 0 ends it.
parsef4m(n) ==
  IF WrongFormat(n) THEN NONE
  ELSE [i \in Slots |-> IF i < n \div 2 /\ i < MaxNum - 1 THEN manifest[i + 1] ELSE 0]

RateInit ==
  /\ manifest \in Manifests
  /\ received = 0
  /\ all_rates = NONE
  /\ avg_tput = 0

\* recv returns more of the manifest.
RecvManifest ==
  /\ all_rates = NONE
  /\ received' \in received + 1 .. 2 * Len(manifest)
  /\ UNCHANGED <<manifest, all_rates, avg_tput>>

\* recv returns 0: the web server has closed, be it early.  What has come is
\* parsed; main closes the socket, and buf is left behind.
GotManifest ==
  /\ all_rates = NONE
  /\ parsef4m(received) # NONE
  /\ all_rates' = parsef4m(received)
  /\ manifest' = <<>>
  /\ received' = 0
  /\ UNCHANGED avg_tput

-----------------------------------------------------------------------------
\* Mutation: a rate that takes up the whole of what is affordable is refused.
AffordableLess(rate) == 3 * rate < 2 * avg_tput

\* rate <= avg_tput / 1.5
Affordable(rate) == 3 * rate <= 2 * avg_tput

\* Where the walk of change_rate over the array may stop, and where it does.
Stops == {i \in Slots : all_rates[i] = 0 \/ ~Affordable(all_rates[i])}
Stop  == CHOOSE i \in Stops : \A j \in Stops : i <= j

new_rate == IF Stop = 0 THEN all_rates[0] ELSE all_rates[Stop - 1]

\* Mutation: the first throughput is averaged with the 0 that means "none yet".
AverageFromZero(tput) ==
  (AlphaNum * tput + (AlphaDen - AlphaNum) * avg_tput) \div AlphaDen

\* avg_tput once a chunk has come through at tput.
Average(tput) ==
  IF avg_tput = 0
  THEN tput
  ELSE (AlphaNum * tput + (AlphaDen - AlphaNum) * avg_tput) \div AlphaDen

-----------------------------------------------------------------------------
\* The walks of change_rate and of main end inside the array, whatever the
\* average is and however many bitrates the manifest lists.
RatesTerminated == all_rates # NONE => \E i \in Slots : all_rates[i] = 0

\* The bitrates on offer: what the manifest lists before a 0.
Listed(i) == \A k \in 0 .. i : all_rates[k] # 0
Offered == {all_rates[i] : i \in {j \in Slots : Listed(j)}}

\* They are listed from the lowest to the highest.
Ascending ==
  \A i, j \in Slots : i < j /\ Listed(j) => all_rates[i] <= all_rates[j]

\* A rate goes on offer when all of it has come, in its place in the manifest:
\* one that is cut short gives fewer rates or none, never a different one.
RatesAreListed ==
  [][all_rates' # all_rates =>
       /\ all_rates = NONE
       /\ \A i \in Slots : all_rates'[i] # 0 =>
            /\ 2 * (i + 1) <= received
            /\ all_rates'[i] = manifest[i + 1]]_rate_vars
=============================================================================
