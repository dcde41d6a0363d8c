--------------------------- MODULE RequestProofs ---------------------------
(***************************************************************************)
(* Proofs about the rate control under src/http_parser.c and src/helper.c: *)
(* the average that all connections share, and the array of bitrates, for  *)
(* any browsers, manifests, throughputs and weight alpha.                  *)
(***************************************************************************)
EXTENDS RequestIntake, RecursionLemmas, TLAPS

(***************************************************************************)
(* The average of two throughputs.                                         *)
(***************************************************************************)

LEMMA TimesMonotone ==
  ASSUME NEW a \in Nat, NEW x \in Nat, NEW y \in Nat, x <= y
  PROVE  a * x <= a * y
  BY SMTT(30)

LEMMA Quotient ==
  ASSUME NEW d \in Nat \ {0}, NEW s \in Nat, NEW lo \in Nat, NEW hi \in Nat,
         d * lo <= s, s <= d * hi
  PROVE  s \div d \in Nat /\ lo <= s \div d /\ s \div d <= hi
  BY SMTT(60)

\* A weighted mean, rounded down, lies between what it is the mean of.
LEMMA Between ==
  ASSUME NEW d \in Nat \ {0}, NEW a \in 0 .. d, NEW t \in Nat, NEW v \in Nat,
         NEW lo \in Nat, NEW hi \in Nat, lo <= t, lo <= v, t <= hi, v <= hi
  PROVE  /\ (a * t + (d - a) * v) \div d \in Nat
         /\ lo <= (a * t + (d - a) * v) \div d
         /\ (a * t + (d - a) * v) \div d <= hi
<1>1. a \in Nat /\ d - a \in Nat
  OBVIOUS
<1>2. /\ a * lo <= a * t /\ a * t <= a * hi
      /\ (d - a) * lo <= (d - a) * v /\ (d - a) * v <= (d - a) * hi
  BY <1>1, TimesMonotone
<1>3. a * lo + (d - a) * lo = d * lo /\ a * hi + (d - a) * hi = d * hi
  BY <1>1, SMTT(30)
<1>4. /\ a * t \in Nat /\ (d - a) * v \in Nat
      /\ d * lo <= a * t + (d - a) * v
      /\ a * t + (d - a) * v <= d * hi
  BY <1>1, <1>2, <1>3
<1>5. a * t + (d - a) * v \in Nat
  BY <1>4
<1> QED
  BY <1>4, <1>5, Quotient

(***************************************************************************)
(* The walk of change_rate.                                                *)
(***************************************************************************)

\* The walk ends inside the array, at the first slot it may stop at.
LEMMA StopIsFirst ==
  ASSUME RateAssumption, RatesTerminated, all_rates # NONE
  PROVE  Stop \in Stops /\ \A j \in Stops : Stop <= j
<1>1. Stops \subseteq Nat /\ Stops # {}
  BY DEF RateAssumption, RatesTerminated, Stops, Slots
<1>2. \E i \in Stops : \A j \in Stops : i <= j
  BY <1>1, LeastOne
<1> QED
  BY <1>2 DEF Stop

\* Of the rates on offer, the one the walk picks: one of them and, when they
\* ascend, the highest that takes two thirds of the average at most, or the
\* lowest when none does.
Chosen(rate) ==
  /\ rate \in Offered
  /\ Ascending =>
       \/ /\ Affordable(rate)
          /\ \A r \in Offered : Affordable(r) => r <= rate
       \/ /\ \A r \in Offered : ~Affordable(r)
          /\ \A r \in Offered : rate <= r

LEMMA WalkChooses ==
  ASSUME RateAssumption, RatesTerminated, avg_tput \in Nat, all_rates # NONE,
         all_rates \in [Slots -> Nat], Offered # {}
  PROVE  Chosen(new_rate)
<1>1. /\ Slots \subseteq Nat /\ 0 \in Slots
      /\ \A j \in Slots : j - 1 \in 0 .. j => j - 1 \in Slots
      /\ \A j \in Slots : \A k \in 0 .. j : k \in Slots
  BY DEF RateAssumption, Slots
<1>2. /\ Stop \in Slots /\ Stop \in Nat
      /\ all_rates[Stop] = 0 \/ ~Affordable(all_rates[Stop])
      /\ \A j \in Slots : j < Stop => all_rates[j] # 0 /\ Affordable(all_rates[j])
  <2>1. Stop \in Stops /\ \A j \in Stops : Stop <= j
    BY StopIsFirst
  <2>2. Stop \in Slots /\ Stop \in Nat
    BY <2>1, <1>1 DEF Stops
  <2>3. all_rates[Stop] = 0 \/ ~Affordable(all_rates[Stop])
    BY <2>1 DEF Stops
  <2>4. ASSUME NEW j \in Slots, j < Stop
        PROVE  all_rates[j] # 0 /\ Affordable(all_rates[j])
    <3>1. j \notin Stops
      BY <2>1, <2>2, <2>4, <1>1
    <3> QED
      BY <3>1 DEF Stops
  <2> QED
    BY <2>2, <2>3, <2>4
<1>3. \A r : r \in Offered <=> \E j \in Slots : Listed(j) /\ r = all_rates[j]
  BY DEF Offered
<1>4. all_rates[0] # 0 /\ Listed(0)
  <2>1. PICK j \in Slots : Listed(j)
    BY <1>3
  <2>2. 0 \in 0 .. j
    BY <1>1
  <2>3. all_rates[0] # 0
    BY <2>1, <2>2 DEF Listed
  <2>4. 0 .. 0 = {0}
    OBVIOUS
  <2> QED
    BY <2>3, <2>4 DEF Listed
<1>5. CASE Stop = 0
  <2>1. new_rate = all_rates[0] /\ new_rate \in Offered
    BY <1>1, <1>3, <1>4, <1>5 DEF new_rate
  <2>2. ASSUME Ascending, NEW r \in Offered
        PROVE  new_rate <= r /\ ~Affordable(r)
    <3>1. PICK j \in Slots : Listed(j) /\ r = all_rates[j]
      BY <1>3
    <3>2. all_rates[0] \in Nat /\ all_rates[j] \in Nat /\ j \in Nat
      BY <1>1
    <3>3. all_rates[0] <= all_rates[j]
      BY <1>1, <2>2, <3>1, <3>2 DEF Ascending
    <3>4. ~(3 * all_rates[0] <= 2 * avg_tput)
      BY <1>2, <1>4, <1>5 DEF Affordable
    <3> QED
      BY <2>1, <3>1, <3>2, <3>3, <3>4 DEF Affordable
  <2> QED
    BY <2>1, <2>2 DEF Chosen
<1>6. CASE Stop # 0
  <2> DEFINE i == Stop - 1
  <2>1. i \in Slots /\ i \in Nat /\ i < Stop /\ i + 1 = Stop
    BY <1>1, <1>2, <1>6
  <2>2. new_rate = all_rates[i] /\ Affordable(new_rate)
    BY <1>2, <1>6, <2>1 DEF new_rate
  <2>3. Listed(i)
    <3>1. ASSUME NEW k \in 0 .. i PROVE all_rates[k] # 0
      BY <1>1, <1>2, <2>1
    <3> QED
      BY <3>1 DEF Listed
  <2>4. new_rate \in Offered
    BY <1>3, <2>1, <2>2, <2>3
  <2>5. ASSUME Ascending, NEW r \in Offered, Affordable(r)
        PROVE  r <= new_rate
    <3>1. PICK j \in Slots : Listed(j) /\ r = all_rates[j]
      BY <1>3
    <3>2. j \in Nat /\ all_rates[i] \in Nat /\ all_rates[j] \in Nat
      BY <1>1, <2>1
    <3>3. CASE j < i
      BY <2>1, <2>2, <2>3, <2>5, <3>1, <3>2, <3>3 DEF Ascending
    <3>4. CASE j = i
      BY <2>2, <3>1, <3>2, <3>4
    <3>5. CASE j > i
      <4>1. Stop \in 0 .. j
        BY <1>2, <2>1, <3>2, <3>5
      <4>2. all_rates[Stop] # 0 /\ ~Affordable(all_rates[Stop])
        BY <1>2, <3>1, <4>1 DEF Listed
      <4>3. all_rates[Stop] \in Nat
        BY <1>2
      <4>4. all_rates[Stop] <= all_rates[j]
        BY <1>2, <2>5, <3>1, <3>2, <4>1, <4>3 DEF Ascending
      <4> QED
        BY <2>5, <3>1, <3>2, <4>2, <4>3, <4>4 DEF Affordable
    <3> QED
      BY <2>1, <3>2, <3>3, <3>4, <3>5
  <2> QED
    BY <2>2, <2>4, <2>5 DEF Chosen
<1> QED
  BY <1>5, <1>6

(***************************************************************************)
(* The inductive invariant.                                                *)
(***************************************************************************)

\* The manifest is one of those there may be until it is left behind; all_rates
\* is an array of numbers and ends in 0 once it is there.
InvRates ==
  /\ manifest \in Seq(Nat) /\ received \in 0 .. 2 * Len(manifest)
  /\ all_rates = NONE \/ (all_rates \in [Slots -> Nat] /\ all_rates[MaxNum - 1] = 0)

\* The log is a sequence, of throughputs that were measured.
InvLog ==
  /\ \E S : log \in Seq(S)
  /\ \A i \in 1 .. Len(log) : log[i].tput \in Nat

RateInv == InvRates /\ InvLog /\ avg_tput \in Nat /\ AverageWithinMeasured

\* parsef4m fills every slot with a number, and none but 0 in the last; before
\* a 0 it has what the manifest lists and has come.
LEMMA RatesParsed ==
  ASSUME RateAssumption, InvRates, parsef4m(received) # NONE
  PROVE  /\ parsef4m(received) \in [Slots -> Nat]
         /\ parsef4m(received)[MaxNum - 1] = 0
         /\ \A i \in Slots : parsef4m(received)[i] # 0 =>
              2 * (i + 1) <= received /\ parsef4m(received)[i] = manifest[i + 1]
<1> DEFINE Whole == received \div 2
<1>1. received \in Nat /\ Whole \in Nat /\ 2 * Whole <= received
      /\ Whole <= Len(manifest) /\ Len(manifest) \in Nat
  BY DEF InvRates
<1>2. MaxNum - 1 \in Slots /\ Slots \subseteq Nat
  BY DEF RateAssumption, Slots
<1>3. parsef4m(received) =
        [i \in Slots |-> IF i < Whole /\ i < MaxNum - 1 THEN manifest[i + 1] ELSE 0]
  BY DEF parsef4m
<1> HIDE DEF Whole
<1>4. ASSUME NEW i \in Slots
      PROVE  /\ (IF i < Whole /\ i < MaxNum - 1 THEN manifest[i + 1] ELSE 0) \in Nat
             /\ i < Whole => 2 * (i + 1) <= received
  <2>1. ASSUME i < Whole PROVE manifest[i + 1] \in Nat /\ 2 * (i + 1) <= received
    <3>1. i + 1 \in 1 .. Len(manifest) /\ 2 * (i + 1) <= received
      BY <1>1, <1>2, <2>1
    <3> QED
      BY <3>1 DEF InvRates
  <2> QED
    BY <2>1
<1> QED
  BY <1>2, <1>3, <1>4 DEF RateAssumption

LEMMA RatesMade ==
  ASSUME RateAssumption, InvRates, all_rates # NONE
  PROVE  all_rates \in [Slots -> Nat] /\ RatesTerminated
<1>1. MaxNum - 1 \in Slots
  BY DEF RateAssumption, Slots
<1> QED
  BY <1>1 DEF InvRates, RatesTerminated

LEMMA AppendKeeps ==
  ASSUME NEW S, NEW s \in Seq(S), NEW e
  PROVE  /\ Append(s, e) \in Seq(S \cup {e})
         /\ Len(s) \in Nat /\ Len(Append(s, e)) = Len(s) + 1
         /\ Append(s, e)[Len(s) + 1] = e
         /\ \A i \in 1 .. Len(s) : Append(s, e)[i] = s[i]
<1>1. s \in Seq(S \cup {e}) /\ e \in S \cup {e}
  <2>1. Len(s) \in Nat /\ s \in [1 .. Len(s) -> S \cup {e}]
    OBVIOUS
  <2> QED
    BY <2>1
<1> QED
  BY <1>1

\* The average stays within what was measured when a throughput is logged.
LEMMA LoggingKeeps ==
  ASSUME RateAssumption, IntakeAssumption, RateInv,
         NEW tput \in Tputs, NEW c, Logging(c, tput)
  PROVE  InvLog' /\ avg_tput' \in Nat /\ AverageWithinMeasured'
<1>1. tput \in Nat
  BY DEF IntakeAssumption
<1>2. CASE bufs[c].chunk_name = NONE
  BY <1>2 DEF Logging, RateInv, InvLog, AverageWithinMeasured
<1>3. CASE bufs[c].chunk_name # NONE
  <2> DEFINE e == LogLine(c, tput)
  <2>1. avg_tput' = Average(tput) /\ log' = Append(log, e) /\ e.tput = tput
    BY <1>3 DEF Logging, LogLine
  <2> HIDE DEF e
  <2>2. PICK S : log \in Seq(S)
    BY DEF RateInv, InvLog
  <2>3. /\ log' \in Seq(S \cup {e})
        /\ Len(log) \in Nat /\ Len(log') = Len(log) + 1
        /\ log'[Len(log) + 1] = e
        /\ \A i \in 1 .. Len(log) : log'[i] = log[i]
    BY <2>1, <2>2, AppendKeeps
  <2>4. /\ Len(log) + 1 \in 1 .. Len(log')
        /\ \A i \in 1 .. Len(log) : i \in 1 .. Len(log')
        /\ \A i \in 1 .. Len(log') : i \in 1 .. Len(log) \/ i = Len(log) + 1
    BY <2>3
  <2>5. log'[Len(log) + 1].tput = tput
    BY <2>1, <2>3
  <2>6. InvLog'
    <3>1. ASSUME NEW i \in 1 .. Len(log') PROVE log'[i].tput \in Nat
      BY <1>1, <2>3, <2>4, <2>5 DEF RateInv, InvLog
    <3> QED
      BY <2>3, <3>1 DEF InvLog
  <2>7. log' # <<>>
    BY <2>3
  <2>8. CASE avg_tput = 0
    <3>1. avg_tput' = tput
      BY <2>1, <2>8 DEF Average
    <3>2. /\ log'[Len(log) + 1].tput <= avg_tput'
          /\ avg_tput' <= log'[Len(log) + 1].tput
      BY <1>1, <2>5, <3>1
    <3> QED
      BY <1>1, <2>4, <2>6, <2>7, <3>1, <3>2 DEF AverageWithinMeasured
  <2>9. CASE avg_tput # 0
    <3>1. log # <<>>
      BY <2>9 DEF RateInv, AverageWithinMeasured
    <3>2. PICK i \in 1 .. Len(log), j \in 1 .. Len(log) :
            log[i].tput <= avg_tput /\ avg_tput <= log[j].tput
      BY <3>1 DEF RateInv, AverageWithinMeasured
    <3>3. log[i].tput \in Nat /\ log[j].tput \in Nat /\ avg_tput \in Nat
      BY DEF RateInv, InvLog
    <3>4. PICK lo \in {log[i].tput, tput}, hi \in {log[j].tput, tput} :
            lo <= tput /\ lo <= avg_tput /\ tput <= hi /\ avg_tput <= hi
      BY <1>1, <3>2, <3>3
    <3>5. lo \in Nat /\ hi \in Nat
      BY <1>1, <3>3
    <3>6. avg_tput' = (AlphaNum * tput + (AlphaDen - AlphaNum) * avg_tput) \div AlphaDen
      BY <2>1, <2>9 DEF Average
    <3>7. avg_tput' \in Nat /\ lo <= avg_tput' /\ avg_tput' <= hi
      BY <1>1, <3>3, <3>4, <3>5, <3>6, Between DEF RateAssumption
    <3>8. \E m \in 1 .. Len(log') : log'[m].tput <= avg_tput'
      BY <2>3, <2>4, <2>5, <3>2, <3>7
    <3>9. \E m \in 1 .. Len(log') : avg_tput' <= log'[m].tput
      BY <2>3, <2>4, <2>5, <3>2, <3>7
    <3> QED
      BY <2>6, <2>7, <3>7, <3>8, <3>9 DEF AverageWithinMeasured
  <2> QED
    BY <2>8, <2>9
<1> QED
  BY <1>2, <1>3

LEMMA RateInvInit == Init => RateInv
<1> SUFFICES ASSUME Init PROVE RateInv
  OBVIOUS
<1>1. log = <<>> /\ avg_tput = 0 /\ InvRates
  BY RateAssumption DEF Init, RateInit, InvRates, RateAssumption
<1>2. log \in Seq({}) /\ Len(log) = 0
  BY <1>1
<1> QED
  BY <1>1, <1>2 DEF RateInv, InvLog, AverageWithinMeasured

LEMMA RateInvStep ==
  ASSUME RateAssumption, IntakeAssumption, RateInv, [Next]_vars
  PROVE  RateInv'
<1> DEFINE Kept == UNCHANGED <<log, manifest, received, all_rates, avg_tput>>
<1>1. ASSUME Kept PROVE RateInv'
  BY <1>1 DEF RateInv, InvRates, InvLog, AverageWithinMeasured
<1>2. ASSUME NEW c \in Conns, NEW n \in 1 .. BUF_SIZE,
             RecvPart(c, n) \/ RecvRequest(c, n) \/ RecvDies(c, n)
      PROVE  RateInv'
  <2>1. Kept
    BY <1>2 DEF RecvPart, RecvRequest, RecvDies, rate_vars, manifest_vars
  <2> QED
    BY <1>1, <2>1
<1>3. ASSUME NEW c \in Conns, RecvFull(c) \/ RecvNothing(c)
      PROVE  RateInv'
  <2>1. Kept
    BY <1>3 DEF RecvFull, RecvNothing, rate_vars, manifest_vars
  <2> QED
    BY <1>1, <2>1
<1>4. ASSUME NEW c \in Conns, Replied(c)
      PROVE  RateInv'
  <2>1. PICK tput \in Tputs : Logging(c, tput)
    BY <1>4 DEF Replied
  <2>2. InvLog' /\ avg_tput' \in Nat /\ AverageWithinMeasured'
    BY <2>1, LoggingKeeps
  <2>3. InvRates'
    BY <1>4 DEF Replied, RateInv, InvRates, manifest_vars
  <2> QED
    BY <2>2, <2>3 DEF RateInv
<1>5. ASSUME UNCHANGED vars PROVE RateInv'
  BY <1>1, <1>5 DEF vars, rate_vars, manifest_vars
<1>6. ASSUME Start PROVE RateInv'
  <2>1. UNCHANGED <<log, avg_tput>>
    BY <1>6 DEF Start, RecvManifest, GotManifest
  <2>2. CASE RecvManifest
    <3>1. received' \in received + 1 .. 2 * Len(manifest) /\ manifest' = manifest
      BY <2>2 DEF RecvManifest
    <3>2. received' \in 0 .. 2 * Len(manifest)
      BY <3>1 DEF RateInv, InvRates
    <3>3. InvRates'
      BY <2>2, <3>1, <3>2 DEF RecvManifest, RateInv, InvRates
    <3> QED
      BY <2>1, <3>3 DEF RateInv, InvLog, AverageWithinMeasured
  <2>3. CASE GotManifest
    <3>1. all_rates' \in [Slots -> Nat] /\ all_rates'[MaxNum - 1] = 0
      BY <2>3, RatesParsed DEF GotManifest, RateInv
    <3>2. manifest' \in Seq(Nat) /\ received' \in 0 .. 2 * Len(manifest')
      BY <2>3 DEF GotManifest
    <3> QED
      BY <2>1, <3>1, <3>2 DEF RateInv, InvRates, InvLog, AverageWithinMeasured
  <2> QED
    BY <1>6, <2>2, <2>3 DEF Start
<1>7. ASSUME StartFails PROVE RateInv'
  BY <1>1, <1>7 DEF StartFails, rate_vars, manifest_vars
<1> QED
  BY <1>2, <1>3, <1>4, <1>5, <1>6, <1>7 DEF Next

LEMMA RateInvAlways == Spec => []RateInv
<1>1. Init => RateInv
  BY RateInvInit
<1>2. RateInv /\ [Next]_vars => RateInv'
  BY RateInvStep, RateAssumption, IntakeAssumption
<1> QED
  BY <1>1, <1>2, PTL DEF Spec

(***************************************************************************)
(* What follows from it.                                                   *)
(***************************************************************************)

\* However long the manifest is, the array of bitrates ends with a 0, so that
\* the walk of change_rate ends inside it.
THEOREM ArrayTerminated == Spec => []RatesTerminated
<1>1. RateInv => RatesTerminated
  BY RatesMade, RateAssumption DEF RateInv, RatesTerminated
<1> QED
  BY <1>1, RateInvAlways, PTL

\* The average (avg_tput of helper.c, moved by logging) is never below the
\* lowest nor above the highest throughput logged, whichever connections they
\* came from, in whatever order, and whatever alpha is.
THEOREM AverageIsWithin == Spec => []AverageWithinMeasured
<1>1. RateInv => AverageWithinMeasured
  BY DEF RateInv
<1> QED
  BY <1>1, RateInvAlways, PTL

\* What change_rate picks from the bitrates of any manifest, at any average that
\* is ever reached.
BestOfferPicked == all_rates # NONE /\ Offered # {} => Chosen(new_rate)

\* At any time once the loop runs, change_rate would pick a rate on offer and, when these ascend,
\* the best one for the average or the lowest.
THEOREM WalkPicksBestOffer == Spec => []BestOfferPicked
<1>1. RateInv => BestOfferPicked
  BY RatesMade, WalkChooses, RateAssumption DEF RateInv, BestOfferPicked
<1> QED
  BY <1>1, RateInvAlways, PTL

\* However the manifest is cut short, the array gets only rates that have come
\* whole, in their places, and it gets them once.
THEOREM RatesAreOfManifest == Spec => RatesAreListed
<1>1. RateInv /\ [Next]_vars => [
        all_rates' # all_rates =>
          /\ all_rates = NONE
          /\ \A i \in Slots : all_rates'[i] # 0 =>
               /\ 2 * (i + 1) <= received
               /\ all_rates'[i] = manifest[i + 1]]_rate_vars
  <2> SUFFICES ASSUME RateInv, [Next]_vars, all_rates' # all_rates
               PROVE  /\ all_rates = NONE
                      /\ \A i \in Slots : all_rates'[i] # 0 =>
                           /\ 2 * (i + 1) <= received
                           /\ all_rates'[i] = manifest[i + 1]
    OBVIOUS
  <2>1. GotManifest
    BY DEF Next, Start, RecvManifest, StartFails, RecvPart, RecvRequest, RecvDies,
           RecvFull, RecvNothing, Replied, vars, rate_vars, manifest_vars
  <2> QED
    BY <2>1, RatesParsed, RateAssumption DEF GotManifest, RateInv
<1> QED
  BY <1>1, RateInvAlways, PTL DEF Spec, RatesAreListed
=============================================================================
