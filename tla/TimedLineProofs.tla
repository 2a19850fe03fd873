-------------------------- MODULE TimedLineProofs --------------------------
(***************************************************************************)
(* Facts that the proofs about the timed models of the ports share: the    *)
(* numbers of a setup, and what a step of the master does to the clocks.   *)
(***************************************************************************)
EXTENDS TimedLine, RtuProofs, WellFoundedInduction

(* The times that the conditions on a setup are about. *)
LatencyMax    == Max(Latencies)
ReplyTime     == ReplySize * ByteTime(setup)
NextByteTime  == ByteTime(setup) + Max(Gaps(setup))

(* A frame that the slave will have processed in t is in time: the next one,
   if it is the next to come, completes its first byte later. *)
Due(t) == IF Answered(owed) THEN wait["byte"] = OFF
                            ELSE wait["byte"] # OFF /\ t < wait["byte"]

(* The master has a call waiting for the frame that is on the line or in the
   slave if that frame is to be answered. *)
CallWaits == owed \in Frames /\ (wait["call"] # OFF <=> Answered(owed))

----------------------------------------------------------------------------
(* The numbers of a setup. *)

LEMMA MaxIsLongest ==
  ASSUME NEW S, S \subseteq Int, HasLongest(S)
  PROVE  Max(S) \in S /\ \A t \in S : t <= Max(S)
<1>1. PICK m \in S : \A t \in S : t <= m
  BY DEF HasLongest
<1>2. \E x \in S : \A y \in S : x >= y
  BY <1>1
<1>3. Max(S) \in S /\ \A y \in S : Max(S) >= y
  BY <1>2 DEF Max
<1> QED
  BY <1>3

LEMMA MinIsShortest ==
  ASSUME NEW S, S \subseteq Int, NEW m \in S, \A t \in S : m <= t
  PROVE  Min(S) \in S /\ \A t \in S : Min(S) <= t
<1>1. \E x \in S : \A y \in S : x =< y
  OBVIOUS
<1> QED
  BY <1>1 DEF Min

(* Times have a shortest. *)
LEMMA LeastExists ==
  ASSUME NEW S, S \subseteq Nat, S # {}
  PROVE  \E m \in S : \A t \in S : m <= t
<1> DEFINE R == OpToRel(<, Nat)
<1>1. \A x, y \in Nat : x < y => <<x, y>> \in R
  BY DEF OpToRel
<1>2. IsWellFoundedOn(R, Nat)
  BY NatLessThanWellFounded
<1> HIDE DEF R
<1>3. PICK m \in S : \A t \in S : ~(<<t, m>> \in R)
  BY <1>2, WFMin
<1>4. ASSUME NEW t \in S PROVE m <= t
  <2>1. t \in Nat /\ m \in Nat
    OBVIOUS
  <2>2. ~(t < m)
    BY <1>1, <1>3, <2>1, Zenon
  <2> QED
    BY <2>1, <2>2
<1> QED
  BY <1>4

(* The bit rates of the ports. *)
Rates == {1200, 2400, 4800, 9600, 19200, 57600, 115200}

LEMMA RatesOfStrings == \A str : tty_bps(parse_speed(str)) \in Rates
<1> TAKE str
<1>1. parse_speed(str) \in {"B1200", "B2400", "B4800", "B9600", "B19200", "B57600", "B115200"}
  BY DEF parse_speed
<1> QED
  BY <1>1 DEF tty_bps, Rates

LEMMA BpsType == ASSUME NEW s \in Setups PROVE Bps(s) \in Rates
  BY RatesOfStrings DEF Bps, Rates

(* A byte takes a time, and less than the 10 ms of calc_tmax_ms. *)
LEMMA ByteTimeType ==
  ASSUME NEW s \in Setups
  PROVE  ByteTime(s) \in Nat /\ 95 <= ByteTime(s) /\ ByteTime(s) <= 9166
  BY BpsType DEF ByteTime, Rates

LEMMA SilenceType == ASSUME NEW s \in Setups PROVE Silence(s) \in Nat \ {0}
  BY ByteTimeType DEF Silence

(* The silence of the master, and the longest of its gaps and of the latencies. *)
LEMMA LongestType ==
  ASSUME NEW s \in Setups
  PROVE  /\ Space(s) \in Nat
         /\ Gaps(s) \subseteq Nat
         /\ Max(Gaps(s)) \in Nat
         /\ \A gap \in Gaps(s) : gap <= Max(Gaps(s))
         /\ LatencyMax \in Nat
         /\ \A l \in Latencies : l \in Nat /\ l <= LatencyMax
<1>1. Gaps(s) \subseteq Int /\ Latencies \subseteq Int
  BY TimingAssumption
<1> QED
  BY <1>1, TimingAssumption, MaxIsLongest DEF LatencyMax

(* The master expects the size of every reply that pdu_cb may give. *)
LEMMA ReplySizes ==
  /\ ReplySize \in Nat
  /\ \A r \in Replies \ {<<>>} : Len(r \o CalcCrc(r)) = ReplySize
<1> DEFINE q == CHOOSE r \in Replies : r # <<>>
<1>1. q \in Replies /\ q # <<>>
  BY OneReplySize
<1>2. ReplySize = 2 + Len(q)
  BY DEF ReplySize
<1> HIDE DEF q
<1>3. Len(q) \in Nat
  BY <1>1, RepliesAssumption
<1>4. ASSUME NEW r \in Replies \ {<<>>} PROVE Len(r \o CalcCrc(r)) = ReplySize
  <2>1. PICK a \in Byte, b \in Byte : CalcCrc(r) = <<a, b>>
    BY CrcAssumption
  <2>2. r \in Seq(Byte) /\ <<a, b>> \in Seq(Byte) /\ Len(<<a, b>>) = 2
    BY RepliesAssumption
  <2>3. Len(r \o <<a, b>>) = Len(r) + 2
    BY <2>2
  <2>4. Len(r) = Len(q)
    BY <1>1, OneReplySize
  <2> QED
    BY <1>2, <1>3, <2>1, <2>3, <2>4
<1> QED
  BY <1>2, <1>3, <1>4

(* A call waits for a time longer than a byte. *)
LEMMA TimeoutType ==
  ASSUME NEW s \in Setups
  PROVE  read_impl(s) \in Nat /\ read_impl(s) - ByteTime(s) \in Nat
<1>1. (ReplySize * 11000) \div Bps(s) \in Nat
  BY BpsType, ReplySizes DEF Rates
<1>2. read_impl(s) \in Nat /\ read_impl(s) >= 10000
  BY <1>1, TimingAssumption DEF read_impl, calc_tmax_ms, calc_tmin_ms
<1> QED
  BY <1>2, ByteTimeType

(* One byte less to come takes one time of a byte less. *)
LEMMA OneByteLess ==
  ASSUME NEW n \in Nat \ {0}, NEW t \in Nat
  PROVE  /\ (n - 1) * t \in Nat
         /\ (n - 1 - 1) * t \in Int
         /\ n > 1 => t + (n - 1 - 1) * t = (n - 1) * t
         /\ n = 1 => (n - 1) * t = 0
  OBVIOUS

----------------------------------------------------------------------------
(* The clocks. *)

ClocksOK == wait \in [Clocks -> {OFF} \cup Nat]

ClockSet == [Clocks -> {OFF} \cup Nat]

LEMMA FrameBeginsClocks ==
  ASSUME ClocksOK, FrameBegins, setup \in Setups
  PROVE  /\ wait["byte"] = 0
         /\ UNCHANGED <<vars, setup>>
         /\ \E f \in Frames :
                /\ MasterSends(f)
                /\ wait'["call"] = IF Answered(f) THEN read_impl(setup) - ByteTime(setup)
                                                  ELSE OFF
         /\ wait'["timer"] = wait["timer"] /\ wait'["byte"] = 0
         /\ wait'["loop"] = wait["loop"] /\ wait'["reply"] = wait["reply"]
         /\ wait'["silence"] = wait["silence"]
         /\ ClocksOK'
<1>1. PICK f \in Frames :
        /\ MasterSends(f)
        /\ wait' = [wait EXCEPT !["call"] =
                        IF Answered(f) THEN read_impl(setup) - ByteTime(setup) ELSE OFF]
  BY DEF FrameBegins
<1>2. wait["byte"] = 0 /\ UNCHANGED <<vars, setup>>
  BY DEF FrameBegins
<1>3. read_impl(setup) - ByteTime(setup) \in Nat
  BY TimeoutType
<1>4. /\ wait'["call"] = IF Answered(f) THEN read_impl(setup) - ByteTime(setup) ELSE OFF
      /\ \A c \in Clocks \ {"call"} : wait'[c] = wait[c]
      /\ wait' \in ClockSet
  BY <1>1, <1>3 DEF ClocksOK, Clocks, ClockSet
<1> QED
  BY <1>1, <1>2, <1>4 DEF ClocksOK, Clocks, ClockSet

============================================================================
