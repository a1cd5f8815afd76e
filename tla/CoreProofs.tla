----------------------------- MODULE CoreProofs ----------------------------
(***************************************************************************)
(* The two parts of val_core.c that stand on their own, for every value of *)
(* their constants.  ValHandshake: what the handshake agrees on, for all   *)
(* configurations, retries and losses.  ValExchange: the bounds of the     *)
(* round trip estimate, that waits end punctually, that the health check   *)
(* never ends a transfer, and that a cancel is honoured.                   *)
(***************************************************************************)
EXTENDS ValHandshake, ValExchange, SequenceTheorems, TLAPS

-----------------------------------------------------------------------------
(* The handshake.                                                          *)

SenderOffer == FillLocalHello(scfg, scfg.mtu)
ReceiverOffer == FillLocalHello(rcfg, rneg.mtu)

\* The receiver has taken the sender's offer
Adopted == rneg = AdoptPeerHello(rcfg, SenderOffer)

\* The links hold nothing but the one offer of each side, and each side's
\* negotiated values are those of the offer it took
HandshakeInv ==
    /\ scfg \in Configs
    /\ rcfg \in Configs
    /\ toReceiver \in Seq({SenderOffer, SendMeta})
    /\ toSender \in Seq({ReceiverOffer})
    /\ rpc \in {"start", "hello"} => toSender = <<>> /\ spc # "ok"
    /\ toSender # <<>> => Adopted
    /\ spc = "ok" => Adopted /\ sneg = AdoptPeerHello(scfg, ReceiverOffer)

\* What the links do with frames: reading and sending keep them sequences of
\* legal frames
LEMMA LinkFacts ==
    ASSUME NEW S, NEW q \in Seq(S)
    PROVE  /\ q # <<>> => Head(q) \in S /\ Tail(q) \in Seq(S)
           /\ \A e \in S : Append(q, e) \in Seq(S)
<1>1. q # <<>> => Head(q) \in S /\ Tail(q) \in Seq(S)
  BY HeadTailProperties
<1>2. \A e \in S : Append(q, e) \in Seq(S)
  BY AppendProperties
<1> QED
  BY <1>1, <1>2

\* Before either call the links are empty and nothing is negotiated
LEMMA InitInv ==
    Init => HandshakeInv
  BY DEF Init, HandshakeInv

\* A step that leaves the receiver's negotiated values and state alone
LEMMA SenderKeeps ==
    ASSUME HandshakeInv, Unconfigured,
           SenderStarts \/ SenderHello \/ SenderResends \/ SenderBudget
    PROVE  HandshakeInv'
<1>0. /\ UNCHANGED <<scfg, rcfg, rpc, rneg>>
      /\ SenderOffer' = SenderOffer
      /\ ReceiverOffer' = ReceiverOffer
      /\ Adopted' = Adopted
  BY DEF Unconfigured, SenderStarts, SenderHello, SenderResends, SenderBudget,
         ReceiverSide, SenderOffer, ReceiverOffer, Adopted
<1>1. CASE SenderStarts \/ SenderResends
  <2>1. toReceiver' = Append(toReceiver, SenderOffer)
    BY <1>1 DEF SenderStarts, SenderResends, SenderOffer
  <2>2. toReceiver' \in Seq({SenderOffer, SendMeta})
    BY <2>1, LinkFacts DEF HandshakeInv
  <2>3. toSender' = toSender /\ spc' # "ok"
    BY <1>1 DEF SenderStarts, SenderResends
  <2> QED
    BY <1>0, <2>2, <2>3 DEF HandshakeInv
<1>2. CASE SenderBudget
  BY <1>0, <1>2 DEF SenderBudget, HandshakeInv
<1>3. CASE SenderHello
  <2>1. /\ toSender # <<>>
        /\ toSender' = Tail(toSender)
        /\ sneg' = AdoptPeerHello(scfg, Head(toSender))
        /\ toReceiver' = Append(toReceiver, SendMeta)
    BY <1>3 DEF SenderHello
  <2>2. Head(toSender) = ReceiverOffer /\ toSender' \in Seq({ReceiverOffer})
    BY <2>1, LinkFacts DEF HandshakeInv
  <2>3. toReceiver' \in Seq({SenderOffer, SendMeta})
    BY <2>1, LinkFacts DEF HandshakeInv
  <2>4. Adopted /\ rpc \notin {"start", "hello"}
    BY <2>1 DEF HandshakeInv
  <2> QED
    BY <1>0, <2>1, <2>2, <2>3, <2>4 DEF HandshakeInv
<1> QED
  BY <1>1, <1>2, <1>3

\* The receiver starts, answers the sender's offer, or comes to an end
LEMMA ReceiverKeeps ==
    ASSUME HandshakeInv, Unconfigured,
           \/ ReceiverStarts \/ ReceiverHello \/ ReceiverRefuses
           \/ ReceiverMeta \/ ReceiverStray \/ ReceiverBudget
    PROVE  HandshakeInv'
<1>0. UNCHANGED <<scfg, rcfg, spc, sneg>> /\ SenderOffer' = SenderOffer
  BY DEF Unconfigured, SenderSide, ReceiverStarts, ReceiverHello, ReceiverRefuses,
         ReceiverMeta, ReceiverStray, ReceiverBudget, ReceiverTakes, SenderOffer
<1>1. toReceiver' \in Seq({SenderOffer, SendMeta})
  BY LinkFacts DEF HandshakeInv, ReceiverStarts, ReceiverHello, ReceiverRefuses,
         ReceiverMeta, ReceiverStray, ReceiverBudget, ReceiverTakes
<1>2. CASE ReceiverHello
  <2>1. /\ rpc = "hello" /\ rpc' = "ok"
        /\ toReceiver # <<>> /\ Head(toReceiver).type = "HELLO"
        /\ rneg' = AdoptPeerHello(rcfg, Head(toReceiver))
        /\ toSender' = Append(toSender, FillLocalHello(rcfg, rneg'.mtu))
    BY <1>2 DEF ReceiverHello, ReceiverTakes
  <2>2. Head(toReceiver) = SenderOffer
    BY <2>1, LinkFacts DEF HandshakeInv, SendMeta
  <2>3. Adopted'
    BY <1>0, <2>1, <2>2 DEF Adopted
  <2>4. toSender = <<>> /\ spc # "ok"
    BY <2>1 DEF HandshakeInv
  <2>5. toSender' = <<ReceiverOffer'>>
    BY <1>0, <2>1, <2>4 DEF ReceiverOffer
  <2>6. toSender' \in Seq({ReceiverOffer'})
    BY <2>5
  <2> QED
    BY <1>0, <1>1, <2>1, <2>3, <2>4, <2>6 DEF HandshakeInv
<1>3. CASE ReceiverStarts \/ ReceiverRefuses \/ ReceiverMeta \/ ReceiverStray \/ ReceiverBudget
  <2>1. UNCHANGED <<rneg, toSender>> /\ ReceiverOffer' = ReceiverOffer /\ Adopted' = Adopted
    BY <1>0, <1>3 DEF ReceiverStarts, ReceiverRefuses, ReceiverMeta, ReceiverStray,
         ReceiverBudget, ReceiverOffer, Adopted
  <2>2. rpc' \in {"start", "hello"} => rpc \in {"start", "hello"}
    BY <1>3 DEF ReceiverStarts, ReceiverRefuses, ReceiverMeta, ReceiverStray, ReceiverBudget
  <2> QED
    BY <1>0, <1>1, <2>1, <2>2 DEF HandshakeInv
<1> QED
  BY <1>2, <1>3

\* A lost or damaged frame takes an offer away and adds none
LEMMA LossKeeps ==
    ASSUME HandshakeInv, Unconfigured, LoseToReceiver \/ LoseToSender
    PROVE  HandshakeInv'
<1>1. /\ UNCHANGED <<scfg, rcfg, spc, sneg, rneg>>
      /\ SenderOffer' = SenderOffer
      /\ ReceiverOffer' = ReceiverOffer
      /\ Adopted' = Adopted
  BY DEF Unconfigured, LoseToReceiver, LoseToSender, SenderSide, ReceiverSide,
         SenderOffer, ReceiverOffer, Adopted
<1>2. rpc' \in {"start", "hello"} => rpc' = rpc
  BY DEF LoseToReceiver, LoseToSender, ReceiverSide
<1>3. /\ toReceiver' \in Seq({SenderOffer, SendMeta})
      /\ toSender' \in Seq({ReceiverOffer})
      /\ toSender' = toSender \/ toSender # <<>>
  BY LinkFacts DEF HandshakeInv, LoseToReceiver, LoseToSender
<1>4. toSender = <<>> => toSender' = <<>>
  BY DEF LoseToReceiver, LoseToSender
<1> QED
  BY <1>1, <1>2, <1>3, <1>4 DEF HandshakeInv

\* Each side's HELLO is one offer however often it is sent, and what a side has
\* negotiated is its answer to the offer of the other (val__adopt_peer_hello)
THEOREM HandshakeInvariant ==
    Spec => []HandshakeInv
<1>1. Init => HandshakeInv
  BY InitInv
<1>2. HandshakeInv /\ [Next]_vars => HandshakeInv'
  <2> SUFFICES ASSUME HandshakeInv, [Next]_vars PROVE HandshakeInv'
    OBVIOUS
  <2>1. CASE Step /\ Unconfigured
    BY <2>1, SenderKeeps, ReceiverKeeps DEF Step, SenderTimer, ReceiverTimer
  <2>2. CASE (LoseToReceiver \/ LoseToSender) /\ Unconfigured
    BY <2>2, LossKeeps
  <2>3. CASE UNCHANGED vars
    BY <2>3 DEF vars, HandshakeInv, SenderOffer, ReceiverOffer, Adopted
  <2> QED
    BY <2>1, <2>2, <2>3 DEF Next, Finished
<1> QED
  BY <1>1, <1>2, PTL DEF Spec

\* For all configurations, retries and losses: when the sender's handshake
\* succeeds, both sides use one MTU that fits the buffers of both
THEOREM MtuAlwaysAgreed ==
    Spec => []MtuAgreed
<1>1. HandshakeInv => MtuAgreed
  <2> SUFFICES ASSUME HandshakeInv, spc = "ok"
               PROVE  /\ sneg.mtu = rneg.mtu
                      /\ sneg.mtu <= scfg.mtu
                      /\ sneg.mtu <= rcfg.mtu
    BY DEF MtuAgreed
  <2>1. scfg.mtu \in Nat /\ rcfg.mtu \in Nat
    <3>1. scfg.mtu \in Mtus /\ rcfg.mtu \in Mtus
      BY DEF HandshakeInv, Configs
    <3> QED
      BY <3>1, ConfigAssumption
  <2>2. rneg.mtu = Smaller(scfg.mtu, rcfg.mtu)
    BY DEF HandshakeInv, Adopted, AdoptPeerHello, SenderOffer, FillLocalHello
  <2>3. sneg.mtu = Smaller(rneg.mtu, scfg.mtu)
    BY DEF HandshakeInv, AdoptPeerHello, ReceiverOffer, FillLocalHello
  <2> QED
    BY <2>1, <2>2, <2>3 DEF Smaller
<1> QED
  BY <1>1, HandshakeInvariant, PTL

\* For all configurations, retries and losses: the sender's window is at least 1
\* and within what the receiver advertised, and it starts inside it.  This is
\* what the data phase assumes of NegotiatedWindow and InitialCwnd
THEOREM WindowAlwaysWithinPeer ==
    Spec => []WindowWithinPeer
<1>1. HandshakeInv => WindowWithinPeer
  <2> SUFFICES ASSUME HandshakeInv, spc = "ok"
               PROVE  /\ sneg.window <= (IF rcfg.cap = 0 THEN 1 ELSE rcfg.cap)
                      /\ sneg.cwnd \in 1..sneg.window
    BY DEF WindowWithinPeer
  <2> DEFINE rx == IF rcfg.cap = 0 THEN 1 ELSE rcfg.cap
             want == IF scfg.cap = 0 THEN 4 ELSE scfg.cap
             first == IF scfg.cwnd = 0 THEN 4 ELSE scfg.cwnd
  <2>1. rcfg.cap \in Nat /\ scfg.cap \in Nat /\ scfg.cwnd \in Nat
    <3>1. rcfg.cap \in Caps /\ scfg.cap \in Caps /\ scfg.cwnd \in Cwnds
      BY DEF HandshakeInv, Configs
    <3> QED
      BY <3>1, ConfigAssumption
  <2>2. rx \in Nat \ {0} /\ want \in Nat \ {0} /\ first \in Nat \ {0}
    BY <2>1
  <2>3. /\ sneg.window = Smaller(want, rx)
        /\ sneg.cwnd = Smaller(sneg.window, first)
    BY DEF HandshakeInv, AdoptPeerHello, NegotiatedWindow, InitialCwnd, ReceiverOffer,
           FillLocalHello
  <2> HIDE DEF rx, want, first
  <2>4. sneg.window <= rx /\ sneg.cwnd \in 1..sneg.window
    BY <2>2, <2>3 DEF Smaller
  <2> QED
    BY <2>4 DEF rx
<1> QED
  BY <1>1, HandshakeInvariant, PTL

-----------------------------------------------------------------------------
(* Arithmetic.                                                             *)

\* Unsigned differences of the tick counter are ticks
LEMMA ModTicks ==
    ASSUME NEW a \in Int
    PROVE  a % TickMod \in Ticks
  BY TickAssumption DEF Ticks

\* Smooth stays between its arguments: the weights of val_internal_record_rtt sum
\* to 8 and the shift divides by 8
LEMMA SmoothBetween ==
    ASSUME NEW s \in Nat, NEW r \in Nat, NEW lo \in Nat, NEW hi \in Nat,
           lo <= s, s <= hi, lo <= r, r <= hi
    PROVE  /\ Smooth(s, r) \in Nat
           /\ lo <= Smooth(s, r)
           /\ Smooth(s, r) <= hi
  BY DEF Smooth

\* Vary does not exceed a bound of its arguments
LEMMA VaryBelow ==
    ASSUME NEW v \in Nat, NEW s \in Nat, NEW r \in Nat, NEW hi \in Nat,
           v <= hi, s <= hi, r <= hi
    PROVE  /\ Vary(v, s, r) \in Nat
           /\ Vary(v, s, r) <= hi
  BY DEF Vary, Distance

-----------------------------------------------------------------------------
(* The estimate.                                                           *)

Wait == [timeout : Int, t0 : Int, deadline : Int, lasted : Int]

\* What is said of the estimate: EstimateBounded with types
EstimatePart ==
    /\ sampled \in BOOLEAN
    /\ srtt \in Nat /\ rttvar \in Nat
    /\ sampled => /\ low \in Nat /\ high \in Nat
                  /\ low <= srtt
                  /\ srtt <= high
                  /\ rttvar <= high

\* ... and of what the samples are made of
EstimateInv ==
    /\ ticks \in Int
    /\ bounds \in [min : Nat, max : Nat]
    /\ wait \in Wait
    /\ backoff \in Nat
    /\ EstimatePart

\* Recording a sample keeps the bounds
LEMMA RecordKeeps ==
    ASSUME EstimateInv, NEW m \in Ticks, RecordRtt(m)
    PROVE  EstimatePart'
<1> DEFINE r == Rtt(m)
<1>1. r \in Nat
  BY TickAssumption DEF Rtt, Ticks
<1>2. CASE sampled
  <2>1. /\ Least(low, r) \in Nat /\ Greatest(high, r) \in Nat
        /\ Least(low, r) <= srtt /\ srtt <= Greatest(high, r)
        /\ Least(low, r) <= r /\ r <= Greatest(high, r)
        /\ rttvar <= Greatest(high, r)
    BY <1>1, <1>2 DEF EstimateInv, EstimatePart, Least, Greatest
  <2>2. /\ Smooth(srtt, r) \in Nat
        /\ Least(low, r) <= Smooth(srtt, r)
        /\ Smooth(srtt, r) <= Greatest(high, r)
    BY <1>1, <1>2, <2>1, SmoothBetween DEF EstimateInv, EstimatePart
  <2>3. Vary(rttvar, srtt, r) \in Nat /\ Vary(rttvar, srtt, r) <= Greatest(high, r)
    BY <1>1, <1>2, <2>1, VaryBelow DEF EstimateInv, EstimatePart
  <2>4. /\ sampled' /\ srtt' = Smooth(srtt, r) /\ rttvar' = Vary(rttvar, srtt, r)
        /\ low' = Least(low, r) /\ high' = Greatest(high, r)
    BY <1>2 DEF RecordRtt
  <2> HIDE DEF r
  <2> QED BY <2>1, <2>2, <2>3, <2>4 DEF EstimatePart
<1>3. CASE ~sampled
  <2>1. /\ sampled' /\ srtt' = r /\ rttvar' = r \div 2 /\ low' = r /\ high' = r
    BY <1>3 DEF RecordRtt
  <2> HIDE DEF r
  <2>2. r \div 2 \in Nat /\ r \div 2 <= r
    BY <1>1
  <2> QED BY <1>1, <2>1, <2>2 DEF EstimatePart
<1> QED BY <1>2, <1>3 DEF EstimateInv, EstimatePart

\* So does the decision whether to take one
LEMMA SampleKeeps ==
    ASSUME EstimateInv, NEW now \in Int, Sample(now) \/ UNCHANGED estimateVars
    PROVE  EstimatePart'
<1>1. CASE UNCHANGED estimateVars
  BY <1>1 DEF estimateVars, EstimateInv, EstimatePart
<1>2. CASE Sample(now) /\ ~UNCHANGED estimateVars
  <2>1. Since(now, wait.t0) \in Ticks
    BY ModTicks DEF Since, EstimateInv, Wait
  <2>2. RecordRtt(Since(now, wait.t0))
    BY <1>2 DEF Sample
  <2> QED BY <2>1, <2>2, RecordKeeps
<1> QED BY <1>1, <1>2

\* The counter read after a delay is an integer
LEMMA AfterInt ==
    ASSUME NEW t \in Int, NEW d \in Int
    PROVE  After(t, d) \in Int
  BY ModTicks, TickAssumption DEF After, Ticks

\* The timeout of an operation is a number
LEMMA TimeoutNat ==
    ASSUME EstimateInv, NEW op
    PROVE  Timeout(op) \in Nat
<1>1. Multiplier(op) \in Nat
  BY DEF Multiplier
<1>2. (srtt + 4 * rttvar) * Multiplier(op) \in Nat
  BY <1>1 DEF EstimateInv, EstimatePart
<1>3. bounds.min \in Nat /\ bounds.max \in Nat
  BY DEF EstimateInv
<1> QED BY <1>2, <1>3, TickAssumption DEF Timeout, GetTimeout, Clamp, Least

\* A wait that begins or is renewed has the fields of a wait
LEMMA WaitTyped ==
    ASSUME EstimateInv, NEW now \in Int,
           \/ wait' = NoWait
           \/ wait' = wait
           \/ \E to \in Int : StartWait(to) \/ Refill(to)
           \/ RenewWait(now)
    PROVE  wait' \in Wait
<1>1. CASE wait' = NoWait
  BY <1>1 DEF NoWait, Wait
<1>2. CASE wait' = wait
  BY <1>2 DEF EstimateInv
<1>3. ASSUME NEW to \in Int, StartWait(to) \/ Refill(to) PROVE wait' \in Wait
  <2>1. ticks \in Int /\ After(ticks, to) \in Int
    BY AfterInt DEF EstimateInv
  <2> QED BY <1>3, <2>1 DEF StartWait, Refill, Wait
<1>4. CASE RenewWait(now)
  <2>1. After(now, wait.timeout) \in Int
    BY AfterInt DEF EstimateInv, Wait
  <2> QED BY <1>4, <2>1 DEF RenewWait, EstimateInv, Wait
<1> QED BY <1>1, <1>2, <1>3, <1>4

\* Numbers of an interval are integers, whatever its end
LEMMA IntervalInt ==
    ASSUME NEW n, NEW d \in 0..n
    PROVE  d \in Int
  OBVIOUS

LEMMA EstimateInit == ExchangeInit => EstimateInv
<1> SUFFICES ASSUME ExchangeInit PROVE EstimateInv
  OBVIOUS
<1>1. PICK min \in MinTimeouts, max \in MaxTimeouts : bounds = SanitizeTimeouts(min, max)
  BY DEF ExchangeInit
<1>2. min \in Nat /\ max \in Nat /\ DefaultMin \in Nat /\ DefaultMax \in Nat
  BY ExchangeAssumption, TickAssumption DEF Ticks
<1>3. bounds \in [min : Nat, max : Nat]
  BY <1>1, <1>2 DEF SanitizeTimeouts, Least, Greatest
<1>4. InitialSrtt(bounds.max) \in Nat /\ InitialRttvar(bounds.max) \in Nat
  BY <1>3 DEF InitialSrtt, InitialRttvar
<1>5. ticks \in Int
  BY ExchangeAssumption, TickAssumption DEF ExchangeInit, Ticks
<1>6. wait \in Wait
  BY DEF ExchangeInit, NoWait, Wait
<1> QED BY <1>3, <1>4, <1>5, <1>6 DEF ExchangeInit, EstimateInv, EstimatePart

LEMMA EstimateStep == EstimateInv /\ [ExchangeNext]_exchangeVars => EstimateInv'
<1> SUFFICES ASSUME EstimateInv, [ExchangeNext]_exchangeVars
             PROVE  EstimateInv'
  OBVIOUS
<1>1. ASSUME bounds' = bounds, backoff' \in Nat,
             ticks' \in Int, wait' \in Wait,
             EstimatePart'
      PROVE  EstimateInv'
  BY <1>1 DEF EstimateInv
<1>2. EstimatePart /\ ticks \in Int /\ wait \in Wait /\ backoff \in Nat
  BY DEF EstimateInv
<1>3. ASSUME UNCHANGED estimateVars PROVE EstimatePart'
  BY <1>2, <1>3 DEF EstimatePart, estimateVars
<1>4. ASSUME NEW n, NEW d \in 0..n PROVE d \in Int /\ After(ticks, d) \in Int
  BY <1>2, <1>4, IntervalInt, AfterInt
<1>5. NoWait \in Wait
  BY DEF NoWait, Wait
<1>6. CASE BeginCall \/ NextFile \/ EmptyFile \/ Progress \/ GivenUp
  <2>1. UNCHANGED <<ticks, bounds, backoff, estimateVars>> /\ wait' \in {wait, NoWait}
    BY <1>6 DEF BeginCall, NextFile, EmptyFile, Progress, GivenUp, Fail, Go
  <2> QED BY <1>1, <1>2, <1>3, <1>5, <2>1
<1>7. CASE Top
  <2>1. /\ UNCHANGED <<ticks, bounds, backoff, estimateVars>>
        /\ wait' = NoWait \/ Refill(Timeout("DATA_ACK"))
    BY <1>7 DEF Top, Fail
  <2>2. Timeout("DATA_ACK") \in Int
    BY TimeoutNat
  <2> QED BY <1>1, <1>2, <1>3, <2>1, <2>2, WaitTyped
<1>8. CASE Arm
  <2>1. UNCHANGED <<ticks, bounds, backoff, estimateVars>> /\ StartWait(wait.timeout)
    BY <1>8 DEF Arm
  <2>2. wait.timeout \in Int
    BY <1>2 DEF Wait
  <2> QED BY <1>1, <1>2, <1>3, <2>1, <2>2, WaitTyped
<1>9. CASE DataAck
  <2>1. PICK d \in 0..Slice(ticks, wait.deadline) :
            /\ ticks' = After(ticks, d)
            /\ Sample(After(ticks, d))
            /\ RenewWait(After(ticks, d))
    BY <1>9 DEF DataAck
  <2>2. After(ticks, d) \in Int
    BY <1>4
  <2>3. UNCHANGED <<bounds, backoff>>
    BY <1>9 DEF DataAck
  <2> QED BY <1>1, <1>2, <2>1, <2>2, <2>3, SampleKeeps, WaitTyped
<1>10. CASE DataNak
  <2>1. PICK d \in 0..Slice(ticks, wait.deadline) : ticks' = After(ticks, d)
    BY <1>10 DEF DataNak
  <2>2. UNCHANGED <<bounds, backoff, estimateVars>> /\ Refill(wait.timeout)
    BY <1>10 DEF DataNak
  <2>3. wait.timeout \in Int
    BY <1>2 DEF Wait
  <2> QED BY <1>1, <1>2, <1>3, <1>4, <2>1, <2>2, <2>3, WaitTyped
<1>11. CASE Benign
  <2>1. PICK d \in 0..Slice(ticks, wait.deadline) :
            ticks' = After(ticks, d) /\ RenewWait(After(ticks, d))
    BY <1>11 DEF Benign
  <2>2. After(ticks, d) \in Int
    BY <1>4
  <2>3. UNCHANGED <<bounds, backoff, estimateVars>>
    BY <1>11 DEF Benign
  <2> QED BY <1>1, <1>2, <1>3, <2>1, <2>2, <2>3, WaitTyped
<1>12. CASE SendDone \/ SendEot
  <2>1. UNCHANGED <<ticks, bounds, estimateVars>> /\ backoff' = BackoffBase
        /\ (wait' = NoWait \/ \E op : StartWait(Timeout(op)))
    BY <1>12 DEF SendDone, SendEot, Send, Fail
  <2>2. BackoffBase \in Nat
    BY ExchangeAssumption
  <2>3. \A op : Timeout(op) \in Int
    BY TimeoutNat
  <2> QED BY <1>1, <1>2, <1>3, <2>1, <2>2, <2>3, WaitTyped
<1>13. CASE DoneAck \/ EotAck
  <2>1. Answered /\ UNCHANGED <<bounds, backoff>> /\ wait' = NoWait
    BY <1>13 DEF DoneAck, EotAck, Go
  <2>2. PICK d \in 0..Slice(ticks, wait.deadline) :
            /\ ticks' = After(ticks, d)
            /\ Sample(After(ticks, d)) \/ UNCHANGED estimateVars
    BY <2>1 DEF Answered
  <2> QED BY <1>1, <1>2, <1>4, <1>5, <2>1, <2>2, SampleKeeps
<1>14. CASE Miss
  <2>1. PICK d \in 0..(Slice(ticks, wait.deadline) + Jitter) :
            LET now == After(ticks, d)
                lasted == Least(wait.lasted + d, TickMod)
            IN  \/ OutOfTime(now)
                \/ /\ ticks' = now
                   /\ wait' = [wait EXCEPT !.lasted = lasted]
                   /\ UNCHANGED backoff
    BY <1>14 DEF Miss
  <2> DEFINE now == After(ticks, d)
  <2>2. d \in Int /\ now \in Int
    BY <1>4
  <2>3. UNCHANGED <<bounds, estimateVars>>
    BY <1>14 DEF Miss
  <2>4. CASE OutOfTime(now)
    <3>1. After(now, backoff) \in Int
      BY <1>2, <2>2, AfterInt
    <3>2. NextBackoff(backoff, BackoffCeiling) \in Nat
      BY <1>2, ExchangeAssumption DEF NextBackoff, Least
    <3>3. \/ /\ ticks' = now /\ backoff' \in {backoff, 0}
             /\ wait' = NoWait \/ Refill(wait.timeout)
          \/ /\ ticks' = After(now, backoff)
             /\ backoff' = NextBackoff(backoff, BackoffCeiling)
             /\ RenewWait(After(now, backoff))
      BY <2>4 DEF OutOfTime, Fail
    <3>4. wait.timeout \in Int
      BY <1>2 DEF Wait
    <3> HIDE DEF now
    <3> QED BY <1>1, <1>2, <1>3, <2>2, <2>3, <3>1, <3>2, <3>3, <3>4, WaitTyped
  <2>5. CASE ~OutOfTime(now)
    <3>1. Least(wait.lasted + d, TickMod) \in Int
      BY <1>2, <2>2, TickAssumption DEF Least, Wait
    <3>2. [wait EXCEPT !.lasted = Least(wait.lasted + d, TickMod)] \in Wait
      BY <1>2, <3>1 DEF Wait
    <3> QED BY <1>1, <1>2, <1>3, <2>1, <2>2, <2>3, <2>5, <3>2
  <2> QED BY <2>4, <2>5
<1>15. CASE UNCHANGED exchangeVars
  BY <1>1, <1>2, <1>3, <1>15 DEF exchangeVars
<1> QED BY <1>6, <1>7, <1>8, <1>9, <1>10, <1>11, <1>12, <1>13, <1>14, <1>15
        DEF ExchangeNext, Traffic, Quiet

\* EstimateBounded holds for any bounds of the timeouts, any width of the tick
\* counter and any delays: val_internal_record_rtt never lets the estimate leave
\* the range of its samples
THEOREM EstimateStaysBounded == ExchangeSpec => []EstimateBounded
<1>1. EstimateInv => EstimateBounded
  BY DEF EstimateInv, EstimatePart, EstimateBounded
<1> QED BY <1>1, EstimateInit, EstimateStep, PTL DEF ExchangeSpec

-----------------------------------------------------------------------------
(* The clock.                                                              *)

Timeouts == 1..(TickMod - 1)

\* A wait began, or was renewed, at some tick from which both its deadline and,
\* for less than a turn of the counter, the present tick are counted; and a wait
\* that has gone through a slice was not over at the end of it
WaitClock ==
    /\ wait.lasted \in 0..TickMod
    /\ wait.lasted > 0 => ticks < wait.deadline
    /\ \E start \in Ticks :
           /\ wait.deadline = After(start, wait.timeout)
           /\ wait.lasted < TickMod => ticks = After(start, wait.lasted)

ClockInv ==
    /\ EstimateInv
    /\ ticks \in Ticks
    /\ bounds.min \in Timeouts /\ bounds.max \in Timeouts
    /\ pc \in Waits \cup {"arm", "progress"} => wait.timeout \in Timeouts
    /\ pc \in Waits \cup {"progress"} => WaitClock
    /\ TimeoutPunctual

\* Within one turn the counter wraps at most once
LEMMA AfterCases ==
    ASSUME NEW s \in Ticks, NEW d \in 0..(TickMod - 1)
    PROVE  /\ After(s, d) \in Ticks
           /\ s + d < TickMod => After(s, d) = s + d
           /\ s + d >= TickMod => After(s, d) = s + d - TickMod
<1> DEFINE a == s + d
           q == a \div TickMod
           r == a % TickMod
<1>0. s \in Nat /\ d \in Nat /\ TickMod \in Nat /\ a \in 0..(2 * TickMod - 1)
  BY TickAssumption DEF Ticks
<1>1. r \in 0..(TickMod - 1) /\ a = TickMod * q + r /\ q \in Nat
  BY <1>0, TickAssumption
<1>2. a < TickMod => r = a
  BY <1>0, TickAssumption
<1>3. ASSUME a >= TickMod PROVE r = a - TickMod
  <2> HIDE DEF a, q, r
  <2>1. q >= 1
    BY <1>0, <1>1, <1>3, TickAssumption
  <2>2. q <= 1
    BY <1>0, <1>1, TickAssumption
  <2> QED BY <1>0, <1>1, <2>1, <2>2
<1>4. After(s, d) = r
  BY DEF After
<1>5. r \in Ticks
  BY <1>1 DEF Ticks
<1> HIDE DEF q, r
<1> QED BY <1>0, <1>2, <1>3, <1>4, <1>5

\* Delays of less than a turn add up
LEMMA AfterTwice ==
    ASSUME NEW s \in Ticks, NEW l \in Nat, NEW d \in Nat, l + d < TickMod
    PROVE  After(After(s, l), d) = After(s, l + d)
<1>1. l \in 0..(TickMod - 1) /\ d \in 0..(TickMod - 1) /\ l + d \in 0..(TickMod - 1)
      /\ TickMod \in Nat
  BY TickAssumption
<1>2. After(s, l) \in Ticks
  BY <1>1, AfterCases
<1>3. /\ s + l < TickMod => After(s, l) = s + l
      /\ s + l >= TickMod => After(s, l) = s + l - TickMod
      /\ s + (l + d) < TickMod => After(s, l + d) = s + (l + d)
      /\ s + (l + d) >= TickMod => After(s, l + d) = s + (l + d) - TickMod
  BY <1>1, AfterCases
<1>4. /\ After(s, l) + d < TickMod => After(After(s, l), d) = After(s, l) + d
      /\ After(s, l) + d >= TickMod => After(After(s, l), d) = After(s, l) + d - TickMod
  BY <1>1, <1>2, AfterCases
<1> QED BY <1>1, <1>2, <1>3, <1>4 DEF Ticks

\* The arithmetic of a wait that ends: it began at tick s with timeout t and
\* deadline e, has lasted l up to tick c, and its last slice takes d
LEMMA Punctual ==
    ASSUME NEW t \in Timeouts, NEW s \in Ticks, NEW e, e = After(s, t),
           NEW l \in 0..TickMod, NEW c \in Ticks,
           l < TickMod => c = After(s, l),
           l > 0 => c < e,
           NEW d \in 0..(Slice(c, e) + Jitter),
           NEW lasted, lasted = Least(l + d, TickMod),
           NEW now, now = After(c, d),
           now >= e
    PROVE  /\ lasted \in Nat
           /\ lasted < t => e < t
           /\ lasted > t + Jitter => now < lasted
<1> USE TickAssumption, ExchangeAssumption
<1>0. /\ t \in 1..(TickMod - 1) /\ s \in Nat /\ s < TickMod /\ c \in Nat /\ c < TickMod
      /\ l \in Nat /\ TickMod \in Nat /\ Jitter \in Nat
  BY DEF Ticks, Timeouts
<1>1. /\ e \in Ticks
      /\ s + t < TickMod => e = s + t
      /\ s + t >= TickMod => e = s + t - TickMod
  BY <1>0, AfterCases
<1>2. e \in Nat /\ e < TickMod
  BY <1>1 DEF Ticks
<1>3. Slice(c, e) \in Nat /\ (c < e => Slice(c, e) <= e - c) /\ (c >= e => Slice(c, e) = 1)
  BY <1>0, <1>2 DEF Slice, Greatest, Least
<1>4. d \in Nat /\ d <= Slice(c, e) + Jitter
  BY <1>0, <1>3
<1>5. lasted \in Nat /\ (l + d < TickMod => lasted = l + d) /\ (l + d >= TickMod => lasted = TickMod)
  BY <1>0, <1>4 DEF Least
<1>6. now \in Ticks
  <2>1. c + d \in Int
    BY <1>0, <1>4
  <2> QED BY <2>1, ModTicks DEF After
<1>7. now \in Nat /\ now < TickMod
  BY <1>6 DEF Ticks
<1>8. ASSUME l + d < TickMod
      PROVE  /\ c = After(s, l)
             /\ now = After(s, l + d)
             /\ s + (l + d) < TickMod => now = s + (l + d)
             /\ s + (l + d) >= TickMod => now = s + (l + d) - TickMod
  <2>1. c = After(s, l)
    BY <1>0, <1>4, <1>8
  <2>2. now = After(s, l + d)
    BY <1>0, <1>4, <1>8, <2>1, AfterTwice
  <2>3. l + d \in 0..(TickMod - 1)
    BY <1>0, <1>4, <1>8
  <2> QED BY <2>1, <2>2, <2>3, AfterCases
<1>9. ASSUME lasted < t, e >= t PROVE FALSE
  <2>1. l + d < TickMod /\ lasted = l + d
    BY <1>0, <1>4, <1>5, <1>9
  <2>2. s + t < TickMod /\ e = s + t
    BY <1>0, <1>1, <1>9
  <2> QED BY <1>0, <1>4, <1>8, <1>9, <2>1, <2>2
<1>10. ASSUME lasted > t + Jitter, now >= lasted PROVE FALSE
  <2>1. l + d < TickMod /\ lasted = l + d
    BY <1>0, <1>4, <1>5, <1>7, <1>10
  <2>2. s + (l + d) < TickMod /\ now = s + (l + d)
    BY <1>0, <1>4, <1>8, <1>10, <2>1
  <2>3. c = s + l
    <3>1. l \in 0..(TickMod - 1) /\ s + l < TickMod
      BY <1>0, <1>4, <2>1, <2>2
    <3> QED BY <1>8, <2>1, <3>1, AfterCases
  <2>4. CASE c < e
    BY <1>0, <1>1, <1>2, <1>3, <1>4, <1>10, <2>1, <2>3, <2>4
  <2>5. CASE c >= e
    BY <1>0, <1>2, <1>3, <1>4, <1>10, <2>1, <2>5
  <2> QED BY <1>0, <1>2, <2>4, <2>5
<1>11. e < t \/ e >= t
  BY <1>0, <1>2
<1>12. now < lasted \/ now >= lasted
  BY <1>5, <1>7
<1> QED BY <1>5, <1>9, <1>10, <1>11, <1>12

\* The timeout of an operation lies within the bounds
LEMMA TimeoutBounds ==
    ASSUME ClockInv, NEW op
    PROVE  Timeout(op) \in Timeouts
<1>1. Multiplier(op) \in Nat
  BY DEF Multiplier
<1>2. (srtt + 4 * rttvar) * Multiplier(op) \in Nat
  BY <1>1 DEF ClockInv, EstimateInv, EstimatePart
<1>3. bounds.min \in Timeouts /\ bounds.max \in Timeouts
  BY DEF ClockInv
<1> QED BY <1>2, <1>3, TickAssumption DEF Timeout, GetTimeout, Clamp, Least, Timeouts

\* A wait that begins now has its clock right
LEMMA WaitBegins ==
    ASSUME NEW now \in Ticks, ticks' = now, wait'.timeout \in Timeouts,
           wait'.deadline = After(now, wait'.timeout), wait'.lasted = 0
    PROVE  WaitClock'
<1>1. After(now, 0) = now
  BY AfterCases, TickAssumption DEF Ticks
<1>2. 0 \in 0..TickMod
  BY TickAssumption
<1> QED BY <1>1, <1>2 DEF WaitClock

LEMMA ClockInit == ExchangeInit => ClockInv
<1> SUFFICES ASSUME ExchangeInit PROVE ClockInv
  OBVIOUS
<1>1. PICK min \in MinTimeouts, max \in MaxTimeouts : bounds = SanitizeTimeouts(min, max)
  BY DEF ExchangeInit
<1>2. min \in Ticks /\ max \in Ticks /\ DefaultMin \in Timeouts /\ DefaultMax \in Timeouts
  BY ExchangeAssumption, TickAssumption DEF Timeouts
<1>3. bounds.min \in Timeouts /\ bounds.max \in Timeouts
  BY <1>1, <1>2, TickAssumption DEF SanitizeTimeouts, Least, Greatest, Ticks, Timeouts
<1>4. ticks \in Ticks
  BY ExchangeAssumption DEF ExchangeInit
<1>5. TimeoutPunctual
  <2>1. verdict.early = 0 /\ verdict.late = 0
    BY DEF ExchangeInit, NoVerdict
  <2> QED BY <2>1, ExchangeAssumption DEF TimeoutPunctual
<1> QED BY <1>3, <1>4, <1>5, EstimateInit DEF ExchangeInit, ClockInv, Waits

\* A slice without a good frame
LEMMA ClockMiss ==
    ASSUME ClockInv, Miss
    PROVE  /\ ticks' \in Ticks
           /\ pc' \in Waits \cup {"arm", "progress"} => wait'.timeout \in Timeouts
           /\ pc' \in Waits \cup {"progress"} => WaitClock'
           /\ TimeoutPunctual'
<1>1. PICK d \in 0..(Slice(ticks, wait.deadline) + Jitter) :
         LET now == After(ticks, d)
             lasted == Least(wait.lasted + d, TickMod)
         IN  IF Expired(now, wait.deadline)
             THEN verdict' = Verdict(now, lasted) /\ OutOfTime(now)
             ELSE /\ verdict' = NoVerdict
                  /\ ticks' = now
                  /\ wait' = [wait EXCEPT !.lasted = lasted]
                  /\ UNCHANGED <<pc, status, retries, inRetransmit, tries, backoff>>
  BY DEF Miss
<1> DEFINE now == After(ticks, d)
           lasted == Least(wait.lasted + d, TickMod)
<1>2. /\ pc \in Waits /\ ticks \in Ticks /\ wait.timeout \in Timeouts /\ wait.lasted \in 0..TickMod
      /\ wait.lasted > 0 => ticks < wait.deadline
      /\ wait \in Wait /\ backoff \in Nat
  BY DEF Miss, ClockInv, WaitClock, EstimateInv
<1>3. PICK start \in Ticks :
         /\ wait.deadline = After(start, wait.timeout)
         /\ wait.lasted < TickMod => ticks = After(start, wait.lasted)
  BY DEF Miss, ClockInv, WaitClock
<1>4. ticks \in Int /\ wait.deadline \in Int /\ TickMod \in Nat /\ Jitter \in Nat
  BY <1>2, TickAssumption, ExchangeAssumption DEF Ticks, Wait
<1>5. d \in Nat
  BY <1>4, TickAssumption DEF Slice, Greatest, Least
<1>6. now \in Ticks
  BY <1>4, <1>5, ModTicks DEF After
<1>7. CASE Expired(now, wait.deadline)
  <2>1. verdict' = Verdict(now, lasted) /\ OutOfTime(now)
    BY <1>1, <1>7
  <2>2. now >= wait.deadline
    BY <1>7 DEF Expired
  <2>3. /\ lasted \in Nat
        /\ lasted < wait.timeout => wait.deadline < wait.timeout
        /\ lasted > wait.timeout + Jitter => now < lasted
    BY <1>2, <1>3, <2>2, Punctual
  <2>4. wait.timeout \in Nat
    BY <1>2, TickAssumption DEF Timeouts
  <2> HIDE DEF now, lasted
  <2>5. TimeoutPunctual'
    <3>1. /\ verdict'.early = Greatest(0, wait.timeout - lasted)
          /\ verdict'.late = Greatest(0, lasted - wait.timeout)
          /\ verdict'.overflow = (wait.deadline < wait.timeout)
          /\ verdict'.wrapped = (now < lasted)
      BY <2>1, Zenon DEF Verdict
    <3>2. verdict'.early > 0 => lasted < wait.timeout
      BY <2>3, <2>4, <3>1 DEF Greatest
    <3>3. verdict'.late > Jitter => lasted > wait.timeout + Jitter
      BY <1>4, <2>3, <2>4, <3>1 DEF Greatest
    <3>4. (verdict'.early > 0 => verdict'.overflow) /\ (verdict'.late > Jitter => verdict'.wrapped)
      BY <2>3, <3>1, <3>2, <3>3, Zenon
    <3> QED BY <3>4 DEF TimeoutPunctual
  <2>6. After(now, backoff) \in Ticks
    <3>1. now + backoff \in Int
      BY <1>2, <1>6, TickAssumption DEF Ticks
    <3> QED BY <3>1, ModTicks DEF After
  <2>7. \/ pc' = "returned" /\ ticks' = now
        \/ pc' = "arm" /\ ticks' = now /\ Refill(wait.timeout)
        \/ pc' = pc /\ ticks' = After(now, backoff) /\ RenewWait(After(now, backoff))
    BY <2>1 DEF OutOfTime, Fail, Refill
  <2>8. CASE pc' = "returned" /\ ticks' = now
    BY <1>6, <2>5, <2>8 DEF Waits
  <2>9. CASE pc' = "arm" /\ ticks' = now /\ Refill(wait.timeout)
    BY <1>2, <1>6, <2>5, <2>9 DEF Waits, Refill
  <2>10. CASE pc' = pc /\ ticks' = After(now, backoff) /\ RenewWait(After(now, backoff))
    <3>1. wait'.timeout = wait.timeout /\ wait'.lasted = 0
          /\ wait'.deadline = After(After(now, backoff), wait'.timeout)
      BY <2>10 DEF RenewWait
    <3>2. WaitClock'
      BY <1>2, <2>6, <2>10, <3>1, WaitBegins
    <3> QED BY <1>2, <2>5, <2>6, <2>10, <3>1, <3>2
  <2> QED BY <2>7, <2>8, <2>9, <2>10
<1>8. CASE ~Expired(now, wait.deadline)
  <2>1. /\ verdict' = NoVerdict /\ ticks' = now /\ wait' = [wait EXCEPT !.lasted = lasted]
        /\ pc' = pc
    BY <1>1, <1>8
  <2>2. now < wait.deadline
    BY <1>4, <1>6, <1>8, TickAssumption DEF Expired, Ticks
  <2>3. lasted \in 0..TickMod /\ (lasted < TickMod => lasted = wait.lasted + d /\ wait.lasted < TickMod)
    BY <1>2, <1>4, <1>5 DEF Least
  <2>4. lasted < TickMod => now = After(start, lasted)
    BY <1>2, <1>3, <1>5, <2>3, AfterTwice
  <2>5. wait'.lasted = lasted /\ wait'.timeout = wait.timeout /\ wait'.deadline = wait.deadline
    BY <1>2, <2>1 DEF Wait
  <2>6. WaitClock'
    <3> HIDE DEF now, lasted
    <3> QED BY <1>3, <2>1, <2>2, <2>3, <2>4, <2>5 DEF WaitClock
  <2>7. TimeoutPunctual'
    <3>1. verdict'.early = 0 /\ verdict'.late = 0
      BY <2>1 DEF NoVerdict
    <3> QED BY <1>4, <3>1 DEF TimeoutPunctual
  <2> QED BY <1>2, <1>6, <2>1, <2>5, <2>6, <2>7
<1> QED BY <1>7, <1>8

LEMMA ClockStep == ClockInv /\ [ExchangeNext]_exchangeVars => ClockInv'
<1> SUFFICES ASSUME ClockInv, [ExchangeNext]_exchangeVars
             PROVE  ClockInv'
  OBVIOUS
<1> DEFINE Rest ==
        /\ ticks' \in Ticks
        /\ pc' \in Waits \cup {"arm", "progress"} => wait'.timeout \in Timeouts
        /\ pc' \in Waits \cup {"progress"} => WaitClock'
        /\ TimeoutPunctual'
<1>1. EstimateInv'
  BY EstimateStep DEF ClockInv
<1>2. /\ ticks \in Ticks /\ ticks \in Int /\ wait \in Wait
      /\ pc \in Waits \cup {"arm", "progress"} => wait.timeout \in Timeouts
  BY TickAssumption DEF ClockInv, EstimateInv, Ticks
<1>3. \A d \in Int : After(ticks, d) \in Ticks
  BY <1>2, ModTicks DEF After
<1>4. \A n : \A d \in 0..n : After(ticks, d) \in Ticks
  BY <1>3, IntervalInt
<1>5. verdict' = NoVerdict => TimeoutPunctual'
  BY ExchangeAssumption DEF TimeoutPunctual, NoVerdict
<1>6. CASE BeginCall \/ NextFile \/ EmptyFile \/ GivenUp
  <2>1. verdict' = NoVerdict /\ UNCHANGED ticks
        /\ pc' \notin Waits \cup {"arm", "progress"}
    BY <1>6 DEF BeginCall, NextFile, EmptyFile, GivenUp, Fail, Go, Waits
  <2>2. Rest
    BY <1>2, <1>5, <2>1
  <2> QED BY <1>1, <1>6, <2>2 DEF ClockInv, BeginCall, NextFile, EmptyFile, GivenUp
<1>7. CASE Progress
  <2>1. verdict' = NoVerdict /\ UNCHANGED <<ticks, bounds>> /\ pc = "progress"
    BY <1>7 DEF Progress
  <2>2. \/ pc' = "acks" /\ UNCHANGED wait
        \/ pc' \notin Waits \cup {"arm", "progress"}
    BY <1>7 DEF Progress, Fail, Go, Waits
  <2>3. pc' \in Waits \cup {"progress"} => WaitClock'
    BY <2>1, <2>2 DEF ClockInv, WaitClock, Waits
  <2>4. Rest
    BY <1>2, <1>5, <2>1, <2>2, <2>3
  <2> QED BY <1>1, <2>1, <2>4 DEF ClockInv
<1>8. CASE Top
  <2>1. /\ UNCHANGED <<ticks, bounds>> /\ verdict' = NoVerdict
        /\ \/ pc' = "returned"
           \/ pc' = "arm" /\ wait'.timeout = Timeout("DATA_ACK")
    BY <1>8 DEF Top, Fail, Refill
  <2>2. Rest
    BY <1>2, <1>5, <2>1, TimeoutBounds DEF Waits
  <2> QED BY <1>1, <2>1, <2>2 DEF ClockInv
<1>9. CASE Arm
  <2>1. /\ UNCHANGED <<ticks, bounds>> /\ verdict' = NoVerdict /\ pc = "arm" /\ pc' = "acks"
        /\ wait'.timeout = wait.timeout /\ wait'.lasted = 0
        /\ wait'.deadline = After(ticks, wait'.timeout)
    BY <1>9 DEF Arm, StartWait
  <2>2. WaitClock'
    BY <1>2, <2>1, WaitBegins
  <2>3. Rest
    BY <1>2, <1>5, <2>1, <2>2
  <2> QED BY <1>1, <2>1, <2>3 DEF ClockInv
<1>10. CASE DataAck \/ Benign
  <2>1. PICK d \in 0..Slice(ticks, wait.deadline) :
            ticks' = After(ticks, d) /\ RenewWait(After(ticks, d))
    BY <1>10 DEF DataAck, Benign
  <2>2. /\ pc \in Waits /\ UNCHANGED bounds /\ verdict' = NoVerdict
        /\ pc' \in {pc, "progress"}
    BY <1>10 DEF DataAck, Benign, Waits
  <2>3. After(ticks, d) \in Ticks
    BY <1>4
  <2>4. /\ wait'.timeout = wait.timeout /\ wait'.lasted = 0
        /\ wait'.deadline = After(After(ticks, d), wait'.timeout)
    BY <2>1 DEF RenewWait
  <2>5. WaitClock'
    BY <1>2, <2>1, <2>2, <2>3, <2>4, WaitBegins
  <2>6. Rest
    BY <1>2, <1>5, <2>1, <2>2, <2>3, <2>4, <2>5
  <2> QED BY <1>1, <2>2, <2>6 DEF ClockInv
<1>11. CASE DataNak
  <2>1. PICK d \in 0..Slice(ticks, wait.deadline) : ticks' = After(ticks, d)
    BY <1>11 DEF DataNak
  <2>2. /\ pc = "acks" /\ UNCHANGED bounds /\ verdict' = NoVerdict
        /\ pc' = "arm" /\ wait'.timeout = wait.timeout
    BY <1>11 DEF DataNak, Refill
  <2>3. Rest
    BY <1>2, <1>4, <1>5, <2>1, <2>2 DEF Waits
  <2> QED BY <1>1, <2>2, <2>3 DEF ClockInv
<1>12. ASSUME NEW from, NEW op, NEW to, Send(from, op, to) PROVE ClockInv'
  <2>1. /\ UNCHANGED <<ticks, bounds>> /\ verdict' = NoVerdict
        /\ \/ pc' = "returned"
           \/ /\ wait'.timeout = Timeout(op) /\ wait'.lasted = 0
              /\ wait'.deadline = After(ticks, wait'.timeout)
    BY <1>12 DEF Send, Fail, StartWait
  <2>2. pc' # "returned" => wait'.timeout \in Timeouts /\ WaitClock'
    BY <1>2, <2>1, TimeoutBounds, WaitBegins
  <2>3. Rest
    BY <1>2, <1>5, <2>1, <2>2 DEF Waits
  <2> QED BY <1>1, <2>1, <2>3 DEF ClockInv
<1>13. CASE DoneAck \/ EotAck
  <2>1. PICK d \in 0..Slice(ticks, wait.deadline) : ticks' = After(ticks, d)
    BY <1>13 DEF DoneAck, EotAck, Answered
  <2>2. UNCHANGED bounds /\ verdict' = NoVerdict /\ pc' \in {"file", "returned"}
    BY <1>13 DEF DoneAck, EotAck, Go
  <2>3. Rest
    BY <1>4, <1>5, <2>1, <2>2 DEF Waits
  <2> QED BY <1>1, <2>2, <2>3 DEF ClockInv
<1>14. CASE Miss
  BY <1>1, <1>14, ClockMiss DEF ClockInv, Miss
<1>15. CASE UNCHANGED exchangeVars
  BY <1>1, <1>15 DEF exchangeVars, ClockInv, WaitClock, TimeoutPunctual
<1> QED BY <1>6, <1>7, <1>8, <1>9, <1>10, <1>11, <1>12, <1>13, <1>14, <1>15
        DEF ExchangeNext, Traffic, Quiet, SendDone, SendEot

\* For every width of the tick counter, every timeout, slice and jitter: a wait of
\* val_internal_recv_until_deadline is early only when its deadline overflowed, and
\* late only when the counter wrapped around during it
THEOREM WaitsPunctual == ExchangeSpec => []TimeoutPunctual
<1>1. ClockInv => TimeoutPunctual
  BY DEF ClockInv
<1> QED BY <1>1, ClockInit, ClockStep, PTL DEF ExchangeSpec

-----------------------------------------------------------------------------
(* Health.                                                                 *)

\* A soft trip is outstanding only inside a window
HealthInv ==
    /\ softTrips \in {0, 1}
    /\ pc \notin {"arm", "acks", "returned"} => softTrips = 0
    /\ status # "PERFORMANCE"

LEMMA HealthStep == HealthInv /\ [ExchangeNext]_exchangeVars => HealthInv'
<1> SUFFICES ASSUME HealthInv, [ExchangeNext]_exchangeVars
             PROVE  HealthInv'
  OBVIOUS
<1>1. CASE Top
  <2>1. softTrips = 0
    BY <1>1 DEF Top, HealthInv
  <2>2. ~(softTrips + 1 >= SoftTrips)
    BY <2>1, ExchangeAssumption
  <2> QED BY <1>1, <2>1, <2>2 DEF Top, HealthInv, Fail, Refill
<1>2. CASE BeginCall \/ NextFile \/ EmptyFile
  BY <1>2 DEF BeginCall, NextFile, EmptyFile, HealthInv, Fail, Go, healthVars
<1>3. CASE Arm
  BY <1>3 DEF Arm, HealthInv, healthVars
<1>4. CASE DataAck
  BY <1>4 DEF DataAck, Acked, HealthInv
<1>5. CASE Progress
  BY <1>5 DEF Progress, HealthInv, Fail, Go, healthVars
<1>6. CASE DataNak
  BY <1>6 DEF DataNak, HealthInv, Refill, healthVars
<1>7. CASE SendDone \/ SendEot
  BY <1>7 DEF SendDone, SendEot, Send, Fail, HealthInv, healthVars
<1>8. CASE DoneAck \/ EotAck
  BY <1>8 DEF DoneAck, EotAck, Go, HealthInv, healthVars
<1>9. CASE Miss
  <2>1. /\ UNCHANGED softTrips
        /\ pc \in Waits
        /\ \/ UNCHANGED <<pc, status>>
           \/ pc' = "returned" /\ status' = "TIMEOUT"
           \/ pc = "acks" /\ pc' = "arm" /\ UNCHANGED status
    BY <1>9 DEF Miss, OutOfTime, Fail, Refill
  <2> QED BY <2>1 DEF HealthInv, Waits
<1>10. CASE GivenUp
  BY <1>10 DEF GivenUp, Fail, HealthInv, healthVars
<1>11. CASE UNCHANGED exchangeVars
  BY <1>11 DEF exchangeVars, healthVars, HealthInv
<1>12. CASE Benign
  BY <1>12 DEF Benign, HealthInv, healthVars
<1> QED BY <1>1, <1>2, <1>3, <1>4, <1>5, <1>6, <1>7, <1>8, <1>9, <1>10, <1>11, <1>12
        DEF ExchangeNext, Traffic, Quiet

\* Whatever the thresholds of the health check, as long as it asks for a second
\* soft trip, val_send_files never returns VAL_ERR_PERFORMANCE
THEOREM HealthNeverEnds == ExchangeSpec => []NeverUnhealthy
<1>1. ExchangeInit => HealthInv
  BY DEF ExchangeInit, HealthInv
<1>2. HealthInv => NeverUnhealthy
  BY ExchangeAssumption DEF HealthInv, NeverUnhealthy
<1> QED BY <1>1, <1>2, HealthStep, PTL DEF ExchangeSpec

-----------------------------------------------------------------------------
(* Cancel.                                                                 *)

\* The flag set by a callback is still there at the next look at it
CancelInv ==
    asked => \/ lastError = "ABORTED" /\ pc \in {"file", "top", "done", "eot"}
             \/ pc = "returned" /\ status = "ABORTED"

LEMMA CancelStep == CancelInv /\ [ExchangeNext]_exchangeVars => CancelInv'
<1> SUFFICES ASSUME CancelInv, [ExchangeNext]_exchangeVars
             PROVE  CancelInv'
  OBVIOUS
<1>1. CASE BeginCall \/ EmptyFile
  BY <1>1 DEF BeginCall, EmptyFile, CancelInv, Fail, Go
<1>2. CASE NextFile
  BY <1>2 DEF NextFile, Callback, Cancelled, CancelInv, Fail, Go
<1>3. CASE Top
  BY <1>3 DEF Top, Cancelled, CancelInv, Fail
<1>4. CASE Arm \/ DataAck \/ DataNak \/ Benign \/ GivenUp \/ EotAck
  <2>1. ~asked
    BY <1>4 DEF Arm, DataAck, DataNak, Benign, GivenUp, EotAck, Waits, CancelInv
  <2> QED BY <1>4, <2>1 DEF Arm, DataAck, DataNak, Benign, GivenUp, EotAck, CancelInv
<1>5. CASE Progress
  BY <1>5 DEF Progress, Callback, CancelInv, Fail, Go
<1>6. CASE SendDone \/ SendEot
  BY <1>6 DEF SendDone, SendEot, Send, Cancelled, CancelInv, Fail
<1>7. CASE DoneAck
  BY <1>7 DEF DoneAck, Callback, CancelInv, Go
<1>8. CASE Miss
  BY <1>8 DEF Miss, Waits, CancelInv
<1>9. CASE UNCHANGED exchangeVars
  BY <1>9 DEF exchangeVars, CancelInv
<1> QED BY <1>1, <1>2, <1>3, <1>4, <1>5, <1>6, <1>7, <1>8, <1>9
        DEF ExchangeNext, Traffic, Quiet

\* For every number and size of the files, every window and every way the waits
\* end: a cancel from a callback is not lost to a later error
THEOREM CancelAlwaysHonoured == ExchangeSpec => []CancelHonoured
<1>1. ExchangeInit => CancelInv
  BY DEF ExchangeInit, CancelInv
<1>2. CancelInv => CancelHonoured
  BY DEF CancelInv, CancelHonoured
<1> QED BY <1>1, <1>2, CancelStep, PTL DEF ExchangeSpec
=============================================================================
