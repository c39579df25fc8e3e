------------------------- MODULE VideoDecoderProofs -------------------------
(***************************************************************************)
(* Proofs about VideoDecoder for all thresholds, codecs and streams.       *)
(***************************************************************************)
EXTENDS VideoDecoder, TLAPS

Decoder ==
  [pc : {"none", "loop", "wait", "receive", "exited"}, quit : BOOLEAN,
   in : Nat, out : Nat, info : Seq(Unit), codec : Seq(Unit),
   failures : 0..FAILED_DECODES_RESET_THRESHOLD, requests : Nat, hdr : BOOLEAN]

Host ==
  [units : Seq([n : Unit, idr : BOOLEAN]), wake : BOOLEAN, hdr : BOOLEAN,
   sent : 0..MaxUnits, changes : 0..MaxChanges, decoders : 0..MaxDecoders]

(* The way of the units: each is newer than those that went before it, and *)
(* the codec holds no more of them than infos wait.                        *)
Flow(in, out, info, codec, units, sent) ==
  /\ out <= in /\ Len(info) = in - out /\ Len(codec) <= Len(info)
  /\ \A i \in 1..Len(codec) : info[i] <= codec[i]
  /\ \A i, j \in 1..Len(codec) : i < j => codec[i] < codec[j]
  /\ \A i, j \in 1..Len(units) : i < j => units[i].n < units[j].n
  /\ \A i \in 1..Len(units) : units[i].n <= sent
  /\ \A i \in 1..Len(info) : info[i] <= sent /\ \A j \in 1..Len(units) : info[i] < units[j].n
  /\ \A i \in 1..Len(codec) : codec[i] <= sent /\ \A j \in 1..Len(units) : codec[i] < units[j].n

(* m_DecoderLock has one holder, and a decoder in use exists.              *)
LockHeld ==
  /\ lock = "main" <=> main.pc \in {"join", "choose", "readHdr", "setHdr", "unlock"}
  /\ lock = "control" <=> control.pc = "using"
  /\ control.pc = "using" => Exists

-----------------------------------------------------------------------------
(* Sequences *)

LEMMA TailFacts ==
  ASSUME NEW S, NEW q \in Seq(S), q # <<>>
  PROVE  /\ Tail(q) \in Seq(S) /\ Len(Tail(q)) = Len(q) - 1 /\ Len(q) > 0
         /\ Head(q) = q[1] /\ Head(q) \in S
         /\ \A i \in 1..(Len(q) - 1) : Tail(q)[i] = q[i + 1]
OBVIOUS

LEMMA ElementFacts ==
  ASSUME NEW S, NEW q \in Seq(S)
  PROVE  \A i \in 1..Len(q) : q[i] \in S
OBVIOUS

LEMMA AppendFacts ==
  ASSUME NEW S, NEW q \in Seq(S), NEW x \in S
  PROVE  /\ Append(q, x) \in Seq(S) /\ Len(Append(q, x)) = Len(q) + 1
         /\ \A i \in 1..Len(q) : Append(q, x)[i] = q[i]
         /\ Append(q, x)[Len(q) + 1] = x
OBVIOUS

-----------------------------------------------------------------------------
(* What the decoder thread does to the flow *)

\* A unit goes to the codec, its info to the queue.
LEMMA SendKeepsFlow ==
  ASSUME NEW in \in Nat, NEW out \in Nat, NEW info \in Seq(Unit), NEW codec \in Seq(Unit),
         NEW units \in Seq([n : Unit, idr : BOOLEAN]), NEW sent \in Nat,
         units # <<>>, Flow(in, out, info, codec, units, sent)
  PROVE  Flow(in + 1, out, Append(info, Head(units).n), Append(codec, Head(units).n),
              Tail(units), sent)
<1> DEFINE u == Head(units).n
           info2 == Append(info, u)
           codec2 == Append(codec, u)
           rest == Tail(units)
<1>1. /\ Head(units) = units[1] /\ u \in Unit /\ Len(units) > 0
      /\ rest \in Seq([n : Unit, idr : BOOLEAN]) /\ Len(rest) = Len(units) - 1
      /\ \A i \in 1..(Len(units) - 1) : rest[i] = units[i + 1]
  <2>1. Head(units) \in [n : Unit, idr : BOOLEAN]
    BY TailFacts
  <2>2. u \in Unit
    BY <2>1
  <2> QED BY <2>2, TailFacts
<1>2. /\ info2 \in Seq(Unit) /\ Len(info2) = Len(info) + 1
      /\ \A i \in 1..Len(info) : info2[i] = info[i]
      /\ info2[Len(info) + 1] = u
  BY <1>1, AppendFacts
<1>3. /\ codec2 \in Seq(Unit) /\ Len(codec2) = Len(codec) + 1
      /\ \A i \in 1..Len(codec) : codec2[i] = codec[i]
      /\ codec2[Len(codec) + 1] = u
  BY <1>1, AppendFacts
<1>4. \A i \in 1..Len(info) : info[i] < u /\ info[i] \in Nat
  BY <1>1, BoundAssumption DEF Flow, Unit
<1>5. \A i \in 1..Len(codec) : codec[i] < u /\ codec[i] \in Nat
  BY <1>1, BoundAssumption DEF Flow, Unit
<1>6. u \in Nat /\ u <= sent /\ \A j \in 1..Len(rest) : u < rest[j].n /\ rest[j].n <= sent
  <2>1. \A j \in 1..Len(rest) : j + 1 \in 1..Len(units) /\ rest[j] = units[j + 1] /\ 1 < j + 1
    BY <1>1
  <2> QED BY <1>1, <2>1, BoundAssumption DEF Flow, Unit
<1>7. \A i, j \in 1..Len(rest) : i < j => rest[i].n < rest[j].n
  <2>1. \A j \in 1..Len(rest) : j + 1 \in 1..Len(units) /\ rest[j] = units[j + 1]
    BY <1>1
  <2> QED BY <1>1, <2>1 DEF Flow
<1>8. \A i \in 1..Len(info2) : i \in 1..Len(info) \/ i = Len(info) + 1
  BY <1>2
<1>9. \A i \in 1..Len(codec2) : i \in 1..Len(codec) \/ i = Len(codec) + 1
  BY <1>3
<1>10. \A j \in 1..Len(rest) : j + 1 \in 1..Len(units) /\ rest[j] = units[j + 1]
  BY <1>1
<1>11. \A i \in 1..Len(info2) :
         info2[i] <= u /\ info2[i] <= sent /\ \A j \in 1..Len(rest) : info2[i] < rest[j].n
  BY <1>2, <1>4, <1>6, <1>8, <1>10 DEF Flow
<1>12. \A i \in 1..Len(codec2) :
         codec2[i] <= sent /\ \A j \in 1..Len(rest) : codec2[i] < rest[j].n
  BY <1>3, <1>5, <1>6, <1>9, <1>10 DEF Flow
<1>13. out <= in + 1 /\ Len(info2) = in + 1 - out /\ Len(codec2) <= Len(info2)
  BY <1>2, <1>3 DEF Flow
<1>14. \A i \in 1..Len(codec2) : info2[i] <= codec2[i]
  BY <1>2, <1>3, <1>9, <1>11, <1>13 DEF Flow
<1>15. \A i, j \in 1..Len(codec2) : i < j => codec2[i] < codec2[j]
  BY <1>3, <1>5, <1>9 DEF Flow
<1>16. Flow(in + 1, out, info2, codec2, rest, sent)
  <2> HIDE DEF u, info2, codec2, rest
  <2> QED BY <1>6, <1>7, <1>11, <1>12, <1>13, <1>14, <1>15 DEF Flow
<1> QED BY <1>16

\* A unit that is refused or fails leaves the queue only.
LEMMA RefusalKeepsFlow ==
  ASSUME NEW in \in Nat, NEW out \in Nat, NEW info \in Seq(Unit), NEW codec \in Seq(Unit),
         NEW units \in Seq([n : Unit, idr : BOOLEAN]), NEW sent \in Nat,
         units # <<>>, Flow(in, out, info, codec, units, sent)
  PROVE  Flow(in, out, info, codec, Tail(units), sent)
<1>1. /\ Len(Tail(units)) = Len(units) - 1 /\ Len(units) > 0
      /\ \A i \in 1..(Len(units) - 1) : Tail(units)[i] = units[i + 1]
  BY TailFacts
<1>2. \A j \in 1..Len(Tail(units)) : j + 1 \in 1..Len(units) /\ Tail(units)[j] = units[j + 1]
  BY <1>1
<1> QED BY <1>1, <1>2 DEF Flow

\* A frame that the codec has lost leaves newer ones to the infos.
LEMMA LossKeepsFlow ==
  ASSUME NEW in \in Nat, NEW out \in Nat, NEW info \in Seq(Unit), NEW codec \in Seq(Unit),
         NEW units \in Seq([n : Unit, idr : BOOLEAN]), NEW sent \in Nat,
         codec # <<>>, Flow(in, out, info, codec, units, sent)
  PROVE  Flow(in, out, info, Tail(codec), units, sent)
<1>1. /\ Len(Tail(codec)) = Len(codec) - 1 /\ Len(codec) > 0
      /\ \A i \in 1..(Len(codec) - 1) : Tail(codec)[i] = codec[i + 1]
  BY TailFacts
<1>2. \A i \in 1..Len(Tail(codec)) :
        i \in 1..Len(codec) /\ i + 1 \in 1..Len(codec) /\ Tail(codec)[i] = codec[i + 1]
  BY <1>1
<1>3. Len(codec) <= Len(info) /\ Len(info) \in Nat
  BY DEF Flow
<1>4. \A i \in 1..Len(codec) : codec[i] \in Nat /\ info[i] \in Nat
  BY <1>3, BoundAssumption DEF Unit
<1>5. \A i \in 1..Len(Tail(codec)) : info[i] <= Tail(codec)[i]
  <2> TAKE i \in 1..Len(Tail(codec))
  <2>1. info[i] <= codec[i] /\ codec[i] < codec[i + 1]
    BY <1>2 DEF Flow
  <2> QED BY <1>2, <1>4, <2>1
<1>6. \A i, j \in 1..Len(Tail(codec)) : i < j => Tail(codec)[i] < Tail(codec)[j]
  BY <1>2 DEF Flow
<1> QED BY <1>1, <1>2, <1>3, <1>5, <1>6 DEF Flow

\* A frame that is received takes the oldest info along.
LEMMA ReceiptKeepsFlow ==
  ASSUME NEW in \in Nat, NEW out \in Nat, NEW info \in Seq(Unit), NEW codec \in Seq(Unit),
         NEW units \in Seq([n : Unit, idr : BOOLEAN]), NEW sent \in Nat,
         codec # <<>>, Flow(in, out, info, codec, units, sent)
  PROVE  info # <<>> /\ Flow(in, out + 1, Tail(info), Tail(codec), units, sent)
<1>1. /\ Len(Tail(codec)) = Len(codec) - 1 /\ Len(codec) > 0
      /\ \A i \in 1..(Len(codec) - 1) : Tail(codec)[i] = codec[i + 1]
  BY TailFacts
<1>2. info # <<>> /\ Len(codec) <= Len(info) /\ Len(info) \in Nat
  BY <1>1 DEF Flow
<1>3. /\ Len(Tail(info)) = Len(info) - 1
      /\ \A i \in 1..(Len(info) - 1) : Tail(info)[i] = info[i + 1]
  BY <1>2, TailFacts
<1>4. \A i \in 1..Len(Tail(codec)) :
        i + 1 \in 1..Len(codec) /\ i \in 1..Len(Tail(info)) /\ Tail(codec)[i] = codec[i + 1]
  BY <1>1, <1>2, <1>3
<1>5. \A i \in 1..Len(Tail(info)) : i + 1 \in 1..Len(info) /\ Tail(info)[i] = info[i + 1]
  BY <1>2, <1>3
<1>6. out + 1 <= in /\ Len(Tail(info)) = in - (out + 1) /\ Len(Tail(codec)) <= Len(Tail(info))
  BY <1>1, <1>2, <1>3 DEF Flow
<1>7. \A i \in 1..Len(Tail(codec)) : Tail(info)[i] <= Tail(codec)[i]
  BY <1>4, <1>5 DEF Flow
<1> QED BY <1>2, <1>4, <1>5, <1>6, <1>7 DEF Flow

-----------------------------------------------------------------------------
(* Failures *)

\* A decoder that has not asked yet asks at most once, and quits then.
AskedProperly(d) ==
  /\ d.requests <= 1 /\ (d.requests = 1 => d.quit)
  /\ d.failures = FAILED_DECODES_RESET_THRESHOLD => d.quit

Working(d) == d.requests = 0 /\ d.failures < FAILED_DECODES_RESET_THRESHOLD

LEMMA FailedOutcome ==
  ASSUME NEW d \in Decoder, Working(d)
  PROVE  /\ Failed(d) \in Decoder /\ AskedProperly(Failed(d))
         /\ Working(Failed(d)) \/ Failed(d).quit
         /\ Failed(d).pc = d.pc /\ Failed(d).hdr = d.hdr
         /\ Failed(d).in = d.in /\ Failed(d).out = d.out
         /\ Failed(d).info = d.info /\ Failed(d).codec = d.codec
<1>1. CASE d.failures + 1 = FAILED_DECODES_RESET_THRESHOLD
  <2>1. /\ d.failures + 1 \in 0..FAILED_DECODES_RESET_THRESHOLD
        /\ d.requests = 0 /\ d.requests + 1 \in Nat
    BY <1>1, ThresholdAssumption DEF Decoder, Working
  <2>2. Failed(d) = [d EXCEPT !.failures = d.failures + 1, !.requests = d.requests + 1,
                              !.quit = TRUE]
    BY <1>1 DEF Failed
  <2>3. Failed(d) \in Decoder
    BY <2>1, <2>2 DEF Decoder
  <2>4. Failed(d).requests = 1 /\ Failed(d).quit = TRUE
    BY <2>1, <2>2 DEF Decoder
  <2> QED BY <2>2, <2>3, <2>4 DEF AskedProperly, Decoder
<1>2. CASE d.failures + 1 # FAILED_DECODES_RESET_THRESHOLD
  BY <1>2, ThresholdAssumption DEF Failed, Decoder, AskedProperly, Working
<1> QED BY <1>1, <1>2

LEMMA SubmitOutcome ==
  ASSUME NEW d \in Decoder, Working(d), AskedProperly(d),
         NEW units \in Seq([n : Unit, idr : BOOLEAN]), units # <<>>,
         NEW sent \in Nat, Flow(d.in, d.out, d.info, d.codec, units, sent),
         NEW e \in Submit(d, Head(units))
  PROVE  /\ e \in Decoder /\ AskedProperly(e) /\ e.pc = d.pc
         /\ Working(e) \/ (e.quit /\ e.in = d.in /\ e.out = d.out)
         /\ Flow(e.in, e.out, e.info, e.codec, Tail(units), sent)
<1> DEFINE u == Head(units)
<1>1. u \in [n : Unit, idr : BOOLEAN] /\ u.n \in Unit
  <2>1. u \in [n : Unit, idr : BOOLEAN]
    BY TailFacts
  <2> QED BY <2>1
<1>2. /\ d.in \in Nat /\ d.out \in Nat /\ d.info \in Seq(Unit) /\ d.codec \in Seq(Unit)
  BY DEF Decoder
<1>3. CASE e = d
  BY <1>2, <1>3, RefusalKeepsFlow
<1>4. CASE e = Failed(d)
  <2>1. Flow(d.in, d.out, d.info, d.codec, Tail(units), sent)
    BY <1>2, RefusalKeepsFlow
  <2> QED BY <1>4, <2>1, FailedOutcome
<1>5. CASE e = [d EXCEPT !.info = Append(@, u.n), !.in = @ + 1, !.codec = Append(@, u.n)]
  <2>1. /\ e.in = d.in + 1 /\ e.out = d.out /\ e.pc = d.pc /\ e.quit = d.quit
        /\ e.info = Append(d.info, u.n) /\ e.codec = Append(d.codec, u.n)
        /\ e.failures = d.failures /\ e.requests = d.requests
    BY <1>5 DEF Decoder
  <2>2. Append(d.info, u.n) \in Seq(Unit) /\ Append(d.codec, u.n) \in Seq(Unit)
    BY <1>1, <1>2, AppendFacts
  <2>3. e \in Decoder
    <3>1. d.in + 1 \in Nat
      BY <1>2
    <3> QED BY <1>5, <2>2, <3>1 DEF Decoder
  <2>4. Flow(e.in, e.out, e.info, e.codec, Tail(units), sent)
    BY <1>2, <2>1, SendKeepsFlow
  <2> QED BY <2>1, <2>3, <2>4 DEF AskedProperly, Working
<1>6. e = d \/ e = Failed(d)
      \/ e = [d EXCEPT !.info = Append(@, u.n), !.in = @ + 1, !.codec = Append(@, u.n)]
  BY DEF Submit
<1> QED BY <1>3, <1>4, <1>5, <1>6

-----------------------------------------------------------------------------
(* The decoder thread keeps its invariants *)

DecoderInv(d, h) ==
  /\ d \in Decoder /\ h \in Host
  /\ Flow(d.in, d.out, d.info, d.codec, h.units, h.sent)
  /\ AskedProperly(d)
  /\ d.pc \in {"wait", "receive"} => Working(d)
  /\ d.pc = "wait" => d.in = d.out

\* Moving on to another place of the loop.
LEMMA MoveKeeps ==
  ASSUME NEW d \in Decoder, NEW h \in Host,
         Flow(d.in, d.out, d.info, d.codec, h.units, h.sent), AskedProperly(d),
         NEW pc \in {"loop", "wait", "receive", "exited"},
         pc \in {"wait", "receive"} => Working(d), pc = "wait" => d.in = d.out
  PROVE  DecoderInv([d EXCEPT !.pc = pc], h)
<1> DEFINE e == [d EXCEPT !.pc = pc]
<1>1. /\ e \in Decoder /\ e.pc = pc /\ e.in = d.in /\ e.out = d.out /\ e.info = d.info
      /\ e.codec = d.codec /\ e.quit = d.quit /\ e.failures = d.failures
      /\ e.requests = d.requests
  BY DEF Decoder
<1> QED BY <1>1 DEF DecoderInv, AskedProperly, Working

LEMMA DecoderStepKeeps ==
  ASSUME DecoderInv(dec, host), DecoderStep
  PROVE  DecoderInv(dec, host)'
<1>1. DecoderInv(dec', host') => DecoderInv(dec, host)'
  OBVIOUS
<1> SUFFICES DecoderInv(dec', host')
  BY <1>1
<1>2. /\ dec \in Decoder /\ host \in Host /\ AskedProperly(dec)
      /\ Flow(dec.in, dec.out, dec.info, dec.codec, host.units, host.sent)
      /\ dec.in \in Nat /\ dec.out \in Nat /\ dec.info \in Seq(Unit) /\ dec.codec \in Seq(Unit)
      /\ host.units \in Seq([n : Unit, idr : BOOLEAN]) /\ host.sent \in Nat
  BY BoundAssumption DEF DecoderInv, Decoder, Host
<1>3. dec.pc \in {"wait", "receive"} => Working(dec)
  BY DEF DecoderInv
<1>4. ASSUME host.units # <<>> PROVE LET h == [host EXCEPT !.units = Tail(@)]
                                     IN h \in Host /\ h.units = Tail(host.units) /\ h.sent = host.sent
  <2>1. Tail(host.units) \in Seq([n : Unit, idr : BOOLEAN])
    BY <1>2, <1>4, TailFacts
  <2> QED BY <1>2, <2>1 DEF Host
<1>5. CASE LoopHead
  <2>1. ~dec.quit => Working(dec)
    BY <1>2, ThresholdAssumption DEF AskedProperly, Working, Decoder
  <2> DEFINE pc == IF dec.quit THEN "exited" ELSE IF dec.in = dec.out THEN "wait" ELSE "receive"
  <2>2. pc \in {"loop", "wait", "receive", "exited"}
        /\ (pc \in {"wait", "receive"} => Working(dec)) /\ (pc = "wait" => dec.in = dec.out)
    BY <2>1
  <2>3. DecoderInv([dec EXCEPT !.pc = pc], host)
    BY <1>2, <2>2, MoveKeeps
  <2> QED BY <1>5, <2>3 DEF LoopHead
<1>6. CASE WaitForUnit
  <2>1. Working(dec) /\ dec.in = dec.out
    BY <1>6 DEF WaitForUnit, DecoderInv
  <2>2. CASE /\ host.units # <<>>
             /\ \E d \in Submit(dec, Head(host.units)) :
                  dec' = [d EXCEPT !.pc = IF d.in # d.out THEN "receive" ELSE "loop"]
             /\ host' = [host EXCEPT !.units = Tail(@)]
    <3>1. PICK d \in Submit(dec, Head(host.units)) :
            dec' = [d EXCEPT !.pc = IF d.in # d.out THEN "receive" ELSE "loop"]
      BY <2>2
    <3>2. /\ d \in Decoder /\ AskedProperly(d)
          /\ Working(d) \/ (d.in = dec.in /\ d.out = dec.out)
          /\ Flow(d.in, d.out, d.info, d.codec, Tail(host.units), host.sent)
      BY <1>2, <2>1, <2>2, SubmitOutcome
    <3>3. /\ host' \in Host
          /\ Flow(d.in, d.out, d.info, d.codec, host'.units, host'.sent)
      BY <1>4, <2>2, <3>2
    <3> QED BY <2>1, <3>1, <3>2, <3>3, MoveKeeps
  <2>3. CASE host' = [host EXCEPT !.wake = FALSE] /\ dec' = [dec EXCEPT !.pc = "loop"]
    <3>1. host' \in Host /\ host'.units = host.units /\ host'.sent = host.sent
      BY <1>2, <2>3 DEF Host
    <3> QED BY <1>2, <2>3, <3>1, MoveKeeps
  <2> QED BY <1>6, <2>2, <2>3 DEF WaitForUnit
<1>7. CASE ReceiveFrame
  <2>1. dec.codec # <<>> /\ Working(dec)
    BY <1>3, <1>7 DEF ReceiveFrame
  <2>2. /\ dec.info # <<>>
        /\ Flow(dec.in, dec.out + 1, Tail(dec.info), Tail(dec.codec), host.units, host.sent)
    BY <1>2, <2>1, ReceiptKeepsFlow
  <2>3. Tail(dec.info) \in Seq(Unit) /\ Tail(dec.codec) \in Seq(Unit)
    BY <1>2, <2>1, <2>2, TailFacts
  <2>4. /\ dec' = [dec EXCEPT !.pc = "loop", !.out = dec.out + 1, !.failures = 0,
                              !.codec = Tail(dec.codec), !.info = Tail(dec.info)]
        /\ host' = host
    BY <1>7, <2>2 DEF ReceiveFrame
  <2>5. /\ dec' \in Decoder
        /\ dec'.in = dec.in /\ dec'.out = dec.out + 1 /\ dec'.info = Tail(dec.info)
        /\ dec'.codec = Tail(dec.codec) /\ dec'.pc = "loop" /\ dec'.failures = 0
        /\ dec'.requests = dec.requests /\ dec'.quit = dec.quit
    <3>1. dec.out + 1 \in Nat /\ 0 \in 0..FAILED_DECODES_RESET_THRESHOLD
      BY <1>2, ThresholdAssumption
    <3> QED BY <1>2, <2>3, <2>4, <3>1 DEF Decoder
  <2> QED BY <1>2, <2>1, <2>2, <2>4, <2>5, ThresholdAssumption
          DEF DecoderInv, AskedProperly, Working
<1>8. CASE ReceiveAgain
  <2>1. Working(dec)
    BY <1>3, <1>8 DEF ReceiveAgain
  <2>2. CASE /\ host.units # <<>>
             /\ \E d \in Submit(dec, Head(host.units)) :
                  dec' = [d EXCEPT !.pc = IF d.quit THEN "loop" ELSE "receive"]
             /\ host' = [host EXCEPT !.units = Tail(@)]
    <3>1. PICK d \in Submit(dec, Head(host.units)) :
            dec' = [d EXCEPT !.pc = IF d.quit THEN "loop" ELSE "receive"]
      BY <2>2
    <3>2. /\ d \in Decoder /\ AskedProperly(d)
          /\ Working(d) \/ d.quit
          /\ Flow(d.in, d.out, d.info, d.codec, Tail(host.units), host.sent)
      BY <1>2, <2>1, <2>2, SubmitOutcome
    <3>3. /\ host' \in Host
          /\ Flow(d.in, d.out, d.info, d.codec, host'.units, host'.sent)
      BY <1>4, <2>2, <3>2
    <3> DEFINE pc == IF d.quit THEN "loop" ELSE "receive"
    <3>4. /\ pc \in {"loop", "wait", "receive", "exited"} /\ pc # "wait"
          /\ pc \in {"wait", "receive"} => Working(d)
      BY <3>2
    <3>5. DecoderInv([d EXCEPT !.pc = pc], host')
      <4> HIDE DEF pc
      <4> QED BY <3>2, <3>3, <3>4, MoveKeeps
    <3> QED BY <3>1, <3>5
  <2>3. CASE /\ dec' = [dec EXCEPT !.pc = IF dec.quit THEN "loop" ELSE "receive"]
             /\ UNCHANGED host
    BY <1>2, <2>1, <2>3, MoveKeeps
  <2> QED BY <1>8, <2>2, <2>3 DEF ReceiveAgain
<1>9. CASE ReceiveError
  <2>1. Working(dec)
    BY <1>3, <1>9 DEF ReceiveError
  <2> DEFINE d == Failed(dec)
  <2>2. PICK c \in {dec.codec} \cup {Tail(q) : q \in {dec.codec} \ {<<>>}} :
          dec' = [d EXCEPT !.pc = "loop", !.codec = c, !.info = KeepsInfo(@)]
    BY <1>9 DEF ReceiveError
  <2>3. c \in Seq(Unit) /\ Flow(dec.in, dec.out, dec.info, c, host.units, host.sent)
    <3>1. c = dec.codec \/ (dec.codec # <<>> /\ c = Tail(dec.codec))
      OBVIOUS
    <3>2. CASE c = dec.codec
      BY <1>2, <3>2
    <3>3. CASE dec.codec # <<>> /\ c = Tail(dec.codec)
      BY <1>2, <3>3, LossKeepsFlow, TailFacts
    <3> QED BY <3>1, <3>2, <3>3
  <2>4. /\ d \in Decoder /\ AskedProperly(d)
        /\ d.in = dec.in /\ d.out = dec.out /\ d.info = dec.info
    BY <1>2, <2>1, FailedOutcome
  <2>5. /\ dec' \in Decoder /\ dec'.in = dec.in /\ dec'.out = dec.out /\ dec'.info = dec.info
        /\ dec'.codec = c /\ dec'.pc = "loop" /\ dec'.failures = d.failures
        /\ dec'.requests = d.requests /\ dec'.quit = d.quit
    <3> HIDE DEF d
    <3> QED BY <2>2, <2>3, <2>4 DEF Decoder, KeepsInfo
  <2>6. host' = host
    BY <1>9 DEF ReceiveError
  <2> QED BY <1>2, <2>3, <2>4, <2>5, <2>6 DEF DecoderInv, AskedProperly
<1> QED BY <1>5, <1>6, <1>7, <1>8, <1>9 DEF DecoderStep

-----------------------------------------------------------------------------
(* The other threads *)

LEMMA NoDecoderInv ==
  ASSUME NEW h \in Host, NEW d \in Decoder, DecoderInv(d, h),
         NEW pc \in {"none", "loop"}
  PROVE  DecoderInv([NoDecoder EXCEPT !.pc = pc], h)
<1> DEFINE e == [NoDecoder EXCEPT !.pc = pc]
<1>1. <<>> \in Seq(Unit) /\ Len(<<>>) = 0 /\ 0 \in 0..FAILED_DECODES_RESET_THRESHOLD
  BY ThresholdAssumption
<1>2. NoDecoder \in Decoder
  BY <1>1 DEF NoDecoder, Decoder
<1>3. e \in Decoder
  BY <1>2 DEF Decoder
<1>6. /\ e.pc = pc /\ e.in = 0 /\ e.out = 0 /\ e.info = <<>> /\ e.codec = <<>>
      /\ e.failures = 0 /\ e.requests = 0
  BY DEF NoDecoder
<1>4. Flow(0, 0, <<>>, <<>>, h.units, h.sent)
  BY <1>1 DEF DecoderInv, Flow
<1> HIDE DEF e
<1>5. DecoderInv(e, h)
  BY <1>3, <1>4, <1>6, ThresholdAssumption DEF DecoderInv, AskedProperly
<1> QED BY <1>5 DEF e

\* Neither the flow nor the requests depend on the HDR mode, and a thread may
\* be asked to quit at any time.
LEMMA SettingKeeps ==
  ASSUME NEW d \in Decoder, NEW h \in Host, DecoderInv(d, h), NEW b \in BOOLEAN
  PROVE  DecoderInv([d EXCEPT !.hdr = b], h) /\ DecoderInv([d EXCEPT !.quit = TRUE], h)
<1>1. /\ [d EXCEPT !.hdr = b] \in Decoder /\ [d EXCEPT !.quit = TRUE] \in Decoder
  BY DEF Decoder
<1> QED BY <1>1 DEF DecoderInv, AskedProperly, Working, Decoder

\* The flow does not depend on the rest of the host's state either.
LEMMA HostKeeps ==
  ASSUME NEW d \in Decoder, NEW h \in Host, DecoderInv(d, h),
         NEW g \in Host, g.units = h.units, g.sent = h.sent
  PROVE  DecoderInv(d, g)
BY DEF DecoderInv

\* A unit that arrives is newer than all others.
LEMMA ArrivalKeeps ==
  ASSUME NEW d \in Decoder, NEW h \in Host, DecoderInv(d, h), h.sent < MaxUnits,
         NEW b \in BOOLEAN
  PROVE  LET g == [h EXCEPT !.sent = @ + 1,
                            !.units = Append(@, [n |-> h.sent + 1, idr |-> b])]
         IN  g \in Host /\ DecoderInv(d, g)
<1> DEFINE u == [n |-> h.sent + 1, idr |-> b]
           units == Append(h.units, u)
           g == [h EXCEPT !.sent = @ + 1, !.units = units]
<1>1. /\ h.sent \in Nat /\ h.sent + 1 \in 0..MaxUnits /\ h.sent + 1 \in Unit
      /\ h.units \in Seq([n : Unit, idr : BOOLEAN])
  BY BoundAssumption DEF Host, Unit
<1>2. u \in [n : Unit, idr : BOOLEAN] /\ u.n = h.sent + 1
  BY <1>1
<1>3. /\ units \in Seq([n : Unit, idr : BOOLEAN]) /\ Len(units) = Len(h.units) + 1
      /\ \A i \in 1..Len(h.units) : units[i] = h.units[i]
      /\ units[Len(h.units) + 1] = u
  BY <1>1, <1>2, AppendFacts
<1>4. g \in Host /\ g.units = units /\ g.sent = h.sent + 1
  BY <1>1, <1>3 DEF Host
<1>5. \A i \in 1..Len(units) : i \in 1..Len(h.units) \/ i = Len(h.units) + 1
  BY <1>3
<1>6. \A i \in 1..Len(h.units) : h.units[i].n \in Nat /\ h.units[i].n <= h.sent
  <2>1. \A i \in 1..Len(h.units) : h.units[i] \in [n : Unit, idr : BOOLEAN]
    BY <1>1, ElementFacts
  <2>2. \A i \in 1..Len(h.units) : h.units[i].n \in Unit
    BY <2>1
  <2> QED BY <2>2, BoundAssumption DEF DecoderInv, Flow, Unit
<1>7. /\ \A i \in 1..Len(d.info) : d.info[i] \in Nat /\ d.info[i] <= h.sent
      /\ \A i \in 1..Len(d.codec) : d.codec[i] \in Nat /\ d.codec[i] <= h.sent
  BY BoundAssumption DEF DecoderInv, Flow, Unit, Decoder
<1>8. \A i \in 1..Len(units) : units[i].n <= h.sent + 1
  BY <1>1, <1>2, <1>3, <1>5, <1>6
<1>9. \A i, j \in 1..Len(units) : i < j => units[i].n < units[j].n
  BY <1>1, <1>2, <1>3, <1>5, <1>6 DEF DecoderInv, Flow
<1>10. \A i \in 1..Len(d.info) :
         d.info[i] <= h.sent + 1 /\ \A j \in 1..Len(units) : d.info[i] < units[j].n
  BY <1>1, <1>2, <1>3, <1>5, <1>7 DEF DecoderInv, Flow
<1>11. \A i \in 1..Len(d.codec) :
         d.codec[i] <= h.sent + 1 /\ \A j \in 1..Len(units) : d.codec[i] < units[j].n
  BY <1>1, <1>2, <1>3, <1>5, <1>7 DEF DecoderInv, Flow
<1>12. Flow(d.in, d.out, d.info, d.codec, units, h.sent + 1)
  <2> HIDE DEF units
  <2> QED BY <1>8, <1>9, <1>10, <1>11 DEF DecoderInv, Flow
<1> QED BY <1>4, <1>12 DEF DecoderInv

-----------------------------------------------------------------------------
(* All steps *)

MainType ==
  [pc : {"idle", "lock", "join", "choose", "readHdr", "setHdr", "unlock"},
   goal : {"create", "running", "replace", "refresh", "destroy", "destroyed"},
   hdr : BOOLEAN]

\* The invariant in the form in which the steps keep it.
Inv ==
  /\ DecoderInv(dec, host)
  /\ lock \in {"none", "main", "control"} /\ main \in MainType
  /\ control \in [pc : {"idle", "callback", "using"}, hdr : BOOLEAN]
  /\ reset \in BOOLEAN
  /\ LockHeld

LEMMA InvInit == Init => Inv
<1> SUFFICES ASSUME Init PROVE Inv
  OBVIOUS
<1>1. <<>> \in Seq(Unit) /\ Len(<<>>) = 0 /\ 0 \in 0..FAILED_DECODES_RESET_THRESHOLD
      /\ <<>> \in Seq([n : Unit, idr : BOOLEAN])
  BY ThresholdAssumption
<1>2. dec \in Decoder /\ dec.pc = "none"
  BY <1>1 DEF Init, NoDecoder, Decoder
<1>3. host \in Host /\ host.units = <<>> /\ host.sent = 0
  BY <1>1, BoundAssumption DEF Init, Host
<1>4. Flow(0, 0, <<>>, <<>>, <<>>, 0)
  BY <1>1 DEF Flow
<1>5. DecoderInv(dec, host)
  BY <1>2, <1>3, <1>4, ThresholdAssumption DEF Init, NoDecoder, DecoderInv, AskedProperly
<1> QED BY <1>5 DEF Init, Inv, MainType, LockHeld

LEMMA InvStep == Inv /\ [Next]_vars => Inv'
<1> SUFFICES ASSUME Inv, [Next]_vars PROVE Inv'
  OBVIOUS
<1>1. dec \in Decoder /\ host \in Host /\ DecoderInv(dec, host)
  BY DEF Inv, DecoderInv
<1>2. DecoderInv(dec', host') => DecoderInv(dec, host)'
  OBVIOUS
<1> USE DEF Inv, LockHeld, MainType, Exists
<1>3. CASE DecoderStep
  <2>1. DecoderInv(dec, host)'
    BY <1>1, <1>3, DecoderStepKeeps
  <2>2. UNCHANGED <<lock, main, control>> /\ reset' \in BOOLEAN
    BY <1>3 DEF DecoderStep, LoopHead, WaitForUnit, ReceiveFrame, ReceiveAgain, ReceiveError, Asks
  <2>3. dec.pc # "none" /\ dec'.pc # "none"
    <3>1. dec.pc # "none"
      BY <1>3 DEF DecoderStep, LoopHead, WaitForUnit, ReceiveFrame, ReceiveAgain, ReceiveError
    <3>2. dec'.pc # "none"
      BY <1>3, <1>1, <2>1 DEF DecoderStep, LoopHead, WaitForUnit, ReceiveFrame, ReceiveAgain,
         ReceiveError, DecoderInv, Decoder, Submit, Failed
    <3> QED BY <3>1, <3>2
  <2> QED BY <2>1, <2>2, <2>3
<1>4. ASSUME NEW goal \in {"create", "replace", "refresh", "destroy"}, Begin(goal) PROVE Inv'
  BY <1>1, <1>2, <1>4 DEF Begin
<1>5. CASE LockDecoder
  <2>1. CASE Exists
    <3>1. Wake(host) \in Host /\ Wake(host).units = host.units /\ Wake(host).sent = host.sent
      BY <1>1 DEF Wake, Host
    <3>2. [dec EXCEPT !.quit = TRUE] \in Decoder
      BY <1>1 DEF Decoder
    <3>3. DecoderInv(dec', host')
      BY <1>1, <1>5, <2>1, <3>1, <3>2, SettingKeeps, HostKeeps DEF LockDecoder
    <3> QED BY <1>2, <1>5, <2>1, <3>3 DEF LockDecoder, LockFree
  <2>2. CASE ~Exists
    BY <1>1, <1>2, <1>5, <2>2 DEF LockDecoder, LockFree
  <2> QED BY <2>1, <2>2
<1>6. CASE JoinDecoder
  <2>1. [NoDecoder EXCEPT !.pc = "none"] = NoDecoder
    BY DEF NoDecoder
  <2>2. DecoderInv(NoDecoder, host)
    BY <1>1, <2>1, NoDecoderInv
  <2>3. DecoderInv(dec', host')
    BY <1>6, <2>2 DEF JoinDecoder
  <2> QED BY <1>2, <1>6, <2>3 DEF JoinDecoder
<1>7. CASE ChooseDecoder
  <2>1. host' \in Host /\ host'.units = host.units /\ host'.sent = host.sent
    BY <1>1, <1>7, BoundAssumption DEF ChooseDecoder, Host
  <2>2. DecoderInv([NoDecoder EXCEPT !.pc = "loop"], host') /\ DecoderInv(dec, host')
    BY <1>1, <2>1, NoDecoderInv, HostKeeps
  <2>3. DecoderInv(dec', host')
    BY <1>7, <2>2 DEF ChooseDecoder
  <2> QED BY <1>2, <1>7, <2>3 DEF ChooseDecoder
<1>8. CASE ReadHdrMode
  <2>1. host.hdr \in BOOLEAN
    BY <1>1 DEF Host
  <2> QED BY <1>2, <1>8, <2>1 DEF ReadHdrMode
<1>9. CASE SetHdrMode
  <2>1. DecoderInv(dec', host')
    BY <1>1, <1>9, SettingKeeps DEF SetHdrMode
  <2> QED BY <1>2, <1>9, <2>1 DEF SetHdrMode
<1>10. CASE UnlockDestroyed
  BY <1>2, <1>10 DEF UnlockDestroyed
<1>11. CASE UnitArrives
  <2>1. PICK b \in BOOLEAN :
          host' = [host EXCEPT !.sent = @ + 1,
                               !.units = Append(@, [n |-> host.sent + 1, idr |-> b])]
    BY <1>11 DEF UnitArrives
  <2>2. DecoderInv(dec', host')
    BY <1>1, <1>11, <2>1, ArrivalKeeps DEF UnitArrives
  <2> QED BY <1>2, <1>11, <2>2 DEF UnitArrives
<1>12. CASE HostHdrChanges
  <2>1. host' \in Host /\ host'.units = host.units /\ host'.sent = host.sent
    <3>1. host.changes + 1 \in 0..MaxChanges
      BY <1>1, <1>12, BoundAssumption DEF HostHdrChanges, Host
    <3>2. (~host.hdr) \in BOOLEAN
      OBVIOUS
    <3> QED BY <1>1, <1>12, <3>1, <3>2 DEF HostHdrChanges, Host
  <2>2. DecoderInv(dec', host')
    BY <1>1, <1>12, <2>1, HostKeeps DEF HostHdrChanges
  <2>3. host.hdr \in BOOLEAN
    BY <1>1 DEF Host
  <2> QED BY <1>2, <1>12, <2>2, <2>3 DEF HostHdrChanges
<1>13. CASE ClSetHdrMode
  BY <1>2, <1>13 DEF ClSetHdrMode
<1>14. CASE ClSetHdrModeDone
  <2>1. DecoderInv(dec', host')
    BY <1>1, <1>14, SettingKeeps DEF ClSetHdrModeDone
  <2>2. dec'.pc = dec.pc
    BY <1>1, <1>14 DEF ClSetHdrModeDone, Decoder
  <2> QED BY <1>2, <1>14, <2>1, <2>2 DEF ClSetHdrModeDone
<1>15. CASE UNCHANGED vars
  BY <1>2, <1>15 DEF vars
<1> QED
  BY <1>3, <1>4, <1>5, <1>6, <1>7, <1>8, <1>9, <1>10, <1>11, <1>12, <1>13, <1>14, <1>15
     DEF Next, MainStep, ControlStep

-----------------------------------------------------------------------------
(* The theorems *)

THEOREM InductiveInvariant == Spec => []Inv
BY InvInit, InvStep, PTL DEF Spec

\* Decoder, lock, both threads and the host's side stay well-formed; failures
\* are never counted past the threshold.
THEOREM TypeCorrect == Spec => []TypeOK
<1>1. Inv => TypeOK
  BY DEF Inv, DecoderInv, Decoder, Host, MainType, TypeOK
<1> QED BY <1>1, InductiveInvariant, PTL

\* The assertion of decoderThreadProc(): as many infos wait as frames are
\* outstanding.
THEOREM InfosMatchFrames == Spec => []InfoForEveryFrame
<1>1. Inv => InfoForEveryFrame
  BY DEF Inv, DecoderInv, Flow, InfoForEveryFrame
<1> QED BY <1>1, InductiveInvariant, PTL

\* A frame never gets the info of a unit that came after it, whatever the
\* codec has lost.
THEOREM InfosAreNotAhead == Spec => []InfoNeverAhead
<1>1. Inv => InfoNeverAhead
  <2> SUFFICES ASSUME Inv PROVE InfoNeverAhead
    OBVIOUS
  <2>1. DOMAIN dec.codec = 1..Len(dec.codec)
    BY DEF Inv, DecoderInv, Decoder
  <2> QED BY <2>1 DEF Inv, DecoderInv, Flow, InfoNeverAhead
<1> QED BY <1>1, InductiveInvariant, PTL

\* Together: frames and their infos stay together in a well-formed state.
THEOREM FramesKeepTheirInfos == Spec => []FrameInfosMatch
BY TypeCorrect, InfosMatchFrames, InfosAreNotAhead, PTL DEF FrameInfosMatch

\* A decoder asks for its replacement once at most, and quits then.
THEOREM OneRequestEach == Spec => []OneRequest
<1>1. Inv => OneRequest
  BY DEF Inv, DecoderInv, AskedProperly, OneRequest
<1> QED BY <1>1, InductiveInvariant, PTL

\* clSetHdrMode() uses no decoder that the main thread is replacing.
THEOREM DecoderInUseLives == Spec => []NoUseAfterDelete
<1>1. Inv => NoUseAfterDelete
  BY DEF Inv, LockHeld, MainType, NoUseAfterDelete
<1> QED BY <1>1, InductiveInvariant, PTL
=============================================================================
