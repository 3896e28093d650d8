-------------------------- MODULE EventLoopProofs --------------------------
(***************************************************************************)
(* Proofs about module EventLoop, for both kinds of controller and every   *)
(* number of calls: its invariants, and that it implements Mailbox.        *)
(***************************************************************************)
EXTENDS EventLoop, TLAPS, SequenceTheorems

-----------------------------------------------------------------------------
(* Facts about sequences.                                                  *)

(* What pop() does to the event it takes and the rest of the queue.        *)
LEMMA HeadTailConcat ==
    ASSUME NEW S, NEW s \in Seq(S), s # <<>>
    PROVE  s = <<Head(s)>> \o Tail(s)
<1>1. Len(s) \in Nat \ {0} /\ Head(s) \in S /\ Head(s) = s[1]
  BY EmptySeq, HeadTailProperties, LenProperties
<1>2. SubSeq(s, 1, Len(s)) = <<s[1]>> \o SubSeq(s, 2, Len(s))
  <2>1. 1 \in 1..Len(s) /\ Len(s) \in 1..Len(s)
    BY <1>1
  <2> QED
    BY <2>1, SubSeqRecursiveFirst
<1>3. SubSeq(s, 1, Len(s)) = s
  BY SubSeqFull
<1>4. Tail(s) = SubSeq(s, 2, Len(s))
  BY TailIsSubSeq
<1> QED
  BY <1>1, <1>2, <1>3, <1>4

(* push() adds at the end of the whole history.                            *)
LEMMA AppendAtEnd ==
    ASSUME NEW S, NEW s \in Seq(S), NEW t \in Seq(S), NEW x \in S
    PROVE  s \o Append(t, x) = Append(s \o t, x)
<1>1. Append(s \o t, x) = (s \o t) \o <<x>>
  BY ConcatProperties, AppendIsConcat
<1>2. Append(t, x) = t \o <<x>>
  BY AppendIsConcat
<1>3. <<x>> \in Seq(S)
  OBVIOUS
<1> QED
  BY <1>1, <1>2, <1>3, ConcatAssociative

(* The length and the elements of a sequence of length one.                *)
LEMMA Singleton ==
    ASSUME NEW S, NEW s \in Seq(S), Len(s) = 1
    PROVE  s = <<s[1]>> /\ s[1] \in S /\ s # <<>> /\ Head(s) = s[1] /\ Tail(s) = <<>>
<1>1. s[1] \in S /\ Len(<<s[1]>>) = 1 /\ <<s[1]>>[1] = s[1]
  BY ElementOfSeq
<1>2. s = <<s[1]>>
  BY <1>1, SeqEqual
<1>3. s # <<>>
  BY EmptySeq
<1>4. Tail(s) \in Seq(S) /\ Len(Tail(s)) = 0 /\ Head(s) = s[1]
  BY <1>3, HeadTailProperties
<1>5. Tail(s) = <<>>
  BY <1>4, EmptySeq
<1> QED
  BY <1>1, <1>2, <1>3, <1>4, <1>5

-----------------------------------------------------------------------------
(* The inductive invariant.                                                *)

(* Every accepted event stands for a call already counted, and so does     *)
(* every armed timer, which will become an event.                          *)
Counting == Len(accepted) + armed <= calls

(* The loop holds an event exactly while its handler runs.                 *)
HandShape ==
    /\ pc = "handler" => Len(hand) = 1
    /\ pc # "handler" => hand = <<>>

(* Nothing is queued behind a StopEvent, and its flag stays up until       *)
(* clear().                                                                *)
StopIsLast ==
    /\ pc # "end" =>
          \A i \in 1..Len(queue) :
              IsStop(queue[i]) => stopPosted /\ i = Len(queue)
    /\ pc = "handler" /\ IsStop(hand[1]) => stopPosted /\ queue = <<>>

(* A living loop has failed no wait, deleted no event undispatched and     *)
(* dispatched no StopEvent.                                                *)
LivingLoop ==
    Alive => /\ ~failed
             /\ discarded = <<>>
             /\ \A i \in 1..Len(delivered) : ~IsStop(delivered[i])

(* After a StopEvent the flag is up and the queue stays empty.             *)
StoppedLoop ==
    pc \in {"exit", "drain", "drainPop"} /\ ~failed =>
        stopPosted /\ queue = <<>>

IInv ==
    /\ TypeOK
    /\ Counting
    /\ HandShape
    /\ NoLostWakeup
    /\ FifoExactlyOnce
    /\ StopIsLast
    /\ LivingLoop
    /\ StoppedLoop
    /\ GracefulStopDropsNothing

-----------------------------------------------------------------------------
(* The parts of the invariant are preserved.                               *)

LEMMA InitIInv == Init => IInv
<1> SUFFICES ASSUME Init PROVE IInv
  OBVIOUS
<1>1. MaxCalls \in Nat
  BY MaxCallsAssumption
<1>2. <<>> \in Seq(Event) /\ Len(<<>>) = 0 /\ <<>> \o <<>> \o <<>> \o <<>> = <<>>
  BY EmptySeq, ConcatEmptySeq
<1>3. TypeOK
  <2>1. stopPosted \in BOOLEAN /\ failed \in BOOLEAN
    BY DEF Init
  <2>2. calls \in 0..MaxCalls /\ tokens \in Nat /\ armed \in Nat
    BY <1>1 DEF Init
  <2> QED
    BY <1>2, <2>1, <2>2, Zenon DEF Init, TypeOK, PCs
<1>6. Counting /\ HandShape /\ NoLostWakeup
  BY <1>2 DEF Init, Counting, HandShape, NoLostWakeup
<1>4. FifoExactlyOnce
  BY <1>2 DEF Init, FifoExactlyOnce
<1>5. StopIsLast /\ LivingLoop /\ StoppedLoop /\ GracefulStopDropsNothing
  BY <1>2 DEF Init, StopIsLast, LivingLoop, StoppedLoop, Alive,
              GracefulStopDropsNothing
<1> QED
  BY <1>3, <1>4, <1>5, <1>6 DEF IInv

(* What push() does to the queue and to the history: nothing after a stop, *)
(* one event more and one token more otherwise.                            *)
PushEffect(kind) ==
    /\ queue' \in Seq(Event)
    /\ accepted' \in Seq(Event)
    /\ stopPosted' \in BOOLEAN
    /\ tokens' \in Nat
    /\ FifoExactlyOnce'
    /\ tokens' - tokens = Len(queue') - Len(queue)
    /\ Len(accepted') - Len(accepted) = Len(queue') - Len(queue)
    /\ Len(queue') - Len(queue) \in {0, 1}
    /\ stopPosted => UNCHANGED <<queue, stopPosted>>
    /\ ~stopPosted =>
          /\ Len(queue') = Len(queue) + 1
          /\ stopPosted' = (kind = "stop")
          /\ \A i \in 1..Len(queue) : queue'[i] = queue[i]
          /\ IsStop(queue'[Len(queue')]) = (kind = "stop")

LEMMA PushFacts ==
    ASSUME IInv, NEW kind \in Kind, PushEvent(kind),
           Len(accepted) < MaxCalls,
           UNCHANGED <<hand, delivered, discarded>>
    PROVE  PushEffect(kind)
<1> USE DEF PushEffect
<1>1. CASE stopPosted
  <2>1. UNCHANGED <<queue, stopPosted, accepted, tokens>>
    BY <1>1 DEF PushEvent, queueVars
  <2>2. Len(queue) \in Nat /\ Len(accepted) \in Nat
    BY LenProperties DEF IInv, TypeOK
  <2> QED
    BY <1>1, <2>1, <2>2 DEF IInv, TypeOK, FifoExactlyOnce
<1>2. CASE ~stopPosted
  <2> DEFINE x == [id |-> Len(accepted) + 1, kind |-> kind]
             past == delivered \o discarded \o hand
  <2>1. /\ queue' = Append(queue, x)
        /\ accepted' = Append(accepted, x)
        /\ stopPosted' = (kind = "stop")
        /\ tokens' = tokens + 1
    BY <1>2 DEF PushEvent
  <2>2. Len(queue) \in Nat /\ Len(accepted) \in Nat /\ tokens \in Nat
    BY LenProperties DEF IInv, TypeOK
  <2>3. x \in Event
    BY <2>2, MaxCallsAssumption DEF Event
  <2>4. queue \in Seq(Event) /\ accepted \in Seq(Event) /\ past \in Seq(Event)
    BY ConcatProperties DEF IInv, TypeOK
  <2>5. /\ queue' \in Seq(Event)
        /\ Len(queue') = Len(queue) + 1
        /\ \A i \in 1..Len(queue) : queue'[i] = queue[i]
        /\ queue'[Len(queue')] = x
    BY <2>1, <2>2, <2>3, <2>4, AppendProperties
  <2>6. accepted' \in Seq(Event) /\ Len(accepted') = Len(accepted) + 1
    BY <2>1, <2>2, <2>3, <2>4, AppendProperties
  <2>7. FifoExactlyOnce'
    <3>1. accepted = past \o queue
      BY DEF IInv, FifoExactlyOnce
    <3>2. past \o Append(queue, x) = Append(past \o queue, x)
      <4> HIDE DEF x, past
      <4> QED
        BY <2>3, <2>4, AppendAtEnd
    <3>3. accepted' = past \o queue'
      <4> HIDE DEF x, past
      <4> QED
        BY <2>1, <3>1, <3>2
    <3> QED
      BY <3>3 DEF FifoExactlyOnce
  <2>8. IsStop(queue'[Len(queue')]) = (kind = "stop")
    BY <2>5 DEF IsStop
  <2>9. stopPosted' \in BOOLEAN
    BY <2>1
  <2> QED
    BY <1>2, <2>1, <2>2, <2>5, <2>6, <2>7, <2>8, <2>9
<1> QED
  BY <1>1, <1>2

(* Any push by which the loop does not move, and any push of expire().     *)
LEMMA PushIInv ==
    ASSUME IInv, NEW kind \in Kind, PushEvent(kind),
           Len(accepted) < MaxCalls,
           UNCHANGED <<selector, hand, delivered, discarded, failed>>,
           armed' \in Nat, calls' \in 0..MaxCalls,
           Len(accepted) + 1 + armed' <= calls',
           \/ pc' = pc
           \/ pc \in {"due", "expire"} /\ pc' = "expire"
    PROVE  IInv'
<1>p. PushEffect(kind)
  BY PushFacts
<1> USE <1>p DEF PushEffect
<1>0. Len(queue) \in Nat /\ Len(queue') \in Nat /\ Len(accepted) \in Nat /\ Len(accepted') \in Nat
  BY LenProperties DEF IInv, TypeOK
<1>1. TypeOK'
  BY DEF IInv, TypeOK, PCs
<1>2. Counting'
  BY SMTT(30), <1>0, MaxCallsAssumption DEF IInv, Counting
<1>3. HandShape'
  BY DEF IInv, HandShape
<1>4. NoLostWakeup'
  <2>1. tokens \in Nat /\ tokens' \in Nat
    BY DEF IInv, TypeOK
  <2>2. tokens' - tokens = Len(queue') - Len(queue)
    OBVIOUS
  <2>3. NoLostWakeup
    BY DEF IInv
  <2>4. (pc' # "end" <=> pc # "end") /\ (HoldsToken' <=> HoldsToken)
    BY DEF HoldsToken
  <2>5. ASSUME pc' # "end" PROVE Len(queue') <= tokens' \/ (HoldsToken' /\ Len(queue') <= tokens' + 1)
    <3>1. Len(queue) <= tokens \/ (HoldsToken /\ Len(queue) <= tokens + 1)
      BY <2>3, <2>4, <2>5 DEF NoLostWakeup
    <3> HIDE <1>p DEF PushEffect
    <3>2. /\ Len(queue) <= tokens => Len(queue') <= tokens'
          /\ Len(queue) <= tokens + 1 => Len(queue') <= tokens' + 1
      BY SMTT(30), <1>0, <2>1, <2>2
    <3> QED
      BY <3>1, <3>2, <2>4
  <2> QED
    BY <2>5 DEF NoLostWakeup
<1>5. FifoExactlyOnce'
  OBVIOUS
<1>6. StopIsLast'
  <2>1. CASE stopPosted
    BY <2>1 DEF IInv, StopIsLast
  <2>2. CASE ~stopPosted
    <3>1. pc # "end" => \A i \in 1..Len(queue) : ~IsStop(queue'[i])
      BY <2>2 DEF IInv, StopIsLast
    <3>2. pc # "handler" \/ ~IsStop(hand[1])
      BY <2>2 DEF IInv, StopIsLast
    <3>3. pc' # "end" <=> pc # "end"
      OBVIOUS
    <3>4. ASSUME pc' # "end", NEW i \in 1..Len(queue'), IsStop(queue'[i])
          PROVE  stopPosted' /\ i = Len(queue')
      <4>1. i = Len(queue')
        BY SMTT(30), <1>0, <2>2, <3>1, <3>3, <3>4
      <4>2. stopPosted'
        BY <2>2, <3>4, <4>1
      <4> QED
        BY <4>1, <4>2
    <3>5. pc' = "handler" => pc = "handler" /\ hand' = hand
      OBVIOUS
    <3> QED
      BY <3>2, <3>4, <3>5 DEF StopIsLast
  <2> QED
    BY <2>1, <2>2
<1>7. LivingLoop'
  BY DEF IInv, LivingLoop, Alive
<1>8. StoppedLoop'
  BY DEF IInv, StoppedLoop
<1>9. GracefulStopDropsNothing'
  BY DEF IInv, GracefulStopDropsNothing, StoppedLoop
<1> QED
  BY <1>1, <1>2, <1>3, <1>4, <1>5, <1>6, <1>7, <1>8, <1>9 DEF IInv

(* The loop moves on without touching the queue, an event or a timer.      *)
LEMMA MoveIInv ==
    ASSUME IInv, UNCHANGED <<selector, queueVars, historyVars, tokens, hand,
                             armed, failed, calls>>,
           pc # "handler", Alive, pc' \in PCs, pc' # "handler", Alive',
           HoldsToken' <=> HoldsToken
    PROVE  IInv'
<1> USE DEF queueVars, historyVars
<1>1. TypeOK' /\ Counting' /\ HandShape' /\ FifoExactlyOnce'
  BY DEF IInv, TypeOK, Counting, HandShape, FifoExactlyOnce
<1>2. NoLostWakeup'
  <2>1. pc # "end" /\ UNCHANGED <<queue, tokens>>
    BY DEF Alive
  <2> QED
    BY <2>1 DEF IInv, NoLostWakeup
<1>3. StopIsLast'
  BY DEF IInv, StopIsLast, Alive
<1>4. LivingLoop' /\ StoppedLoop' /\ GracefulStopDropsNothing'
  BY DEF IInv, LivingLoop, StoppedLoop, GracefulStopDropsNothing, Alive
<1> QED
  BY <1>1, <1>2, <1>3, <1>4 DEF IInv

(* A timer call of a handler.                                              *)
LEMMA TimerIInv ==
    ASSUME IInv, UNCHANGED <<selector, queueVars, historyVars, pc, hand, failed>>,
           Call, armed' \in Nat, armed' <= armed + 1,
           tokens' \in {tokens, tokens + 1}
    PROVE  IInv'
<1> USE DEF queueVars, historyVars
<1>0. /\ tokens \in Nat /\ armed \in Nat /\ calls \in 0..MaxCalls
      /\ Len(queue) \in Nat /\ Len(accepted) \in Nat /\ MaxCalls \in Nat
  BY LenProperties, MaxCallsAssumption DEF IInv, TypeOK
<1>1. calls' \in 0..MaxCalls /\ calls' = calls + 1 /\ tokens' \in Nat
  BY <1>0 DEF Call
<1>2. TypeOK'
  BY <1>1 DEF IInv, TypeOK
<1>3. Counting'
  BY <1>0, <1>1 DEF IInv, Counting
<1>4. HandShape' /\ FifoExactlyOnce' /\ StopIsLast'
  BY DEF IInv, HandShape, FifoExactlyOnce, StopIsLast
<1>5. NoLostWakeup'
  <2>1. (HoldsToken' <=> HoldsToken) /\ queue' = queue /\ pc' = pc
    BY DEF HoldsToken
  <2>2. pc # "end" =>
            Len(queue) <= tokens \/ (HoldsToken /\ Len(queue) <= tokens + 1)
    BY DEF IInv, NoLostWakeup
  <2>3. pc # "end" =>
            Len(queue) <= tokens' \/ (HoldsToken /\ Len(queue) <= tokens' + 1)
    BY <1>0, <2>2
  <2> QED
    BY <2>1, <2>3 DEF NoLostWakeup
<1>6. LivingLoop' /\ StoppedLoop' /\ GracefulStopDropsNothing'
  BY DEF IInv, LivingLoop, StoppedLoop, GracefulStopDropsNothing, Alive
<1> QED
  BY <1>2, <1>3, <1>4, <1>5, <1>6 DEF IInv

(* A token is taken.                                                       *)
LEMMA WaitTokenIInv == IInv /\ WaitToken => IInv'
<1> SUFFICES ASSUME IInv, WaitToken PROVE IInv'
  OBVIOUS
<1> USE DEF WaitToken, queueVars, historyVars
<1>0. pc = "wait" /\ pc' \in {"pop", "socketsCancel"}
  OBVIOUS
<1>1. TypeOK'
  BY <1>0 DEF IInv, TypeOK, PCs
<1>2. Counting' /\ HandShape' /\ FifoExactlyOnce'
  BY <1>0 DEF IInv, Counting, HandShape, FifoExactlyOnce
<1>3. NoLostWakeup'
  <2>1. Len(queue) \in Nat /\ tokens \in Nat /\ tokens' = tokens - 1
    BY LenProperties DEF IInv, TypeOK
  <2>2. Len(queue) <= tokens
    BY <1>0 DEF IInv, NoLostWakeup, HoldsToken
  <2>3. Len(queue) <= tokens' + 1
    BY <2>1, <2>2
  <2> QED
    BY <1>0, <2>3 DEF NoLostWakeup, HoldsToken
<1>4. StopIsLast'
  BY <1>0 DEF IInv, StopIsLast
<1>5. LivingLoop' /\ StoppedLoop' /\ GracefulStopDropsNothing'
  BY <1>0 DEF IInv, LivingLoop, StoppedLoop, GracefulStopDropsNothing, Alive
<1> QED
  BY <1>1, <1>2, <1>3, <1>4, <1>5 DEF IInv

(* The wait fails.                                                         *)
LEMMA WaitErrorIInv == IInv /\ WaitError => IInv'
<1> SUFFICES ASSUME IInv, WaitError PROVE IInv'
  OBVIOUS
<1> USE DEF WaitError, queueVars, historyVars
<1>1. TypeOK'
  BY DEF IInv, TypeOK, PCs
<1>2. Counting' /\ HandShape' /\ FifoExactlyOnce' /\ StopIsLast'
  BY DEF IInv, Counting, HandShape, FifoExactlyOnce, StopIsLast
<1>3. NoLostWakeup'
  BY DEF IInv, NoLostWakeup, HoldsToken
<1>4. LivingLoop' /\ StoppedLoop' /\ GracefulStopDropsNothing'
  BY DEF IInv, LivingLoop, StoppedLoop, GracefulStopDropsNothing, Alive
<1> QED
  BY <1>1, <1>2, <1>3, <1>4 DEF IInv

(* pop() hands the oldest event to the loop.                               *)
LEMMA PopIInv == IInv /\ Pop => IInv'
<1> SUFFICES ASSUME IInv, Pop PROVE IInv'
  OBVIOUS
<1> USE DEF Pop, PopEvent, historyVars
<1>0. /\ queue \in Seq(Event) /\ Len(queue) \in Nat /\ tokens \in Nat
      /\ hand = <<>> /\ pc = "pop" /\ Len(queue) <= tokens + 1
  BY LenProperties DEF IInv, TypeOK, HandShape, NoLostWakeup, HoldsToken
<1>1. CASE queue = <<>>
  <2>1. hand' = hand /\ queue' = queue /\ pc' = "top"
    BY <1>0, <1>1
  <2>2. TypeOK' /\ Counting' /\ HandShape' /\ FifoExactlyOnce'
    BY <1>0, <2>1 DEF IInv, TypeOK, PCs, Counting, HandShape, FifoExactlyOnce
  <2>3. Len(queue) = 0
    BY <1>1, EmptySeq
  <2>4. NoLostWakeup'
    BY <1>0, <2>1, <2>3 DEF NoLostWakeup
  <2>5. StopIsLast' /\ LivingLoop' /\ StoppedLoop' /\ GracefulStopDropsNothing'
    BY <1>0, <2>1 DEF IInv, StopIsLast, LivingLoop, StoppedLoop,
                      GracefulStopDropsNothing, Alive
  <2> QED
    BY <2>2, <2>4, <2>5 DEF IInv
<1>2. CASE queue # <<>>
  <2>1. /\ hand' = <<Head(queue)>> /\ queue' = Tail(queue) /\ pc' = "handler"
        /\ Head(queue) = queue[1] /\ Head(queue) \in Event
        /\ queue' \in Seq(Event) /\ Len(queue') = Len(queue) - 1
        /\ \A i \in 1..Len(queue') : queue'[i] = queue[i + 1]
        /\ Len(queue) \in Nat \ {0}
    BY <1>0, <1>2, HeadTailProperties, EmptySeq
  <2>2. hand' \in Seq(Event) /\ Len(hand') = 1 /\ hand'[1] = queue[1]
    BY <2>1
  <2>3. TypeOK'
    BY <1>0, <2>1, <2>2 DEF IInv, TypeOK, PCs
  <2>4. Counting' /\ HandShape'
    BY <2>1, <2>2 DEF IInv, Counting, HandShape
  <2>5. FifoExactlyOnce'
    <3> DEFINE past == delivered \o discarded
    <3>1. past \in Seq(Event)
      BY ConcatProperties DEF IInv, TypeOK
    <3>2. queue = hand' \o queue'
      BY <1>0, <1>2, <2>1, HeadTailConcat
    <3>3. accepted = (past \o hand) \o queue
      BY DEF IInv, FifoExactlyOnce
    <3>4. accepted = past \o (hand' \o queue')
      <4> HIDE DEF past
      <4>1. past \o hand = past
        BY <1>0, <3>1, ConcatEmptySeq
      <4> QED
        BY <3>2, <3>3, <4>1
    <3>5. accepted' = (past \o hand') \o queue'
      <4>1. accepted' = accepted
        OBVIOUS
      <4> HIDE DEF past
      <4> QED
        BY <4>1, <2>1, <2>2, <3>1, <3>4, ConcatAssociative
    <3> QED
      BY <3>5 DEF FifoExactlyOnce
  <2>6. NoLostWakeup'
    BY <1>0, <2>1 DEF NoLostWakeup
  <2>7. StopIsLast'
    <3>1. \A i \in 1..Len(queue) : IsStop(queue[i]) => stopPosted /\ i = Len(queue)
      BY <1>0 DEF IInv, StopIsLast
    <3>2. ASSUME NEW i \in 1..Len(queue'), IsStop(queue'[i])
          PROVE  stopPosted' /\ i = Len(queue')
      <4>1. i + 1 \in 1..Len(queue) /\ queue'[i] = queue[i + 1]
        BY <2>1
      <4>2. stopPosted /\ i + 1 = Len(queue)
        BY <3>1, <3>2, <4>1
      <4>3. i = Len(queue')
        <5>1. i \in Int /\ Len(queue) \in Int /\ Len(queue') = Len(queue) - 1
          BY <2>1
        <5> HIDE DEF Pop, PopEvent
        <5> QED
          BY <5>1, <4>2
      <4>4. stopPosted'
        BY <4>2
      <4> QED
        BY <4>3, <4>4
    <3>3. ASSUME IsStop(hand'[1])
          PROVE  stopPosted' /\ queue' = <<>>
      <4>2. 1 \in 1..Len(queue) /\ IsStop(queue[1])
        BY <2>1, <2>2, <3>3
      <4>3. stopPosted /\ 1 = Len(queue)
        BY <3>1, <4>2
      <4>1. stopPosted /\ Len(queue') = 0
        BY <2>1, <4>3
      <4> QED
        BY <2>1, <4>1, EmptySeq
    <3> QED
      BY <3>2, <3>3 DEF StopIsLast
  <2>8. LivingLoop' /\ StoppedLoop' /\ GracefulStopDropsNothing'
    BY <1>0, <2>1 DEF IInv, LivingLoop, StoppedLoop,
                      GracefulStopDropsNothing, Alive
  <2> QED
    BY <2>3, <2>4, <2>5, <2>6, <2>7, <2>8 DEF IInv
<1> QED
  BY <1>1, <1>2

(* dispatch() deletes the event: what was in hand joins the past.          *)
LEMMA DispatchedIInv == IInv /\ Dispatched => IInv'
<1> SUFFICES ASSUME IInv, Dispatched PROVE IInv'
  OBVIOUS
<1> USE DEF Dispatched, queueVars
<1>0. /\ hand \in Seq(Event) /\ hand = <<hand[1]>> /\ hand[1] \in Event
      /\ delivered \in Seq(Event) /\ queue \in Seq(Event)
      /\ discarded = <<>> /\ pc = "handler" /\ ~failed
      /\ hand' = <<>> /\ delivered' = delivered \o hand
      /\ pc' \in {"exit", "top"}
  <2>1. Len(hand) = 1 /\ hand \in Seq(Event)
    BY DEF IInv, TypeOK, HandShape
  <2> QED
    BY <2>1, Singleton DEF IInv, TypeOK, LivingLoop, Alive
<1>1. TypeOK'
  <2>1. delivered' \in Seq(Event) /\ hand' \in Seq(Event)
    BY <1>0, ConcatProperties
  <2> QED
    BY <2>1, <1>0 DEF IInv, TypeOK, PCs
<1>2. Counting' /\ HandShape'
  BY <1>0 DEF IInv, Counting, HandShape
<1>3. FifoExactlyOnce'
  <2>1. accepted = delivered \o <<>> \o hand \o queue
    BY <1>0 DEF IInv, FifoExactlyOnce
  <2>2. delivered' \in Seq(Event) /\ discarded' = <<>>
    BY <1>0, ConcatProperties
  <2>3. delivered' \o discarded' \o hand' = delivered'
    BY <1>0, <2>2, ConcatEmptySeq
  <2>4. delivered \o <<>> = delivered
    BY <1>0, ConcatEmptySeq
  <2>5. accepted = (delivered \o hand) \o queue
    BY <2>1, <2>4
  <2>6. accepted' = delivered' \o queue'
    BY <2>5, <1>0
  <2> QED
    BY <2>3, <2>6 DEF FifoExactlyOnce
<1>4. NoLostWakeup'
  BY <1>0 DEF IInv, NoLostWakeup, HoldsToken
<1>5. StopIsLast'
  BY <1>0 DEF IInv, StopIsLast
<1>6. CASE IsStop(hand[1])
  <2>1. stopPosted /\ queue = <<>> /\ pc' = "exit"
    BY <1>0, <1>6 DEF IInv, StopIsLast
  <2>2. LivingLoop' /\ StoppedLoop' /\ GracefulStopDropsNothing'
    BY <1>0, <2>1 DEF LivingLoop, StoppedLoop, GracefulStopDropsNothing, Alive
  <2> QED
    BY <1>1, <1>2, <1>3, <1>4, <1>5, <2>2 DEF IInv
<1>7. CASE ~IsStop(hand[1])
  <2>1. pc' = "top"
    BY <1>7
  <2>2. \A i \in 1..Len(delivered) : ~IsStop(delivered[i])
    BY <1>0 DEF IInv, LivingLoop, Alive
  <2>3. ASSUME NEW i \in 1..Len(delivered') PROVE ~IsStop(delivered'[i])
    <3>1. Len(delivered) \in Nat /\ Len(hand) = 1
      BY <1>0, LenProperties DEF IInv, HandShape
    <3>2. /\ Len(delivered') = Len(delivered) + 1
          /\ delivered'[i] = IF i <= Len(delivered) THEN delivered[i]
                             ELSE hand[i - Len(delivered)]
      <4>1. /\ Len(delivered \o hand) = Len(delivered) + Len(hand)
            /\ \A j \in 1..(Len(delivered) + Len(hand)) :
                  (delivered \o hand)[j] = IF j <= Len(delivered) THEN delivered[j]
                                           ELSE hand[j - Len(delivered)]
        BY <1>0, ConcatProperties
      <4> QED
        BY <1>0, <3>1, <4>1
    <3>3. CASE i <= Len(delivered)
      BY <2>2, <3>1, <3>2, <3>3
    <3>4. CASE i > Len(delivered)
      <4>1. i - Len(delivered) = 1 /\ ~(i <= Len(delivered))
        BY <3>1, <3>2, <3>4
      <4>2. delivered'[i] = hand[1]
        BY <3>2, <4>1
      <4> QED
        BY <1>7, <4>2
    <3> QED
      BY <3>1, <3>2, <3>3, <3>4
  <2>4. LivingLoop' /\ StoppedLoop' /\ GracefulStopDropsNothing'
    BY <1>0, <2>1, <2>3 DEF LivingLoop, StoppedLoop, GracefulStopDropsNothing, Alive
  <2> QED
    BY <1>1, <1>2, <1>3, <1>4, <1>5, <2>4 DEF IInv
<1> QED
  BY <1>6, <1>7

(* Thread::onExit takes the timers, the drain and clear() the events.      *)
LEMMA ExitIInv ==
    IInv /\ (CancelAllTimer \/ DrainWait \/ DrainPop \/ Clear) => IInv'
<1> SUFFICES ASSUME IInv, CancelAllTimer \/ DrainWait \/ DrainPop \/ Clear
             PROVE  IInv'
  OBVIOUS
<1> USE DEF queueVars, historyVars
<1>0. /\ queue \in Seq(Event) /\ Len(queue) \in Nat /\ tokens \in Nat
      /\ delivered \in Seq(Event) /\ discarded \in Seq(Event)
      /\ armed \in Nat /\ Len(accepted) \in Nat /\ calls \in 0..MaxCalls
  BY LenProperties DEF IInv, TypeOK
<1>1. CASE CancelAllTimer
  <2> USE <1>1 DEF CancelAllTimer
  <2>1. pc = "exit" /\ pc' = "drain" /\ armed' = 0 /\ tokens' = tokens + 1
    OBVIOUS
  <2>2. TypeOK'
    BY <1>0, <2>1 DEF IInv, TypeOK, PCs
  <2>3. Counting'
    BY <1>0, <2>1 DEF IInv, Counting
  <2>4. HandShape' /\ FifoExactlyOnce' /\ StopIsLast'
    BY <2>1 DEF IInv, HandShape, FifoExactlyOnce, StopIsLast
  <2>5. NoLostWakeup'
    <3>1. Len(queue) <= tokens /\ queue' = queue
      BY <2>1 DEF IInv, NoLostWakeup, HoldsToken
    <3>2. Len(queue') <= tokens'
      BY <1>0, <2>1, <3>1
    <3> QED
      BY <3>2 DEF NoLostWakeup
  <2>6. LivingLoop' /\ StoppedLoop' /\ GracefulStopDropsNothing'
    BY <2>1 DEF IInv, LivingLoop, StoppedLoop, GracefulStopDropsNothing, Alive
  <2> QED
    BY <2>2, <2>3, <2>4, <2>5, <2>6 DEF IInv
<1>2. CASE DrainWait
  <2> USE <1>2 DEF DrainWait
  <2>1. pc = "drain" /\ pc' = "drainPop" /\ tokens > 0 /\ tokens' = tokens - 1
    OBVIOUS
  <2>2. TypeOK'
    BY <1>0, <2>1 DEF IInv, TypeOK, PCs
  <2>3. Counting' /\ HandShape' /\ FifoExactlyOnce' /\ StopIsLast'
    BY <2>1 DEF IInv, Counting, HandShape, FifoExactlyOnce, StopIsLast
  <2>4. NoLostWakeup'
    <3>1. Len(queue) <= tokens /\ queue' = queue
      BY <2>1 DEF IInv, NoLostWakeup, HoldsToken
    <3>2. Len(queue') <= tokens' + 1
      BY <1>0, <2>1, <3>1
    <3> QED
      BY <2>1, <3>2 DEF NoLostWakeup, HoldsToken
  <2>5. LivingLoop' /\ StoppedLoop' /\ GracefulStopDropsNothing'
    BY <2>1 DEF IInv, LivingLoop, StoppedLoop, GracefulStopDropsNothing, Alive
  <2> QED
    BY <2>2, <2>3, <2>4, <2>5 DEF IInv
<1>3. CASE DrainPop
  <2> USE <1>3 DEF DrainPop
  <2>1. /\ pc = "drainPop" /\ pc' = "drain" /\ tokens' = tokens
        /\ hand = <<>> /\ hand' = <<>> /\ Len(queue) <= tokens + 1
    <3>1. Len(queue) <= tokens \/ Len(queue) <= tokens + 1
      BY DEF IInv, NoLostWakeup
    <3>2. Len(queue) <= tokens + 1
      BY <1>0, <3>1
    <3> QED
      BY <3>2 DEF IInv, HandShape
  <2>2. CASE queue = <<>>
    <3>1. queue' = queue /\ discarded' = discarded /\ Len(queue) = 0
      BY <2>2, EmptySeq
    <3>2. TypeOK'
      BY <2>1, <3>1 DEF IInv, TypeOK, PCs
    <3>3. Counting' /\ HandShape' /\ FifoExactlyOnce' /\ StopIsLast'
      BY <2>1, <3>1 DEF IInv, Counting, HandShape, FifoExactlyOnce, StopIsLast
    <3>4. NoLostWakeup'
      BY <1>0, <2>1, <3>1 DEF NoLostWakeup
    <3>5. LivingLoop' /\ StoppedLoop' /\ GracefulStopDropsNothing'
      BY <2>1, <3>1 DEF IInv, LivingLoop, StoppedLoop,
                        GracefulStopDropsNothing, Alive
    <3> QED
      BY <3>2, <3>3, <3>4, <3>5 DEF IInv
  <2>3. CASE queue # <<>>
    <3>1. /\ queue' = Tail(queue) /\ discarded' = Append(discarded, Head(queue))
          /\ failed
      BY <2>1, <2>3 DEF IInv, StoppedLoop
    <3>2. /\ Head(queue) \in Event /\ queue' \in Seq(Event)
          /\ Len(queue') = Len(queue) - 1
          /\ \A i \in 1..Len(queue') : queue'[i] = queue[i + 1]
      BY <1>0, <2>3, <3>1, HeadTailProperties
    <3>3. discarded' \in Seq(Event) /\ discarded' = discarded \o <<Head(queue)>>
      BY <1>0, <3>1, <3>2, AppendProperties, AppendIsConcat
    <3>4. TypeOK'
      BY <1>0, <2>1, <3>2, <3>3 DEF IInv, TypeOK, PCs
    <3>5. Counting' /\ HandShape'
      BY <2>1 DEF IInv, Counting, HandShape
    <3>6. FifoExactlyOnce'
      <4> DEFINE past == delivered \o discarded
      <4>1. past \in Seq(Event) /\ <<Head(queue)>> \in Seq(Event)
        BY <1>0, <3>2, ConcatProperties
      <4>2. accepted = past \o queue
        <5>1. accepted = (past \o hand) \o queue
          BY DEF IInv, FifoExactlyOnce
        <5>2. past \o hand = past
          BY <2>1, <4>1, ConcatEmptySeq
        <5> QED
          BY <5>1, <5>2
      <4>3. queue = <<Head(queue)>> \o queue'
        BY <1>0, <2>3, <3>1, HeadTailConcat
      <4>4. delivered \o discarded' = past \o <<Head(queue)>>
        BY <1>0, <3>3, <4>1, ConcatAssociative
      <4>5. (past \o <<Head(queue)>>) \o queue' = past \o (<<Head(queue)>> \o queue')
        <5> HIDE DEF past, DrainPop
        <5> QED
          BY <3>2, <4>1, ConcatAssociative
      <4>6. accepted' = (delivered \o discarded') \o queue'
        <5>1. accepted' = accepted
          OBVIOUS
        <5> HIDE DEF past, DrainPop
        <5> QED
          BY <5>1, <4>2, <4>3, <4>4, <4>5
      <4>7. delivered \o discarded' \o hand' = delivered \o discarded'
        <5>1. delivered \o discarded' \in Seq(Event)
          BY <1>0, <3>3, ConcatProperties
        <5> QED
          BY <2>1, <5>1, ConcatEmptySeq
      <4> QED
        BY <4>6, <4>7 DEF FifoExactlyOnce
    <3>7. NoLostWakeup'
      BY <1>0, <2>1, <3>2 DEF NoLostWakeup
    <3>8. StopIsLast'
      <4>1. ASSUME NEW i \in 1..Len(queue'), IsStop(queue'[i])
            PROVE  stopPosted' /\ i = Len(queue')
        <5>1. i + 1 \in 1..Len(queue) /\ queue'[i] = queue[i + 1]
          BY <1>0, <3>2
        <5>2. stopPosted /\ i + 1 = Len(queue)
          BY <2>1, <4>1, <5>1 DEF IInv, StopIsLast
        <5>3. i = Len(queue')
          <6>1. i \in Int
            OBVIOUS
          <6> HIDE DEF DrainPop
          <6> QED
            BY <1>0, <3>2, <5>2, <6>1
        <5>4. stopPosted'
          BY <5>2
        <5> QED
          BY <5>3, <5>4
      <4> QED
        BY <2>1, <4>1 DEF StopIsLast
    <3>9. LivingLoop' /\ StoppedLoop' /\ GracefulStopDropsNothing'
      BY <2>1, <3>1 DEF LivingLoop, StoppedLoop, GracefulStopDropsNothing, Alive
    <3> QED
      BY <3>4, <3>5, <3>6, <3>7, <3>8, <3>9 DEF IInv
  <2> QED
    BY <2>2, <2>3
<1>4. CASE Clear
  <2> USE <1>4 DEF Clear
  <2>1. /\ pc = "drain" /\ pc' = "end" /\ queue' = <<>> /\ hand = <<>>
        /\ hand' = <<>> /\ discarded' = discarded \o queue
    BY DEF IInv, HandShape
  <2>2. discarded' \in Seq(Event) /\ queue' \in Seq(Event)
    BY <1>0, <2>1, ConcatProperties
  <2>3. TypeOK'
    BY <2>1, <2>2 DEF IInv, TypeOK, PCs
  <2>4. Counting' /\ HandShape' /\ NoLostWakeup'
    BY <2>1 DEF IInv, Counting, HandShape, NoLostWakeup
  <2>5. FifoExactlyOnce'
    <3>1. delivered \o discarded \in Seq(Event) /\ delivered \o discarded' \in Seq(Event)
      BY <1>0, <2>2, ConcatProperties
    <3>2. accepted = (delivered \o discarded) \o queue
      <4>1. accepted = (delivered \o discarded) \o hand \o queue
        BY DEF IInv, FifoExactlyOnce
      <4>2. (delivered \o discarded) \o hand = delivered \o discarded
        BY <2>1, <3>1, ConcatEmptySeq
      <4> QED
        BY <4>1, <4>2
    <3>3. (delivered \o discarded) \o queue = delivered \o discarded'
      <4>1. (delivered \o discarded) \o queue = delivered \o (discarded \o queue)
        BY SMTT(30), <1>0, ConcatAssociative
      <4> QED
        BY <2>1, <4>1
    <3>4. (delivered \o discarded') \o <<>> = delivered \o discarded'
      BY <3>1, ConcatEmptySeq
    <3> QED
      BY <2>1, <3>2, <3>3, <3>4 DEF FifoExactlyOnce
  <2>6. StopIsLast'
    BY <2>1 DEF StopIsLast
  <2>7. LivingLoop' /\ StoppedLoop' /\ GracefulStopDropsNothing'
    <3>1. ~failed => discarded' = <<>>
      <4> SUFFICES ASSUME ~failed PROVE discarded' = <<>>
        OBVIOUS
      <4>1. discarded = <<>> /\ queue = <<>>
        BY <2>1 DEF IInv, StoppedLoop, GracefulStopDropsNothing
      <4> QED
        BY <1>0, <2>1, <4>1, ConcatEmptySeq
    <3> QED
      BY <2>1, <3>1 DEF LivingLoop, StoppedLoop, GracefulStopDropsNothing, Alive
  <2> QED
    BY <2>3, <2>4, <2>5, <2>6, <2>7 DEF IInv
<1> QED
  BY <1>1, <1>2, <1>3, <1>4

-----------------------------------------------------------------------------
(* The invariants, as theorems of the specification.                       *)

(* Every step of the loop or of a poster keeps the invariant.              *)
LEMMA NextIInv == IInv /\ [Next]_vars => IInv'
<1> SUFFICES ASSUME IInv, [Next]_vars PROVE IInv'
  OBVIOUS
<1>0. /\ armed \in Nat /\ calls \in 0..MaxCalls /\ MaxCalls \in Nat
      /\ tokens \in Nat /\ Len(accepted) \in Nat
      /\ Len(accepted) + armed <= calls
  BY LenProperties, MaxCallsAssumption DEF IInv, TypeOK, Counting
<1>1. ASSUME NEW kind \in {"user", "stop"}, Post(kind) PROVE IInv'
  <2>1. calls' \in 0..MaxCalls /\ calls' = calls + 1 /\ calls < MaxCalls
    BY <1>0, <1>1 DEF Post, Call
  <2>2. /\ armed' \in Nat /\ Len(accepted) < MaxCalls
        /\ Len(accepted) + 1 + armed' <= calls'
    <3>1. armed' = armed
      BY <1>1 DEF Post
    <3> QED
      BY <1>0, <2>1, <3>1
  <2>3. /\ PushEvent(kind) /\ kind \in Kind /\ pc' = pc
        /\ UNCHANGED <<selector, hand, delivered, discarded, failed>>
    BY <1>1 DEF Post, Kind
  <2> QED
    BY <2>1, <2>2, <2>3, PushIInv
<1>2. CASE Expire
  <2>1. /\ PushEvent("task") /\ "task" \in Kind /\ armed' = armed - 1
        /\ armed > 0 /\ calls' = calls
        /\ pc \in {"due", "expire"} /\ pc' = "expire"
        /\ UNCHANGED <<selector, hand, delivered, discarded, failed>>
    BY <1>2 DEF Expire, Kind, historyVars
  <2>2. /\ armed' \in Nat /\ calls' \in 0..MaxCalls
        /\ Len(accepted) < MaxCalls /\ Len(accepted) + 1 + armed' <= calls'
    BY <1>0, <2>1
  <2> QED
    BY <2>1, <2>2, PushIInv
<1>3. CASE StartTimer \/ CancelTimer \/ RepeatTimer
  <2>1. /\ Call
        /\ UNCHANGED <<selector, queueVars, historyVars, pc, hand, failed>>
        /\ armed' \in {armed - 1, armed, armed + 1}
        /\ armed' = armed - 1 => armed > 0
        /\ tokens' \in {tokens, tokens + 1}
    BY <1>0, <1>3 DEF StartTimer, CancelTimer, RepeatTimer
  <2>2. armed' \in Nat /\ armed' <= armed + 1
    BY <1>0, <2>1
  <2> QED
    BY <2>1, <2>2, TimerIInv
<1>4. CASE Run \/ TimerDue \/ EnterWait \/ WaitSockets \/ SocketsDone
           \/ WaitInterrupted \/ WaitTimeout \/ ExpireDone
  <2>1. /\ UNCHANGED <<selector, queueVars, historyVars, tokens, hand, armed,
                      failed, calls>>
        /\ pc # "handler" /\ Alive /\ pc' \in PCs /\ pc' # "handler" /\ Alive'
        /\ HoldsToken' <=> HoldsToken
    BY <1>4 DEF Run, TimerDue, EnterWait, WaitSockets, SocketsDone,
         WaitInterrupted, WaitTimeout, ExpireDone, Alive, PCs, HoldsToken
  <2> QED
    BY <2>1, MoveIInv
<1>5. CASE UNCHANGED vars
  BY <1>5 DEF vars, IInv, TypeOK, Counting, HandShape, NoLostWakeup, HoldsToken,
       FifoExactlyOnce, StopIsLast, LivingLoop, StoppedLoop, Alive,
       GracefulStopDropsNothing
<1> QED
  BY <1>1, <1>2, <1>3, <1>4, <1>5, WaitTokenIInv, WaitErrorIInv, PopIInv,
     DispatchedIInv, ExitIInv DEF Next, LoopStep

(* The invariant holds in every behaviour.                                 *)
THEOREM Invariance == Spec => []IInv
<1>1. Init => IInv
  BY InitIInv
<1>2. IInv /\ [Next]_vars => IInv'
  BY NextIInv
<1> QED
  BY <1>1, <1>2, PTL DEF Spec

(* Every variable keeps its type, for any number of calls.                 *)
THEOREM TypeCorrect == Spec => []TypeOK
<1>1. IInv => TypeOK
  BY DEF IInv
<1> QED
  BY <1>1, Invariance, PTL

(* No wakeup is lost: while the loop lives there is a token for every      *)
(* queued event, so Semaphore::wait and epoll_wait cannot sleep on one.    *)
THEOREM WakeupsSuffice == Spec => []NoLostWakeup
<1>1. IInv => NoLostWakeup
  BY DEF IInv
<1> QED
  BY <1>1, Invariance, PTL

(* push(), pop() and dispatch() lose, duplicate and reorder no event.      *)
THEOREM FifoDelivery == Spec => []FifoExactlyOnce
<1>1. IInv => FifoExactlyOnce
  BY DEF IInv
<1> QED
  BY <1>1, Invariance, PTL

(* A StopEvent never makes clear() throw an accepted event away.           *)
THEOREM GracefulStop == Spec => []GracefulStopDropsNothing
<1>1. IInv => GracefulStopDropsNothing
  BY DEF IInv
<1> QED
  BY <1>1, Invariance, PTL

-----------------------------------------------------------------------------
(* Refinement of Mailbox.                                                  *)

(* A posted event goes to the end of the abstract box, or nowhere.         *)
LEMMA PushIsAccept ==
    ASSUME IInv, NEW kind \in Kind, PushEvent(kind),
           Len(accepted) < MaxCalls,
           UNCHANGED <<hand, delivered>>, pc' = "end" <=> pc = "end"
    PROVE  [M!MailboxNext]_(M!mailboxVars)
<1>1. CASE stopPosted
  BY <1>1 DEF PushEvent, queueVars, M!mailboxVars
<1>2. CASE ~stopPosted
  <2> DEFINE x == [id |-> Len(accepted) + 1, kind |-> kind]
  <2>1. queue' = Append(queue, x) /\ stopPosted' = (kind = "stop")
    BY <1>2 DEF PushEvent
  <2>2. hand \in Seq(Event) /\ queue \in Seq(Event) /\ Len(accepted) \in Nat
    BY LenProperties DEF IInv, TypeOK
  <2>3. x \in Event
    BY <2>2, MaxCallsAssumption DEF Event
  <2>4. hand \o Append(queue, x) = Append(hand \o queue, x)
    <3> HIDE DEF x
    <3> QED
      BY <2>2, <2>3, AppendAtEnd
  <2>5. stopPosted' = (x \in {y \in Event : IsStop(y)})
    BY <2>1, <2>3 DEF IsStop
  <2>6. M!Accept(x)
    BY <1>2, <2>1, <2>4, <2>5 DEF M!Accept
  <2> QED
    BY <2>3, <2>6 DEF M!MailboxNext
<1> QED
  BY <1>1, <1>2

(* The first element of a nonempty box.                                    *)
LEMMA HeadOfBox ==
    ASSUME NEW S, NEW x \in S, NEW s \in Seq(S)
    PROVE  /\ <<x>> \o s # <<>>
           /\ Head(<<x>> \o s) = x
           /\ Tail(<<x>> \o s) = s
<1> DEFINE b == <<x>> \o s
<1>1. <<x>> \in Seq(S) /\ Len(<<x>>) = 1 /\ Len(s) \in Nat
  BY LenProperties
<1>2. /\ b \in Seq(S) /\ Len(b) = 1 + Len(s)
      /\ \A i \in 1..(1 + Len(s)) :
            b[i] = IF i <= 1 THEN <<x>>[i] ELSE s[i - 1]
  BY <1>1, ConcatProperties
<1> HIDE DEF b
<1>3. b # <<>> /\ b[1] = x
  BY <1>1, <1>2, EmptySeq
<1>4. Head(b) = x /\ Tail(b) \in Seq(S) /\ Len(Tail(b)) = Len(s)
  BY <1>1, <1>2, <1>3, HeadTailProperties
<1>5. ASSUME NEW i \in 1..Len(s) PROVE Tail(b)[i] = s[i]
  <2>1. Tail(b)[i] = b[i + 1]
    BY <1>2, <1>3, <1>4, HeadTailProperties
  <2>2. i + 1 \in 1..(1 + Len(s)) /\ ~(i + 1 <= 1) /\ (i + 1) - 1 = i
    BY <1>1
  <2> QED
    BY <1>2, <2>1, <2>2
<1>6. Tail(b) = s
  BY <1>4, <1>5, SeqEqual
<1> QED
  BY <1>3, <1>4, <1>6 DEF b

(* Every step of the loop is a step of the mailbox or none.                *)
LEMMA StepRefines == IInv /\ [Next]_vars => [M!MailboxNext]_(M!mailboxVars)
<1> SUFFICES ASSUME IInv, [Next]_vars PROVE [M!MailboxNext]_(M!mailboxVars)
  OBVIOUS
<1>0. /\ armed \in Nat /\ calls \in 0..MaxCalls /\ MaxCalls \in Nat
      /\ Len(accepted) \in Nat /\ Len(accepted) + armed <= calls
      /\ queue \in Seq(Event) /\ hand \in Seq(Event)
  BY LenProperties, MaxCallsAssumption DEF IInv, TypeOK, Counting
<1>1. ASSUME NEW kind \in {"user", "stop"}, Post(kind)
      PROVE  [M!MailboxNext]_(M!mailboxVars)
  <2>1. Len(accepted) < MaxCalls
    <3>1. calls < MaxCalls
      BY <1>1 DEF Post, Call
    <3> QED
      BY <1>0, <3>1
  <2>2. PushEvent(kind) /\ kind \in Kind /\ pc' = pc /\ UNCHANGED <<hand, delivered>>
    BY <1>1 DEF Post, Kind
  <2> QED
    BY <2>1, <2>2, PushIsAccept
<1>2. CASE Expire
  <2>1. /\ PushEvent("task") /\ "task" \in Kind /\ armed > 0
        /\ pc # "end" /\ pc' # "end" /\ UNCHANGED <<hand, delivered>>
    BY <1>2 DEF Expire, Kind, historyVars
  <2>2. Len(accepted) < MaxCalls
    BY <1>0, <2>1
  <2> QED
    BY <2>1, <2>2, PushIsAccept
<1>3. CASE Pop
  <2>1. hand = <<>>
    BY <1>3 DEF Pop, IInv, HandShape
  <2>2. hand' \o queue' = hand \o queue
    <3>1. CASE queue = <<>>
      BY <1>3, <2>1, <3>1 DEF Pop, PopEvent
    <3>2. CASE queue # <<>>
      <4>1. hand' = <<Head(queue)>> /\ queue' = Tail(queue)
        BY <1>3, <3>2 DEF Pop, PopEvent
      <4>2. hand' \o queue' = queue
        BY <1>0, <3>2, <4>1, HeadTailConcat
      <4>3. hand \o queue = queue
        BY <1>0, <2>1, ConcatEmptySeq
      <4> QED
        BY <4>2, <4>3
    <3> QED
      BY <3>1, <3>2
  <2>3. (pc' = "end") = (pc = "end") /\ UNCHANGED <<delivered, stopPosted>>
    BY <1>3 DEF Pop, historyVars
  <2> QED
    BY <2>2, <2>3 DEF M!mailboxVars
<1>4. CASE Dispatched
  <2>1. /\ hand = <<hand[1]>> /\ hand[1] \in Event /\ hand' = <<>>
        /\ queue' = queue /\ pc = "handler" /\ pc' # "end"
        /\ delivered' = delivered \o hand /\ stopPosted' = stopPosted
    <3>1. Len(hand) = 1
      BY <1>4 DEF Dispatched, IInv, HandShape
    <3> QED
      BY <1>0, <1>4, <3>1, Singleton DEF Dispatched, queueVars
  <2>2. /\ hand \o queue # <<>> /\ Head(hand \o queue) = hand[1]
        /\ Tail(hand \o queue) = queue
    <3> DEFINE h == hand[1]
    <3>1. h \in Event /\ hand = <<h>>
      BY <2>1
    <3> HIDE DEF h
    <3>2. /\ <<h>> \o queue # <<>> /\ Head(<<h>> \o queue) = h
          /\ Tail(<<h>> \o queue) = queue
      BY <1>0, <3>1, HeadOfBox
    <3>3. Head(hand \o queue) = h /\ hand \o queue # <<>> /\ Tail(hand \o queue) = queue
      BY <3>1, <3>2
    <3> QED
      BY <3>3 DEF h
  <2>3. hand' \o queue' = queue
    BY <1>0, <2>1, ConcatEmptySeq
  <2>4. delivered' = Append(delivered, hand[1])
    <3>1. delivered \in Seq(Event)
      BY DEF IInv, TypeOK
    <3>2. Append(delivered, hand[1]) = delivered \o <<hand[1]>>
      BY <2>1, <3>1, AppendIsConcat
    <3> QED
      BY <2>1, <3>2
  <2>5. delivered = <<>> \/ delivered[Len(delivered)] \notin {y \in Event : IsStop(y)}
    <3>1. delivered \in Seq(Event)
      BY DEF IInv, TypeOK
    <3>2. \A i \in 1..Len(delivered) : ~IsStop(delivered[i])
      BY <2>1 DEF IInv, LivingLoop, Alive
    <3>3. CASE delivered # <<>>
      <4>1. Len(delivered) \in 1..Len(delivered)
        BY <3>1, <3>3, EmptySeq
      <4> QED
        BY <3>2, <4>1
    <3> QED
      BY <3>3
  <2>6. M!HandOver
    BY <2>1, <2>2, <2>3, <2>4, <2>5 DEF M!HandOver
  <2> QED
    BY <2>6 DEF M!MailboxNext
<1>5. CASE DrainPop
  <2>1. /\ hand = <<>> /\ hand' = hand /\ pc # "end" /\ pc' # "end"
        /\ UNCHANGED <<delivered, stopPosted>>
    BY <1>5 DEF DrainPop, IInv, HandShape
  <2>2. CASE queue = <<>>
    BY <1>5, <2>1, <2>2 DEF DrainPop, M!mailboxVars
  <2>3. CASE queue # <<>>
    <3>1. queue' = Tail(queue) /\ Tail(queue) \in Seq(Event)
      BY <1>0, <1>5, <2>3, HeadTailProperties DEF DrainPop
    <3>2. hand \o queue = queue /\ hand' \o queue' = Tail(queue)
      BY <1>0, <2>1, <3>1, ConcatEmptySeq
    <3>3. M!Discard
      BY <2>1, <2>3, <3>2 DEF M!Discard
    <3> QED
      BY <3>3 DEF M!MailboxNext
  <2> QED
    BY <2>2, <2>3
<1>6. CASE Clear
  <2>1. /\ hand' = <<>> /\ queue' = <<>> /\ stopPosted' = FALSE /\ pc # "end"
        /\ pc' = "end" /\ delivered' = delivered
    BY <1>6 DEF Clear, IInv, HandShape
  <2>2. hand' \o queue' = <<>>
    <3>1. <<>> \o <<>> = <<>>
      BY EmptySeq, ConcatEmptySeq
    <3> QED
      BY <2>1, <3>1
  <2>3. M!Leave
    BY <2>1, <2>2 DEF M!Leave
  <2> QED
    BY <2>3 DEF M!MailboxNext
<1>7. CASE \/ StartTimer \/ CancelTimer \/ RepeatTimer
           \/ Run \/ TimerDue \/ EnterWait \/ WaitToken \/ WaitSockets
           \/ SocketsDone \/ WaitInterrupted \/ WaitTimeout \/ WaitError
           \/ ExpireDone \/ CancelAllTimer \/ DrainWait \/ UNCHANGED vars
  <2>1. UNCHANGED <<hand, queue, delivered, stopPosted>>
    BY <1>7 DEF StartTimer, CancelTimer, RepeatTimer, Run, TimerDue, EnterWait,
         WaitToken, WaitSockets, SocketsDone, WaitInterrupted, WaitTimeout,
         WaitError, ExpireDone, CancelAllTimer, DrainWait, vars, queueVars,
         historyVars
  <2>2. (pc' = "end") = (pc = "end")
    BY <1>7 DEF StartTimer, CancelTimer, RepeatTimer, Run, TimerDue, EnterWait,
         WaitToken, WaitSockets, SocketsDone, WaitInterrupted, WaitTimeout,
         WaitError, ExpireDone, CancelAllTimer, DrainWait, vars
  <2> QED
    BY <2>1, <2>2 DEF M!mailboxVars
<1> QED
  BY <1>1, <1>2, <1>3, <1>4, <1>5, <1>6, <1>7 DEF Next, LoopStep

(* The event loop implements the mailbox: whatever wakes it up, posters    *)
(* see a queue that hands over in order, once, and nothing behind a stop.  *)
THEOREM Refinement == Spec => ImplementsMailbox
<1>1. Init => M!MailboxInit
  <2>1. <<>> \o <<>> = <<>>
    BY EmptySeq, ConcatEmptySeq
  <2> QED
    BY <2>1 DEF Init, M!MailboxInit
<1>2. IInv /\ [Next]_vars => [M!MailboxNext]_(M!mailboxVars)
  BY StepRefines
<1>3. Spec => []IInv
  BY Invariance
<1> QED
  BY <1>1, <1>2, <1>3, PTL DEF Spec, ImplementsMailbox, M!MailboxSpec
=============================================================================
