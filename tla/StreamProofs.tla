----------------------------- MODULE StreamProofs -----------------------------
(* Proofs about the stream pipeline, for every frame size, every number of  *)
(* iterations, every period and every source.                               *)
EXTENDS StreamPipeline, TLAPS

-----------------------------------------------------------------------------
(* The inductive invariant, in parts.                                       *)

Looping == consPc \in {"start", "loop", "take"}
Holding == consPc \in {"notify", "execute"}
Ending  == consPc \in {"stop", "wakeAll", "join", "returned"}
ProducerEnding == prodPc \in {"finish", "notifyAll", "done"}

\* Where each thread is tells what it has still to do, and which flags it set.
Control ==
    /\ prodPc \in {"unborn", "open"} => prodIndex = 0 /\ got = 0
    /\ prodPc \in {"push", "notify"} => got = 0
    /\ prodPc \in {"read", "prepare", "push"} => prodIndex < totalIterations
    /\ prodPc = "read" => got < FrameSize
    /\ prodPc = "prepare" => got = FrameSize
    /\ consPc = "start" => prodPc = "unborn"
    /\ consPc = "take" \/ Holding => consIndex < totalIterations
    /\ finished <=> prodPc \in {"notifyAll", "done"}
    /\ finished => status = prodStatus
    /\ stopped <=> consPc \in {"wakeAll", "join", "returned"}
    /\ ProducerEnding /\ prodStatus = "Success" => stopped \/ prodIndex = totalIterations

\* A thread sleeps only inside the wait of its own critical section.
Sleepers ==
    /\ "producer" \in waiting => prodPc = "push"
    /\ "consumer" \in waiting => consPc = "take"

\* The frames the producer has pushed are those that were executed, the one in
\* the hands of the consumer and those in the queue.
Counts ==
    /\ consIndex = Len(samples)
    /\ Len(frames) <= QueueLimit /\ Len(frames) <= prodIndex
    /\ Looping => prodIndex = consIndex + Len(frames)
    /\ Holding => prodIndex = consIndex + 1 + Len(frames)

\* Where in the source each of them begins, and how far the producer has read.
Places ==
    /\ \A k \in DOMAIN frames : frames[k].first = (prodIndex - Len(frames) + k - 1) * FrameSize
    /\ Holding => frame.first = consIndex * FrameSize
    /\ prodPc = "push" => held.first = prodIndex * FrameSize
    /\ prodPc = "push" => readPos = prodIndex * FrameSize + FrameSize
    /\ prodPc # "push" /\ ~ProducerEnding => readPos = prodIndex * FrameSize + got
    /\ prodIndex * FrameSize <= readPos /\ readPos <= prodIndex * FrameSize + FrameSize
    /\ readPos <= written

\* A reference output is the output of some sample of its input, and every
\* sample has one to be compared with.
References ==
    /\ \A k \in DOMAIN samples :
        /\ samples[k].inputIndex \in 0 .. OutputSlots - 1
        /\ referenceOutputs[samples[k].inputIndex] # NoOutput
    /\ \A slot \in 0 .. OutputSlots - 1 :
        referenceOutputs[slot] # NoOutput =>
            \E k \in DOMAIN samples : samples[k].inputIndex = slot /\ samples[k].output = referenceOutputs[slot]
    /\ outputsConsistent <=>
        \A k \in DOMAIN samples : samples[k].output = referenceOutputs[samples[k].inputIndex]

\* The measured interval is open once the consumer is past its first index.
Window ==
    /\ measuredStart # Never => measuredStart.extracted = warmupIterations
    /\ (consPc = "take" \/ Holding) /\ consIndex >= warmupIterations => measuredStart # Never
    /\ consPc = "loop" /\ consIndex > warmupIterations => measuredStart # Never
    /\ streamPipeline # <<>> => Ending
    /\ streamPipeline # <<>> => streamPipeline[1] = measuredStart /\ streamPipeline[2].extracted = totalIterations
    /\ Ending /\ e = "Success" /\ warmupIterations < totalIterations => streamPipeline # <<>>

\* What the consumer will return, from the moment it leaves its loop.
Verdict ==
    /\ e = "Success" <=> errorSite = "none"
    /\ ~Ending => e = "Success"
    /\ Ending /\ e = "Success" => consIndex = totalIterations
    /\ e # "Success" => errorSite = "tensor" \/ consIndex < totalIterations
    /\ errorSite = "queue" => finished /\ consIndex = prodIndex /\ e = status
    /\ consPc = "returned" => prodPc \in {"unborn", "done"}

Inv ==
    /\ TypeOK /\ Control /\ Sleepers /\ NoLostWakeup
    /\ Counts /\ Places /\ FramesInOrder
    /\ References /\ Window /\ Verdict
-----------------------------------------------------------------------------
(* Lemmas about the data.                                                   *)

\* One frame more is one frame size more, and multiples of it are ordered.
LEMMA FramesAdd ==
    ASSUME NEW F \in Nat, NEW a \in Int PROVE (a + 1) * F = a * F + F
  OBVIOUS

LEMMA FramesOrdered ==
    ASSUME NEW F \in Nat, NEW a \in Nat, NEW b \in Nat, a <= b PROVE a * F <= b * F
<1>1. PICK c \in Nat : b = a + c
  <2>1. b - a \in Nat /\ b = a + (b - a)
    OBVIOUS
  <2> QED BY <2>1
<1>2. b * F = a * F + c * F
  BY <1>1
<1>3. c * F \in Nat
  OBVIOUS
<1>4. a * F \in Int
  OBVIOUS
<1> QED BY <1>2, <1>3, <1>4

\* What Append and Tail leave of a sequence.
LEMMA AppendedSeq ==
    ASSUME NEW S, NEW q \in Seq(S), NEW x \in S
    PROVE  /\ Append(q, x) \in Seq(S) /\ Len(Append(q, x)) = Len(q) + 1
           /\ \A k \in 1 .. Len(q) : Append(q, x)[k] = q[k]
           /\ Append(q, x)[Len(q) + 1] = x
           /\ DOMAIN Append(q, x) = 1 .. Len(q) + 1 /\ DOMAIN q = 1 .. Len(q)
  OBVIOUS

LEMMA TailSeq ==
    ASSUME NEW S, NEW q \in Seq(S), q # <<>>
    PROVE  /\ Tail(q) \in Seq(S) /\ Len(Tail(q)) = Len(q) - 1 /\ Len(q) > 0
           /\ Head(q) = q[1] /\ Head(q) \in S
           /\ \A k \in 1 .. Len(q) - 1 : Tail(q)[k] = q[k + 1]
           /\ DOMAIN Tail(q) = 1 .. Len(q) - 1 /\ DOMAIN q = 1 .. Len(q)
  OBVIOUS

\* Every index has a slot among the reference outputs.
LEMMA IndexHasSlot ==
    ASSUME NEW index \in Nat, index < totalIterations
    PROVE  InputIndex(index) \in 0 .. OutputSlots - 1
<1>1. totalIterations \in Nat /\ streamPeriod \in Nat
  BY StreamAssumption
<1>2. CASE streamPeriod = 0
  BY <1>1, <1>2 DEF InputIndex, OutputSlots
<1>3. CASE streamPeriod # 0
  BY <1>1, <1>3 DEF InputIndex, OutputSlots
<1> QED BY <1>2, <1>3
-----------------------------------------------------------------------------
(* The one step that adds a sample.                                         *)

\* No other step touches the outputs.
LEMMA OnlyExecute == ASSUME [Next]_vars PROVE Execute \/ UNCHANGED outputVars
  BY DEF Next, Producer, Consumer, Source, OpenInput, ReadSome, Prepare, ProducerFails, WaitWritable, Push,
     NotifyReadable, Finish, NotifyFinished, StartProducer, BeginIteration, EndLoop, WaitReadable, Pop,
     NotifyWritable, ConsumerFails, Fail, Stop, NotifyStopped, Join, SpuriousWakeup, Returned, vars,
     consumerVars

\* It executes the frame in hand into the slot of its index.
LEMMA ExecuteAppends ==
    ASSUME TypeOK, Control, Execute
    PROVE  /\ InputIndex(consIndex) \in 0 .. OutputSlots - 1
           /\ \E x \in Sample :
                /\ x.inputIndex = InputIndex(consIndex) /\ x.input = frame.first
                /\ samples' = Append(samples, x)
                /\ referenceOutputs' = [referenceOutputs EXCEPT ![x.inputIndex] = IF @ = NoOutput THEN x.output ELSE @]
                /\ outputsConsistent' = (outputsConsistent /\ referenceOutputs[x.inputIndex] \in {NoOutput, x.output})
<1> DEFINE slot == InputIndex(consIndex)
<1>1. slot \in 0 .. OutputSlots - 1
  <2>1. consIndex \in Nat /\ consIndex < totalIterations
    BY StreamAssumption DEF Execute, Control, Holding, TypeOK
  <2> QED BY <2>1, IndexHasSlot
<1>2. slot \in Nat
  BY <1>1
<1> HIDE DEF slot
<1>3. PICK output \in Outputs :
          /\ referenceOutputs' = [referenceOutputs EXCEPT ![slot] = IF @ = NoOutput THEN output ELSE @]
          /\ outputsConsistent' = StillConsistent(referenceOutputs[slot], output)
          /\ samples' = Append(samples, [inputIndex |-> slot, input |-> frame.first, output |-> output])
  BY DEF Execute, slot
<1> DEFINE x == [inputIndex |-> slot, input |-> frame.first, output |-> output]
<1>4. x \in Sample
  BY <1>2 DEF TypeOK, Frame, Sample
<1>5. x.inputIndex = slot /\ x.input = frame.first /\ x.output = output
  OBVIOUS
<1> QED BY <1>1, <1>3, <1>4, <1>5 DEF StillConsistent, slot

-----------------------------------------------------------------------------
(* Each part holds initially and is kept by every step.                     *)

\* The invariant holds before the call does anything.
LEMMA InvInit == Init => Inv
<1> SUFFICES ASSUME Init PROVE Inv
  OBVIOUS
<1> USE StreamAssumption DEF Init
<1>1. TypeOK
  <2>1. frames \in Seq(Frame) /\ samples \in Seq(Sample) /\ streamPipeline \in Seq(Instant)
    OBVIOUS
  <2>2. held \in Frame /\ frame \in Frame /\ measuredStart \in Instant
    BY DEF Frame, NoFrame, Never, Instant
  <2>3. referenceOutputs \in [0 .. OutputSlots - 1 -> Outputs \cup {NoOutput}]
    OBVIOUS
  <2>4. totalIterations \in Nat /\ SourceBytes \in Nat /\ FrameSize \in Nat
    OBVIOUS
  <2>5. {stopped, finished} \subseteq BOOLEAN /\ outputsConsistent \in BOOLEAN
    OBVIOUS
  <2> QED BY <2>1, <2>2, <2>3, <2>4, <2>5 DEF TypeOK, Errors, ProdPcs, ConsPcs, Sites
<1>2. Control /\ Sleepers /\ NoLostWakeup /\ Counts /\ FramesInOrder
  BY DEF Control, Sleepers, NoLostWakeup, Counts, FramesInOrder, QueueLimit, Looping, Holding, ProducerEnding
<1>3. Places
  BY DEF Places, Holding, ProducerEnding
<1>4. References
  BY DEF References
<1>5. Window /\ Verdict
  BY DEF Window, Verdict, Ending, Holding
<1> QED BY <1>1, <1>2, <1>3, <1>4, <1>5 DEF Inv

\* Every step keeps the types.
LEMMA TypeStep == TypeOK /\ Control /\ Places /\ [Next]_vars => TypeOK'
<1> SUFFICES ASSUME TypeOK, Control, Places, [Next]_vars PROVE TypeOK'
  OBVIOUS
<1> USE StreamAssumption DEF TypeOK, queueVars, producerVars, consumerVars, outputVars, windowVars, sourceVars
<1>1. CASE Source
  BY <1>1 DEF Source
<1>2. CASE OpenInput
  BY <1>2 DEF OpenInput, ProdPcs
<1>3. CASE ReadSome
  BY <1>3 DEF ReadSome, ProdPcs, Missing, FrameRead, Control
<1>4. CASE Prepare
  <2>1. readPos - got \in Nat
    <3>1. prodIndex \in Nat /\ FrameSize \in Nat /\ prodIndex * FrameSize \in Nat
      OBVIOUS
    <3> QED BY <1>4, <3>1 DEF Prepare, Places, ProducerEnding
  <2>2. held' \in Frame
    BY <1>4, <2>1 DEF Prepare, Frame
  <2> QED BY <1>4, <2>2 DEF Prepare, ProdPcs
<1>5. CASE ProducerFails
  BY <1>5 DEF ProducerFails, ProdPcs, Errors
<1>6. CASE WaitWritable
  BY <1>6 DEF WaitWritable
<1>7. CASE Push
  <2>1. Append(frames, held) \in Seq(Frame) /\ NoFrame \in Frame
    BY AppendedSeq DEF Frame, NoFrame
  <2>2. ~stopped => prodIndex + 1 \in 0 .. totalIterations
    BY <1>7 DEF Push, Control
  <2> QED BY <1>7, <2>1, <2>2 DEF Push, ProdPcs
<1>8. CASE NotifyReadable
  BY <1>8 DEF NotifyReadable, ProdPcs, Notify
<1>9. CASE Finish
  BY <1>9 DEF Finish, ProdPcs
<1>10. CASE NotifyFinished
  BY <1>10 DEF NotifyFinished, ProdPcs, Notify
<1>11. CASE StartProducer
  BY <1>11 DEF StartProducer, ProdPcs, ConsPcs
<1>12. CASE BeginIteration
  BY <1>12 DEF BeginIteration, ConsPcs, Instant, Now
<1>13. CASE EndLoop
  <2>1. Now \in Instant
    BY DEF Now, Instant
  <2>2. <<measuredStart, Now>> \in Seq(Instant) /\ <<>> \in Seq(Instant)
    BY <2>1
  <2> QED BY <1>13, <2>2 DEF EndLoop, ConsPcs
<1>14. CASE WaitReadable
  BY <1>14 DEF WaitReadable
<1>15. CASE Pop
  <2>1. Tail(frames) \in Seq(Frame) /\ Head(frames) \in Frame
    BY <1>15, TailSeq DEF Pop
  <2> QED BY <1>15, <2>1 DEF Pop, ConsPcs
<1>16. CASE NotifyWritable
  BY <1>16 DEF NotifyWritable, ConsPcs, Notify
<1>17. CASE Execute
  <2> DEFINE slot == InputIndex(consIndex)
  <2>1. consIndex \in Nat /\ consIndex < totalIterations
    BY <1>17 DEF Execute, Control, Holding
  <2>2. slot \in 0 .. OutputSlots - 1
    BY <2>1, IndexHasSlot
  <2>3. PICK output \in Outputs :
            /\ referenceOutputs' = [referenceOutputs EXCEPT ![slot] = IF @ = NoOutput THEN output ELSE @]
            /\ outputsConsistent' = StillConsistent(referenceOutputs[slot], output)
            /\ samples' = Append(samples, [inputIndex |-> slot, input |-> frame.first, output |-> output])
    BY <1>17 DEF Execute
  <2>4. samples' \in Seq(Sample)
    <3>1. slot \in Nat /\ frame.first \in Nat
      BY <2>2 DEF Frame
    <3>2. [inputIndex |-> slot, input |-> frame.first, output |-> output] \in Sample
      BY <3>1 DEF Sample
    <3> HIDE DEF slot
    <3> QED BY <2>3, <3>2, AppendedSeq
  <2>5. referenceOutputs' \in [0 .. OutputSlots - 1 -> Outputs \cup {NoOutput}]
    BY <2>2, <2>3
  <2>6. outputsConsistent' \in BOOLEAN
    BY <2>3 DEF StillConsistent
  <2>7. consIndex + 1 \in 0 .. totalIterations
    BY <2>1
  <2> QED BY <1>17, <2>4, <2>5, <2>6, <2>7 DEF Execute, ConsPcs
<1>18. CASE ConsumerFails
  BY <1>18 DEF ConsumerFails, Fail, ConsPcs, Errors, Sites
<1>19. CASE Stop
  BY <1>19 DEF Stop, ConsPcs
<1>20. CASE NotifyStopped
  BY <1>20 DEF NotifyStopped, ConsPcs, Notify
<1>21. CASE Join
  BY <1>21 DEF Join, ConsPcs
<1>22. CASE SpuriousWakeup
  BY <1>22 DEF SpuriousWakeup
<1>23. CASE Returned \/ UNCHANGED vars
  BY <1>23 DEF Returned, vars
<1> QED
  BY <1>1, <1>2, <1>3, <1>4, <1>5, <1>6, <1>7, <1>8, <1>9, <1>10, <1>11, <1>12, <1>13, <1>14, <1>15,
     <1>16, <1>17, <1>18, <1>19, <1>20, <1>21, <1>22, <1>23 DEF Next, Producer, Consumer

\* The program counters, the flags and the indices go together.
LEMMA ControlStep == TypeOK /\ Control /\ [Next]_vars => Control'
<1> SUFFICES ASSUME TypeOK, Control, [Next]_vars PROVE Control'
  OBVIOUS
<1> USE StreamAssumption DEF TypeOK, Control, Holding, ProducerEnding, queueVars, producerVars, consumerVars,
        outputVars, windowVars, sourceVars
<1>1. CASE Source
  BY <1>1 DEF Source
<1>2. CASE OpenInput
  BY <1>2 DEF OpenInput
<1>3. CASE ReadSome
  BY <1>3 DEF ReadSome, Missing, FrameRead
<1>4. CASE Prepare
  BY <1>4 DEF Prepare
<1>5. CASE ProducerFails
  BY <1>5 DEF ProducerFails
<1>6. CASE WaitWritable
  BY <1>6 DEF WaitWritable
<1>7. CASE Push
  BY <1>7 DEF Push
<1>8. CASE NotifyReadable
  BY <1>8 DEF NotifyReadable, Notify
<1>9. CASE Finish
  BY <1>9 DEF Finish
<1>10. CASE NotifyFinished
  BY <1>10 DEF NotifyFinished, Notify
<1>11. CASE StartProducer
  BY <1>11 DEF StartProducer
<1>12. CASE BeginIteration
  BY <1>12 DEF BeginIteration
<1>13. CASE EndLoop
  BY <1>13 DEF EndLoop
<1>14. CASE WaitReadable
  BY <1>14 DEF WaitReadable
<1>15. CASE Pop
  BY <1>15 DEF Pop
<1>16. CASE NotifyWritable
  BY <1>16 DEF NotifyWritable, Notify
<1>17. CASE Execute
  BY <1>17 DEF Execute
<1>18. CASE ConsumerFails
  BY <1>18 DEF ConsumerFails, Fail
<1>19. CASE Stop
  BY <1>19 DEF Stop
<1>20. CASE NotifyStopped
  BY <1>20 DEF NotifyStopped, Notify
<1>21. CASE Join
  BY <1>21 DEF Join
<1>22. CASE SpuriousWakeup
  BY <1>22 DEF SpuriousWakeup
<1>23. CASE Returned \/ UNCHANGED vars
  BY <1>23 DEF Returned, vars
<1> QED
  BY <1>1, <1>2, <1>3, <1>4, <1>5, <1>6, <1>7, <1>8, <1>9, <1>10, <1>11, <1>12, <1>13, <1>14, <1>15,
     <1>16, <1>17, <1>18, <1>19, <1>20, <1>21, <1>22, <1>23 DEF Next, Producer, Consumer

\* No step leaves a thread asleep whose predicate has become true, unless the
\* step is followed by the notification of that thread.
LEMMA WakeupStep == TypeOK /\ Control /\ Sleepers /\ NoLostWakeup /\ [Next]_vars => Sleepers' /\ NoLostWakeup'
<1> SUFFICES ASSUME TypeOK, Control, Sleepers, NoLostWakeup, [Next]_vars PROVE Sleepers' /\ NoLostWakeup'
  OBVIOUS
<1> USE DEF Sleepers, NoLostWakeup, Writable, Readable, queueVars, producerVars, consumerVars, outputVars,
        windowVars, sourceVars
<1>1. CASE Source
  BY <1>1 DEF Source
<1>2. CASE OpenInput
  BY <1>2 DEF OpenInput
<1>3. CASE ReadSome
  BY <1>3 DEF ReadSome
<1>4. CASE Prepare
  BY <1>4 DEF Prepare
<1>5. CASE ProducerFails
  BY <1>5 DEF ProducerFails
<1>6. CASE WaitWritable
  BY <1>6 DEF WaitWritable
<1>7. CASE Push
  BY <1>7 DEF Push
<1>8. CASE NotifyReadable
  BY <1>8 DEF NotifyReadable, Notify
<1>9. CASE Finish
  BY <1>9 DEF Finish
<1>10. CASE NotifyFinished
  BY <1>10 DEF NotifyFinished, Notify
<1>11. CASE StartProducer
  BY <1>11 DEF StartProducer, Control
<1>12. CASE BeginIteration
  BY <1>12 DEF BeginIteration
<1>13. CASE EndLoop
  BY <1>13 DEF EndLoop
<1>14. CASE WaitReadable
  BY <1>14 DEF WaitReadable
<1>15. CASE Pop
  BY <1>15 DEF Pop
<1>16. CASE NotifyWritable
  BY <1>16 DEF NotifyWritable, Notify
<1>17. CASE Execute
  BY <1>17 DEF Execute
<1>18. CASE ConsumerFails
  BY <1>18 DEF ConsumerFails, Fail
<1>19. CASE Stop
  BY <1>19 DEF Stop
<1>20. CASE NotifyStopped
  BY <1>20 DEF NotifyStopped, Notify
<1>21. CASE Join
  BY <1>21 DEF Join
<1>22. CASE SpuriousWakeup
  BY <1>22 DEF SpuriousWakeup
<1>23. CASE Returned \/ UNCHANGED vars
  BY <1>23 DEF Returned, vars
<1> QED
  BY <1>1, <1>2, <1>3, <1>4, <1>5, <1>6, <1>7, <1>8, <1>9, <1>10, <1>11, <1>12, <1>13, <1>14, <1>15,
     <1>16, <1>17, <1>18, <1>19, <1>20, <1>21, <1>22, <1>23 DEF Next, Producer, Consumer

\* No frame is lost or counted twice between the producer and the consumer.
LEMMA CountsStep == TypeOK /\ Control /\ Counts /\ [Next]_vars => Counts'
<1> SUFFICES ASSUME TypeOK, Control, Counts, [Next]_vars PROVE Counts'
  OBVIOUS
<1> USE StreamAssumption DEF TypeOK, Control, Counts, Looping, Holding, QueueLimit, queueVars, producerVars,
        consumerVars, outputVars, windowVars, sourceVars
<1>1. CASE Source
  BY <1>1 DEF Source
<1>2. CASE OpenInput
  BY <1>2 DEF OpenInput
<1>3. CASE ReadSome
  BY <1>3 DEF ReadSome
<1>4. CASE Prepare
  BY <1>4 DEF Prepare
<1>5. CASE ProducerFails
  BY <1>5 DEF ProducerFails
<1>6. CASE WaitWritable
  BY <1>6 DEF WaitWritable
<1>7. CASE Push
  <2>1. Len(Append(frames, held)) = Len(frames) + 1
    BY AppendedSeq
  <2>2. CASE stopped
    BY <1>7, <2>2 DEF Push
  <2>3. CASE ~stopped
    BY <1>7, <2>1, <2>3 DEF Push, Writable
  <2> QED BY <2>2, <2>3
<1>8. CASE NotifyReadable
  BY <1>8 DEF NotifyReadable, Notify
<1>9. CASE Finish
  BY <1>9 DEF Finish
<1>10. CASE NotifyFinished
  BY <1>10 DEF NotifyFinished, Notify
<1>11. CASE StartProducer
  BY <1>11 DEF StartProducer
<1>12. CASE BeginIteration
  BY <1>12 DEF BeginIteration
<1>13. CASE EndLoop
  BY <1>13 DEF EndLoop
<1>14. CASE WaitReadable
  BY <1>14 DEF WaitReadable
<1>15. CASE Pop
  <2>1. Len(Tail(frames)) = Len(frames) - 1
    BY <1>15, TailSeq DEF Pop
  <2> QED BY <1>15, <2>1 DEF Pop
<1>16. CASE NotifyWritable
  BY <1>16 DEF NotifyWritable, Notify
<1>17. CASE Execute
  <2>1. PICK x \in Sample : samples' = Append(samples, x)
    BY <1>17, ExecuteAppends
  <2>2. Len(samples') = Len(samples) + 1
    BY <2>1, AppendedSeq
  <2> QED BY <1>17, <2>2 DEF Execute
<1>18. CASE ConsumerFails
  BY <1>18 DEF ConsumerFails, Fail
<1>19. CASE Stop
  BY <1>19 DEF Stop
<1>20. CASE NotifyStopped
  BY <1>20 DEF NotifyStopped, Notify
<1>21. CASE Join
  BY <1>21 DEF Join
<1>22. CASE SpuriousWakeup
  BY <1>22 DEF SpuriousWakeup
<1>23. CASE Returned \/ UNCHANGED vars
  BY <1>23 DEF Returned, vars
<1> QED
  BY <1>1, <1>2, <1>3, <1>4, <1>5, <1>6, <1>7, <1>8, <1>9, <1>10, <1>11, <1>12, <1>13, <1>14, <1>15,
     <1>16, <1>17, <1>18, <1>19, <1>20, <1>21, <1>22, <1>23 DEF Next, Producer, Consumer

\* Frames keep their places in the source, in the queue and in the hands of
\* both threads, and the producer never reads more than the one it is at.
LEMMA PlacesStep == TypeOK /\ Control /\ Counts /\ Places /\ [Next]_vars => Places'
<1> SUFFICES ASSUME TypeOK, Control, Counts, Places, [Next]_vars PROVE Places'
  OBVIOUS
<1> USE DEF Places, Holding, ProducerEnding, queueVars, producerVars, consumerVars, outputVars, windowVars, sourceVars
<1> DEFINE base == prodIndex * FrameSize
<1>0. /\ FrameSize \in Nat /\ FrameSize > 0 /\ prodIndex \in Nat /\ consIndex \in Nat /\ base \in Nat
      /\ got \in 0 .. FrameSize /\ readPos \in Nat /\ written \in Nat /\ totalIterations \in Nat
      /\ (prodIndex + 1) * FrameSize = base + FrameSize
      /\ frames \in Seq(Frame) /\ held \in Frame /\ SourceBytes \in Nat
  <2>1. FrameSize \in Nat /\ FrameSize > 0 /\ prodIndex \in Nat /\ totalIterations \in Nat /\ SourceBytes \in Nat
    BY StreamAssumption DEF TypeOK
  <2> QED BY <2>1, FramesAdd DEF TypeOK
<1> HIDE DEF base
<1>00. base = prodIndex * FrameSize
  BY DEF base
<1> USE <1>0, <1>00
<1>1. CASE Source
  BY <1>1 DEF Source
<1>2. CASE OpenInput
  BY <1>2 DEF OpenInput, Control
<1>3. CASE ReadSome
  BY <1>3 DEF ReadSome, Missing, FrameRead, Control
<1>4. CASE Prepare
  <2>1. held'.first = readPos - got /\ prodPc' = "push" /\ prodPc = "prepare"
    BY <1>4 DEF Prepare
  <2>2. got = FrameSize /\ readPos = base + got
    BY <2>1 DEF Control
  <2> QED BY <1>4, <2>1, <2>2 DEF Prepare
<1>5. CASE ProducerFails
  BY <1>5 DEF ProducerFails
<1>6. CASE WaitWritable
  BY <1>6 DEF WaitWritable
<1>7. CASE Push
  <2>1. CASE stopped
    BY <1>7, <2>1 DEF Push
  <2>2. CASE ~stopped
    <3>1. frames' = Append(frames, held) /\ prodIndex' = prodIndex + 1 /\ prodPc = "push" /\ prodPc' = "notify"
      BY <1>7, <2>2 DEF Push
    <3>2. UNCHANGED <<FrameSize, readPos, got, written, consPc, consIndex, frame>>
      BY <1>7 DEF Push
    <3>3. \A k \in DOMAIN frames' : frames'[k].first = (prodIndex' - Len(frames') + k - 1) * FrameSize
      <4> SUFFICES ASSUME NEW k \in DOMAIN frames'
                   PROVE  frames'[k].first = (prodIndex' - Len(frames') + k - 1) * FrameSize
        OBVIOUS
      <4>1. Len(frames') = Len(frames) + 1 /\ k \in 1 .. Len(frames) + 1
        BY <3>1, AppendedSeq
      <4>2. prodIndex' - Len(frames') + k - 1 = prodIndex - Len(frames) + k - 1
        BY <3>1, <4>1
      <4>3. CASE k \in 1 .. Len(frames)
        BY <3>1, <4>2, <4>3, AppendedSeq
      <4>4. CASE k = Len(frames) + 1
        <5>1. frames'[k] = held
          BY <3>1, <4>4, AppendedSeq
        <5>2. prodIndex - Len(frames) + k - 1 = prodIndex
          BY <4>4
        <5> QED BY <3>1, <4>2, <5>1, <5>2
      <4> QED BY <4>1, <4>3, <4>4
    <3>4. prodIndex' * FrameSize = base + FrameSize
      BY <3>1
    <3>5. readPos = base + FrameSize /\ got = 0
      BY <3>1 DEF Control
    <3> QED BY <3>1, <3>2, <3>3, <3>4, <3>5
  <2> QED BY <2>1, <2>2
<1>8. CASE NotifyReadable
  BY <1>8 DEF NotifyReadable, Notify
<1>9. CASE Finish
  BY <1>9 DEF Finish
<1>10. CASE NotifyFinished
  BY <1>10 DEF NotifyFinished, Notify
<1>11. CASE StartProducer
  BY <1>11 DEF StartProducer, Control
<1>12. CASE BeginIteration
  BY <1>12 DEF BeginIteration
<1>13. CASE EndLoop
  BY <1>13 DEF EndLoop
<1>14. CASE WaitReadable
  BY <1>14 DEF WaitReadable
<1>15. CASE Pop
  <2>1. /\ frame' = frames[1] /\ Len(frames') = Len(frames) - 1 /\ Len(frames) > 0
        /\ \A k \in 1 .. Len(frames) - 1 : frames'[k] = frames[k + 1]
        /\ DOMAIN frames' = 1 .. Len(frames) - 1 /\ DOMAIN frames = 1 .. Len(frames)
    BY <1>15, TailSeq DEF Pop
  <2>2. UNCHANGED <<prodIndex, prodPc, held, readPos, got, written, consIndex>> /\ consPc = "take" /\ consPc' = "notify"
    BY <1>15 DEF Pop
  <2>3. frame'.first = consIndex * FrameSize
    <3>1. frames[1].first = (prodIndex - Len(frames) + 1 - 1) * FrameSize
      BY <2>1
    <3>2. prodIndex = consIndex + Len(frames)
      BY <2>2 DEF Counts, Looping
    <3>3. prodIndex - Len(frames) + 1 - 1 = consIndex
      BY <3>2
    <3> QED BY <2>1, <3>1, <3>3
  <2>4. \A k \in DOMAIN frames' : frames'[k].first = (prodIndex' - Len(frames') + k - 1) * FrameSize
    <3> SUFFICES ASSUME NEW k \in 1 .. Len(frames) - 1
                 PROVE  frames'[k].first = (prodIndex' - Len(frames') + k - 1) * FrameSize
      BY <2>1
    <3>1. frames'[k].first = (prodIndex - Len(frames) + (k + 1) - 1) * FrameSize
      <4> DEFINE next == k + 1
      <4>1. next \in DOMAIN frames /\ frames'[k] = frames[next]
        BY <2>1
      <4> HIDE DEF next
      <4>2. frames[next].first = (prodIndex - Len(frames) + next - 1) * FrameSize
        BY <4>1
      <4> QED BY <4>1, <4>2 DEF next
    <3>2. prodIndex - Len(frames) + (k + 1) - 1 = prodIndex' - Len(frames') + k - 1
      BY <2>1, <2>2
    <3> QED BY <3>1, <3>2
  <2> QED BY <2>2, <2>3, <2>4
<1>16. CASE NotifyWritable
  BY <1>16 DEF NotifyWritable, Notify
<1>17. CASE Execute
  BY <1>17 DEF Execute
<1>18. CASE ConsumerFails
  BY <1>18 DEF ConsumerFails, Fail
<1>19. CASE Stop
  BY <1>19 DEF Stop
<1>20. CASE NotifyStopped
  BY <1>20 DEF NotifyStopped, Notify
<1>21. CASE Join
  BY <1>21 DEF Join
<1>22. CASE SpuriousWakeup
  BY <1>22 DEF SpuriousWakeup
<1>23. CASE Returned \/ UNCHANGED vars
  BY <1>23 DEF Returned, vars
<1> QED
  BY <1>1, <1>2, <1>3, <1>4, <1>5, <1>6, <1>7, <1>8, <1>9, <1>10, <1>11, <1>12, <1>13, <1>14, <1>15,
     <1>16, <1>17, <1>18, <1>19, <1>20, <1>21, <1>22, <1>23 DEF Next, Producer, Consumer

\* What is executed next begins where the last one ended.
LEMMA FramesStep == TypeOK /\ Control /\ Counts /\ Places /\ FramesInOrder /\ [Next]_vars => FramesInOrder'
<1> SUFFICES ASSUME TypeOK, Control, Counts, Places, FramesInOrder, [Next]_vars PROVE FramesInOrder'
  OBVIOUS
<1>1. CASE Execute
  <2>1. PICK x : samples' = Append(samples, x) /\ x \in Sample /\ x.input = consIndex * FrameSize
    BY <1>1, ExecuteAppends DEF Places, Holding, Execute
  <2>2. Len(samples) = consIndex /\ samples \in Seq(Sample)
    BY DEF Counts, TypeOK
  <2>3. \A k \in 1 .. Len(samples) : samples'[k].input = (k - 1) * FrameSize
    BY <2>1, <2>2, AppendedSeq DEF FramesInOrder
  <2>4. samples'[Len(samples) + 1].input = (Len(samples) + 1 - 1) * FrameSize
    BY <2>1, <2>2, AppendedSeq
  <2>5. DOMAIN samples' = 1 .. Len(samples) + 1
    BY <2>1, <2>2, AppendedSeq
  <2> QED BY <2>2, <2>3, <2>4, <2>5 DEF FramesInOrder
<1>2. CASE UNCHANGED samples
  BY <1>2 DEF FramesInOrder
<1> QED BY <1>1, <1>2, OnlyExecute DEF outputVars

\* References stay those of the first output of their input, and the flag
\* tells whether every output agreed with its own.
LEMMA ReferencesStep == TypeOK /\ Control /\ References /\ [Next]_vars => References'
<1> SUFFICES ASSUME TypeOK, Control, References, [Next]_vars PROVE References'
  OBVIOUS
<1>1. CASE Execute
  <2>1. PICK x \in Sample :
            /\ x.inputIndex \in 0 .. OutputSlots - 1
            /\ samples' = Append(samples, x)
            /\ referenceOutputs' = [referenceOutputs EXCEPT ![x.inputIndex] = IF @ = NoOutput THEN x.output ELSE @]
            /\ outputsConsistent' = (outputsConsistent /\ referenceOutputs[x.inputIndex] \in {NoOutput, x.output})
    BY <1>1, ExecuteAppends
  <2>2. samples \in Seq(Sample) /\ Len(samples) \in Nat
    BY DEF TypeOK
  <2>3. /\ \A k \in 1 .. Len(samples) : samples'[k] = samples[k]
        /\ samples'[Len(samples) + 1] = x
        /\ DOMAIN samples' = 1 .. Len(samples) + 1 /\ DOMAIN samples = 1 .. Len(samples)
    BY <2>1, <2>2, AppendedSeq
  <2>4. x.output # NoOutput
    BY StreamAssumption DEF Sample
  <2>5. /\ \A slot \in 0 .. OutputSlots - 1 :
            referenceOutputs[slot] # NoOutput => referenceOutputs'[slot] = referenceOutputs[slot]
        /\ \A slot \in 0 .. OutputSlots - 1 :
            slot # x.inputIndex => referenceOutputs'[slot] = referenceOutputs[slot]
        /\ referenceOutputs[x.inputIndex] = NoOutput => referenceOutputs'[x.inputIndex] = x.output
    BY <2>1 DEF TypeOK
  <2>6. ASSUME NEW k \in DOMAIN samples
        PROVE  /\ samples'[k] = samples[k]
               /\ samples'[k].inputIndex \in 0 .. OutputSlots - 1
               /\ referenceOutputs'[samples'[k].inputIndex] = referenceOutputs[samples[k].inputIndex]
               /\ referenceOutputs'[samples'[k].inputIndex] # NoOutput
    BY <2>3, <2>5, <2>6 DEF References
  <2>7. referenceOutputs'[x.inputIndex] # NoOutput
    BY <2>1, <2>4, <2>5
  <2>8. \A k \in DOMAIN samples' :
            /\ samples'[k].inputIndex \in 0 .. OutputSlots - 1
            /\ referenceOutputs'[samples'[k].inputIndex] # NoOutput
    <3> SUFFICES ASSUME NEW k \in DOMAIN samples'
                 PROVE  /\ samples'[k].inputIndex \in 0 .. OutputSlots - 1
                        /\ referenceOutputs'[samples'[k].inputIndex] # NoOutput
      OBVIOUS
    <3>1. CASE k \in DOMAIN samples
      BY <2>6, <3>1
    <3>2. CASE k = Len(samples) + 1
      BY <2>1, <2>3, <2>7, <3>2
    <3> QED BY <2>2, <2>3, <3>1, <3>2
  <2>9. ASSUME NEW slot \in 0 .. OutputSlots - 1, referenceOutputs'[slot] # NoOutput
        PROVE  \E k \in DOMAIN samples' :
                  samples'[k].inputIndex = slot /\ samples'[k].output = referenceOutputs'[slot]
    <3>1. CASE referenceOutputs[slot] # NoOutput
      <4>1. PICK k \in DOMAIN samples :
                samples[k].inputIndex = slot /\ samples[k].output = referenceOutputs[slot]
        BY <3>1 DEF References
      <4>2. k \in DOMAIN samples' /\ samples'[k] = samples[k]
        BY <2>2, <2>3
      <4> QED BY <2>5, <3>1, <4>1, <4>2
    <3>2. CASE referenceOutputs[slot] = NoOutput
      <4>1. slot = x.inputIndex /\ referenceOutputs'[slot] = x.output
        BY <2>5, <2>9, <3>2
      <4> QED BY <2>2, <2>3, <4>1
    <3> QED BY <3>1, <3>2
  <2>10. outputsConsistent' <=>
            \A k \in DOMAIN samples' : samples'[k].output = referenceOutputs'[samples'[k].inputIndex]
    <3>1. outputsConsistent <=>
            \A k \in DOMAIN samples : samples'[k].output = referenceOutputs'[samples'[k].inputIndex]
      BY <2>6 DEF References
    <3>2. referenceOutputs[x.inputIndex] \in {NoOutput, x.output} <=> x.output = referenceOutputs'[x.inputIndex]
      BY <2>1, <2>4, <2>5
    <3> DEFINE Agrees(k) == samples'[k].output = referenceOutputs'[samples'[k].inputIndex]
    <3>3. Agrees(Len(samples) + 1) <=> referenceOutputs[x.inputIndex] \in {NoOutput, x.output}
      BY <2>3, <3>2
    <3>4. (\A k \in DOMAIN samples' : Agrees(k)) <=> (\A k \in DOMAIN samples : Agrees(k)) /\ Agrees(Len(samples) + 1)
      <4> HIDE DEF Agrees
      <4> QED BY <2>2, <2>3
    <3> HIDE DEF Agrees
    <3>5. outputsConsistent <=> \A k \in DOMAIN samples : Agrees(k)
      BY <3>1 DEF Agrees
    <3>6. outputsConsistent' <=> \A k \in DOMAIN samples' : Agrees(k)
      BY <2>1, <3>3, <3>4, <3>5
    <3> QED BY <3>6 DEF Agrees
  <2> QED BY <2>8, <2>9, <2>10 DEF References
<1>2. CASE UNCHANGED outputVars
  BY <1>2 DEF References, outputVars
<1> QED BY <1>1, <1>2, OnlyExecute

\* The measured interval opens after the warm-up and closes after the last index.
LEMMA WindowStep == TypeOK /\ Control /\ Counts /\ Window /\ Verdict /\ [Next]_vars => Window'
<1> SUFFICES ASSUME TypeOK, Control, Counts, Window, Verdict, [Next]_vars PROVE Window'
  OBVIOUS
<1>0. /\ warmupIterations \in Nat /\ totalIterations \in Nat
      /\ consIndex \in Nat /\ Len(samples) \in Nat /\ readPos \in Nat
  BY StreamAssumption DEF TypeOK
<1> USE <1>0 DEF Window, Ending, Holding, queueVars, producerVars, consumerVars, outputVars, windowVars, sourceVars
<1>1. CASE Source
  BY <1>1 DEF Source
<1>2. CASE OpenInput
  BY <1>2 DEF OpenInput
<1>3. CASE ReadSome
  BY <1>3 DEF ReadSome
<1>4. CASE Prepare
  BY <1>4 DEF Prepare
<1>5. CASE ProducerFails
  BY <1>5 DEF ProducerFails
<1>6. CASE WaitWritable
  BY <1>6 DEF WaitWritable
<1>7. CASE Push
  BY <1>7 DEF Push
<1>8. CASE NotifyReadable
  BY <1>8 DEF NotifyReadable
<1>9. CASE Finish
  BY <1>9 DEF Finish
<1>10. CASE NotifyFinished
  BY <1>10 DEF NotifyFinished
<1>11. CASE StartProducer
  <2>1. consIndex = 0
    BY <1>11 DEF StartProducer, Control, Counts, Looping, TypeOK
  <2> QED BY <1>11, <2>1 DEF StartProducer
<1>12. CASE BeginIteration
  <2>1. Now # Never /\ Now.extracted = consIndex
    BY DEF Now, Never, Counts
  <2> QED BY <1>12, <2>1 DEF BeginIteration, FirstMeasured
<1>13. CASE EndLoop
  <2>1. Now.extracted = totalIterations
    BY <1>13 DEF Now, Counts, EndLoop
  <2> QED BY <1>13, <2>1 DEF EndLoop
<1>14. CASE WaitReadable
  BY <1>14 DEF WaitReadable
<1>15. CASE Pop
  BY <1>15 DEF Pop
<1>16. CASE NotifyWritable
  BY <1>16 DEF NotifyWritable
<1>17. CASE Execute
  BY <1>17 DEF Execute
<1>18. CASE ConsumerFails
  BY <1>18 DEF ConsumerFails, Fail, Verdict, Control
<1>19. CASE Stop
  BY <1>19 DEF Stop
<1>20. CASE NotifyStopped
  BY <1>20 DEF NotifyStopped
<1>21. CASE Join
  BY <1>21 DEF Join
<1>22. CASE SpuriousWakeup
  BY <1>22 DEF SpuriousWakeup
<1>23. CASE Returned \/ UNCHANGED vars
  BY <1>23 DEF Returned, vars
<1> QED
  BY <1>1, <1>2, <1>3, <1>4, <1>5, <1>6, <1>7, <1>8, <1>9, <1>10, <1>11, <1>12, <1>13, <1>14, <1>15,
     <1>16, <1>17, <1>18, <1>19, <1>20, <1>21, <1>22, <1>23 DEF Next, Producer, Consumer

\* What is returned agrees with what was executed.
LEMMA VerdictStep == TypeOK /\ Control /\ Counts /\ Verdict /\ [Next]_vars => Verdict'
<1> SUFFICES ASSUME TypeOK, Control, Counts, Verdict, [Next]_vars PROVE Verdict'
  OBVIOUS
<1>0. totalIterations \in Nat /\ consIndex \in 0 .. totalIterations /\ prodIndex \in 0 .. totalIterations
  BY StreamAssumption DEF TypeOK
<1> USE <1>0 DEF Verdict, Ending, queueVars, producerVars, consumerVars, outputVars, windowVars, sourceVars
<1>1. CASE Source
  BY <1>1 DEF Source
<1>2. CASE OpenInput
  BY <1>2 DEF OpenInput, Control, Holding, ProducerEnding
<1>3. CASE ReadSome
  BY <1>3 DEF ReadSome, Control, Holding, ProducerEnding
<1>4. CASE Prepare
  BY <1>4 DEF Prepare, Control, Holding, ProducerEnding
<1>5. CASE ProducerFails
  BY <1>5 DEF ProducerFails, Control, Holding, ProducerEnding
<1>6. CASE WaitWritable
  BY <1>6 DEF WaitWritable
<1>7. CASE Push
  BY <1>7 DEF Push, Control, Holding, ProducerEnding
<1>8. CASE NotifyReadable
  BY <1>8 DEF NotifyReadable, Control, Holding, ProducerEnding
<1>9. CASE Finish
  BY <1>9 DEF Finish, Control, Holding, ProducerEnding
<1>10. CASE NotifyFinished
  BY <1>10 DEF NotifyFinished, Control, Holding, ProducerEnding
<1>11. CASE StartProducer
  BY <1>11 DEF StartProducer, Control, Holding, ProducerEnding
<1>12. CASE BeginIteration
  BY <1>12 DEF BeginIteration
<1>13. CASE EndLoop
  BY <1>13 DEF EndLoop, Control, Holding, ProducerEnding
<1>14. CASE WaitReadable
  BY <1>14 DEF WaitReadable
<1>15. CASE Pop
  BY <1>15 DEF Pop
<1>16. CASE NotifyWritable
  BY <1>16 DEF NotifyWritable
<1>17. CASE Execute
  BY <1>17 DEF Execute, Control, Holding, ProducerEnding
<1>18. CASE ConsumerFails
  <2>1. CASE consPc = "start" /\ Fail("BadParameter", "tensor")
    BY <2>1 DEF Fail
  <2>2. CASE /\ consPc = "take" /\ frames = <<>> /\ finished
             /\ Fail(IF status = "Success" THEN "BadParameter" ELSE status, "queue")
    <3>1. prodIndex = consIndex /\ consIndex < totalIterations
      BY <2>2 DEF Counts, Looping, Control
    <3>2. status # "Success"
      BY <2>2, <3>1 DEF Control, ProducerEnding
    <3> QED BY <2>2, <3>1, <3>2 DEF Fail
  <2>3. CASE consPc = "execute" /\ (Fail("BadParameter", "size") \/ Fail("BadParameter", "execution"))
    <3>1. consIndex < totalIterations
      BY <2>3 DEF Control, Holding
    <3> QED BY <2>3, <3>1 DEF Fail
  <2> QED BY <1>18, <2>1, <2>2, <2>3 DEF ConsumerFails
<1>19. CASE Stop
  BY <1>19 DEF Stop
<1>20. CASE NotifyStopped
  BY <1>20 DEF NotifyStopped
<1>21. CASE Join
  BY <1>21 DEF Join, ProducerEnded
<1>22. CASE SpuriousWakeup
  BY <1>22 DEF SpuriousWakeup
<1>23. CASE Returned \/ UNCHANGED vars
  BY <1>23 DEF Returned, vars
<1> QED
  BY <1>1, <1>2, <1>3, <1>4, <1>5, <1>6, <1>7, <1>8, <1>9, <1>10, <1>11, <1>12, <1>13, <1>14, <1>15,
     <1>16, <1>17, <1>18, <1>19, <1>20, <1>21, <1>22, <1>23 DEF Next, Producer, Consumer

\* The whole invariant is inductive.
LEMMA InvStep == Inv /\ [Next]_vars => Inv'
  BY TypeStep, ControlStep, WakeupStep, CountsStep, PlacesStep, FramesStep, ReferencesStep, WindowStep,
     VerdictStep DEF Inv

LEMMA InvAlways == Spec => []Inv
  BY InvInit, InvStep, PTL DEF Spec
-----------------------------------------------------------------------------
(* What follows from the invariant in a single state.                       *)

\* The lookahead is bounded by what can be pushed before the next frame is taken.
LEMMA InvBoundsLookahead == Inv => BoundedLookahead
<1> SUFFICES ASSUME Inv PROVE BoundedLookahead
  OBVIOUS
<1>1. /\ FrameSize \in Nat /\ prodIndex \in Nat /\ consIndex \in Nat /\ readPos \in Nat
      /\ Len(frames) \in Nat /\ Len(frames) <= QueueLimit
  BY StreamAssumption DEF Inv, TypeOK, Counts
<1>2. ASSUME consPc \in {"loop", "take"} PROVE readPos <= (consIndex + QueueLimit + 1) * FrameSize
  <2>1. prodIndex + 1 <= consIndex + QueueLimit + 1
    BY <1>1, <1>2 DEF Inv, Counts, Looping, QueueLimit
  <2>2. (prodIndex + 1) * FrameSize <= (consIndex + QueueLimit + 1) * FrameSize
    <3>1. prodIndex + 1 \in Nat /\ consIndex + QueueLimit + 1 \in Nat
      BY <1>1 DEF QueueLimit
    <3> QED BY <1>1, <2>1, <3>1, FramesOrdered
  <2>3. readPos <= (prodIndex + 1) * FrameSize
    <3>1. (prodIndex + 1) * FrameSize = prodIndex * FrameSize + FrameSize
      BY <1>1, FramesAdd
    <3> QED BY <3>1 DEF Inv, Places
  <2>4. (prodIndex + 1) * FrameSize \in Nat /\ (consIndex + QueueLimit + 1) * FrameSize \in Nat
    BY <1>1 DEF QueueLimit
  <2> QED BY <1>1, <2>2, <2>3, <2>4
<1> QED BY <1>1, <1>2 DEF BoundedLookahead

\* All outputs agree with the reference of their input if and only if they
\* agree with one another: the reference is itself the output of a sample.
LEMMA InvIsConsistent == Inv => ConsistencyIsExact
<1> SUFFICES ASSUME Inv PROVE ConsistencyIsExact
  OBVIOUS
<1> DEFINE Slot(k) == samples[k].inputIndex
<1>1. ASSUME outputsConsistent, NEW i \in DOMAIN samples, NEW j \in DOMAIN samples, Slot(i) = Slot(j)
      PROVE  samples[i].output = samples[j].output
  BY <1>1 DEF Inv, References
<1>2. ASSUME \A i, j \in DOMAIN samples : Slot(i) = Slot(j) => samples[i].output = samples[j].output,
             NEW k \in DOMAIN samples
      PROVE  samples[k].output = referenceOutputs[Slot(k)]
  <2>1. PICK first \in DOMAIN samples :
            Slot(first) = Slot(k) /\ samples[first].output = referenceOutputs[Slot(k)]
    BY DEF Inv, References
  <2> QED BY <1>2, <2>1
<1>3. outputsConsistent <=> \A k \in DOMAIN samples : samples[k].output = referenceOutputs[Slot(k)]
  BY DEF Inv, References
<1> QED BY <1>1, <1>2, <1>3 DEF ConsistencyIsExact

LEMMA InvMeasures == Inv => MeasuredWindow
  BY DEF Inv, Window, MeasuredWindow, Ending

LEMMA InvReturns == Inv => ReturnIsSound
<1> SUFFICES ASSUME Inv, consPc = "returned" PROVE ReturnIsSound
  BY DEF ReturnIsSound
<1>1. Ending /\ Len(samples) = consIndex
  BY DEF Inv, Counts, Ending
<1> QED BY <1>1 DEF Inv, Verdict, ReturnIsSound

-----------------------------------------------------------------------------
(* The properties of every run.                                             *)

\* The state of queue, threads and profile has its types in every run.
THEOREM TypesAreKept == Spec => []TypeOK
<1>1. Inv => TypeOK
  BY DEF Inv
<1> QED BY <1>1, InvAlways, PTL

\* No thread of the stream sleeps through the notification it waits for.
THEOREM NoThreadOversleeps == Spec => []NoLostWakeup
<1>1. Inv => NoLostWakeup
  BY DEF Inv
<1> QED BY <1>1, InvAlways, PTL

\* Whatever fread returns, the executed inputs are the frames of the source in
\* their order: none is lost, doubled or torn.
THEOREM FramesArriveWhole == Spec => []FramesInOrder
<1>1. Inv => FramesInOrder
  BY DEF Inv
<1> QED BY <1>1, InvAlways, PTL

\* The producer never reads more than three frames ahead of the consumer.
THEOREM LookaheadIsBounded == Spec => []BoundedLookahead
  BY InvBoundsLookahead, InvAlways, PTL

\* The reported outputs_consistent is the agreement of all repetitions.
THEOREM ConsistencyIsReported == Spec => []ConsistencyIsExact
  BY InvIsConsistent, InvAlways, PTL

\* The interval of the reported throughput covers the measured frames only.
THEOREM WindowCoversMeasured == Spec => []MeasuredWindow
  BY InvMeasures, InvAlways, PTL

\* The call returns without its producer and with the error it met.
THEOREM ReturnIsAccounted == Spec => []ReturnIsSound
  BY InvReturns, InvAlways, PTL
-----------------------------------------------------------------------------
(* The pipelined run implements the sequential promise.                     *)

\* What FrameStream sees of the returned error.
Result == IF consPc = "returned" THEN e ELSE "running"

\* Its queue, its threads and their notifications stutter.
LEMMA InsidesStutter ==
    ASSUME [Next]_vars, ~Source, ~Execute, ~Join
    PROVE  UNCHANGED <<written, samples, outputsConsistent, Result>>
<1> USE DEF Result, queueVars, producerVars, consumerVars, outputVars, windowVars, sourceVars
<1>1. CASE Producer
  BY <1>1 DEF Producer, OpenInput, ReadSome, Prepare, ProducerFails, WaitWritable, Push, NotifyReadable,
     Finish, NotifyFinished
<1>2. CASE StartProducer \/ BeginIteration \/ EndLoop
  BY <1>2 DEF StartProducer, BeginIteration, EndLoop
<1>3. CASE WaitReadable \/ Pop \/ NotifyWritable
  BY <1>3 DEF WaitReadable, Pop, NotifyWritable
<1>4. CASE ConsumerFails \/ Stop \/ NotifyStopped
  BY <1>4 DEF ConsumerFails, Fail, Stop, NotifyStopped
<1>5. CASE SpuriousWakeup \/ Returned \/ UNCHANGED vars
  BY <1>5 DEF SpuriousWakeup, Returned, vars
<1> QED BY <1>1, <1>2, <1>3, <1>4, <1>5 DEF Next, Consumer

\* A frame that is executed was delivered whole.
LEMMA ExecutedWasDelivered == Inv /\ Execute => (Len(samples) + 1) * FrameSize <= written
<1> SUFFICES ASSUME Inv, Execute PROVE (Len(samples) + 1) * FrameSize <= written
  OBVIOUS
<1>1. /\ FrameSize \in Nat /\ prodIndex \in Nat /\ Len(samples) \in Nat /\ readPos \in Nat /\ written \in Nat
      /\ Len(frames) \in Nat
  BY StreamAssumption DEF Inv, TypeOK
<1>2. Len(samples) + 1 <= prodIndex
  BY <1>1 DEF Inv, Counts, Execute, Holding
<1>3. (Len(samples) + 1) * FrameSize <= prodIndex * FrameSize
  <2>1. Len(samples) + 1 \in Nat
    BY <1>1
  <2> QED BY <1>1, <1>2, <2>1, FramesOrdered
<1>4. prodIndex * FrameSize <= readPos /\ readPos <= written
  BY DEF Inv, Places
<1>5. prodIndex * FrameSize \in Int /\ (Len(samples) + 1) * FrameSize \in Int
  BY <1>1
<1> QED BY <1>1, <1>3, <1>4, <1>5

LEMMA PromiseStep == Inv /\ Inv' /\ [Next]_vars => [Promise!Next]_(Promise!vars)
<1> SUFFICES ASSUME Inv, Inv', [Next]_vars PROVE [Promise!Next]_(Promise!vars)
  OBVIOUS
<1> USE DEF queueVars, producerVars, consumerVars, outputVars, windowVars, sourceVars
<1>1. CASE Source
  BY <1>1 DEF Source, Promise!Next, Promise!Deliver, Promise!vars
<1>2. CASE Execute
  <2>1. Len(samples) = consIndex /\ Len(samples) < totalIterations
    BY <1>2 DEF Inv, Counts, Control, Holding, Execute
  <2>2. (Len(samples) + 1) * FrameSize <= written
    BY <1>2, ExecutedWasDelivered
  <2>3. \E output \in Outputs :
            samples' = Append(samples, [inputIndex |-> Promise!Slot(Len(samples)),
                                        input |-> Len(samples) * FrameSize, output |-> output])
    <3>1. frame.first = Len(samples) * FrameSize
      BY <1>2, <2>1 DEF Inv, Places, Holding, Execute
    <3>2. Promise!Slot(Len(samples)) = InputIndex(consIndex)
      BY <2>1 DEF Promise!Slot, InputIndex
    <3> QED BY <1>2, <3>1, <3>2 DEF Execute
  <2>4. outputsConsistent' = Promise!Agree(samples')
    <3>1. ConsistencyIsExact'
      BY InvIsConsistent, PTL
    <3>2. outputsConsistent' \in BOOLEAN
      BY DEF Inv, TypeOK
    <3> QED BY <3>1, <3>2 DEF ConsistencyIsExact, Promise!Agree
  <2>5. consPc = "execute" /\ consPc' = "loop" /\ UNCHANGED written
    BY <1>2 DEF Execute
  <2>6. Promise!ExecuteNext
    BY <2>1, <2>2, <2>3, <2>4, <2>5 DEF Promise!ExecuteNext
  <2> QED BY <2>6 DEF Promise!Next
<1>3. CASE Join
  <2>1. /\ consPc = "join" /\ consPc' = "returned" /\ UNCHANGED <<e, written, samples, outputsConsistent>>
    BY <1>3 DEF Join
  <2>2. Len(samples) = consIndex /\ consIndex \in 0 .. totalIterations /\ e \in Errors
    BY DEF Inv, Counts, TypeOK
  <2>3. CASE e = "Success"
    <3>1. Len(samples) = totalIterations
      BY <2>1, <2>2, <2>3 DEF Inv, Verdict, Ending
    <3>2. Promise!Succeed
      BY <2>1, <2>3, <3>1 DEF Promise!Succeed
    <3> QED BY <3>2 DEF Promise!Next
  <2>4. CASE e # "Success"
    <3>1. e \in {"BadParameter", "NotSupported"}
      BY <2>2, <2>4 DEF Errors
    <3>2. Len(samples) <= totalIterations
      BY <2>2, StreamAssumption
    <3>3. Promise!GiveUp
      BY <2>1, <3>1, <3>2 DEF Promise!GiveUp
    <3> QED BY <3>3 DEF Promise!Next
  <2> QED BY <2>3, <2>4
<1>4. CASE ~Source /\ ~Execute /\ ~Join
  BY <1>4, InsidesStutter DEF Result, Promise!vars
<1> QED BY <1>1, <1>2, <1>3, <1>4

\* Queue, threads and notifications are invisible: a pipelined run executes
\* what a sequential reader of the source would, and returns as it would.
THEOREM PipelineImplementsFrameStream == Spec => PipelineIsSequential
<1>1. Init => Promise!Init
  BY DEF Init, Promise!Init
<1> QED BY <1>1, PromiseStep, InvAlways, PTL DEF Spec, PipelineIsSequential, Promise!Spec
=============================================================================
