--------------------------- MODULE StreamPipeline ---------------------------
(***************************************************************************)
(* The pipelined raw-frame input of nvdla_runtime (patch 0019): a producer *)
(* thread reads and converts frames of a file or FIFO and a consumer, the  *)
(* main thread, executes them; a queue of two frames, one mutex and two    *)
(* condition variables join them.                                          *)
(*                                                                         *)
(* A critical section of queue.mutex is one action; a notification sent    *)
(* after the mutex was released is another.  waiting holds the threads     *)
(* asleep on a condition variable: only the producer waits on writable and *)
(* only the consumer on readable.  A frame is known by the offset of its   *)
(* first byte in the source.  The steps of the consumer between two        *)
(* critical sections touch nothing that is shared and are one action.      *)
(***************************************************************************)
EXTENDS Integers, Sequences

CONSTANTS
    FrameSize,        \* bytes of a raw frame: w * h * c of the input tensor
    totalIterations,  \* frames to execute, as runTest computed it
    warmupIterations,
    streamPeriod,     \* 0: no two frames of the source are the same
    SourceBytes,      \* bytes the writer of the source may deliver
    Outputs,          \* the output images the accelerator may produce
    NoOutput          \* a reference output that is still empty

ASSUME StreamAssumption ==
    /\ FrameSize \in Nat \ {0}
    /\ {totalIterations, warmupIterations, streamPeriod, SourceBytes} \subseteq Nat
    /\ NoOutput \notin Outputs

QueueLimit == 2

VARIABLES
    frames, stopped, finished, status,              \* StreamQueue
    waiting,                                        \* asleep on a condition variable
    prodPc, prodIndex, prodStatus, got, held,       \* produceStreamFrames
    consPc, consIndex, frame, e, errorSite,         \* runStreamIterations
    samples, referenceOutputs, outputsConsistent,   \* i->profile and the outputs of runTest
    measuredStart, streamPipeline,
    writer, written, readPos                        \* the source

queueVars    == <<frames, stopped, finished, status, waiting>>
producerVars == <<prodPc, prodIndex, prodStatus, got, held>>
consumerVars == <<consPc, consIndex, frame, e, errorSite>>
outputVars   == <<samples, referenceOutputs, outputsConsistent>>
windowVars   == <<measuredStart, streamPipeline>>
sourceVars   == <<writer, written, readPos>>
vars == <<queueVars, producerVars, consumerVars, outputVars, windowVars, sourceVars>>

Frame   == [index : Nat, first : Nat, fits : BOOLEAN]
NoFrame == [index |-> 0, first |-> 0, fits |-> FALSE]
Errors  == {"Success", "BadParameter", "NotSupported"}

\* runTest sizes referenceOutputs: one slot for each frame of the period.
OutputSlots == IF streamPeriod = 0 THEN totalIterations ELSE streamPeriod
InputIndexFromOne(index) == IF streamPeriod = 0 THEN index ELSE (index + 1) % streamPeriod
InputIndex(index) == IF streamPeriod = 0 THEN index ELSE index % streamPeriod

\* An instant, told by the bytes read and the outputs extracted until then.
Never == [read |-> -1, extracted |-> -1]
Now   == [read |-> readPos, extracted |-> Len(samples)]

\* notify_one and notify_all are alike: each condition has a single waiter.
NotifiesAtOne(thread) == waiting' = IF Len(frames) = 1 THEN waiting \ {thread} ELSE waiting
Notify(thread) == waiting' = waiting \ {thread}

Init ==
    /\ frames = <<>> /\ stopped = FALSE /\ finished = FALSE /\ status = "Success"
    /\ waiting = {}
    /\ prodPc = "unborn" /\ prodIndex = 0 /\ prodStatus = "Success" /\ got = 0 /\ held = NoFrame
    /\ consPc = "start" /\ consIndex = 0 /\ frame = NoFrame /\ e = "Success" /\ errorSite = "none"
    /\ samples = <<>> /\ outputsConsistent = TRUE
    /\ referenceOutputs = [slot \in 0 .. OutputSlots - 1 |-> NoOutput]
    /\ measuredStart = Never /\ streamPipeline = <<>>
    /\ writer = "absent" /\ written = 0 /\ readPos = 0

-----------------------------------------------------------------------------
(* The source: the writer of a FIFO opens it, writes bytes and closes it.  *)

Source ==
    /\ \/ writer = "absent" /\ writer' = "open" /\ UNCHANGED written
       \/ writer = "open" /\ written < SourceBytes /\ written' = written + 1 /\ UNCHANGED writer
       \/ writer = "open" /\ writer' = "closed" /\ UNCHANGED written
    /\ UNCHANGED <<readPos, queueVars, producerVars, consumerVars, outputVars, windowVars>>

-----------------------------------------------------------------------------
(* The producer thread: produceStreamFrames and readFrame.                 *)

\* fopen of a FIFO returns once a writer has it open.
OpenInput ==
    /\ prodPc = "open" /\ writer # "absent"
    /\ prodPc' = IF totalIterations = 0 THEN "finish" ELSE "read"
    /\ UNCHANGED <<prodIndex, prodStatus, got, held, queueVars, consumerVars, outputVars, windowVars, sourceVars>>

Missing == FrameSize - got
FrameRead(count) == count = FrameSize

\* One fread of the loop in readFrame: it returns any part of what is missing.
ReadSome ==
    /\ prodPc = "read"
    /\ \E count \in 1 .. Missing :
        /\ readPos + count <= written
        /\ readPos' = readPos + count
        /\ got' = got + count
    /\ prodPc' = IF FrameRead(got') THEN "prepare" ELSE "read"
    /\ UNCHANGED <<prodIndex, prodStatus, held, queueVars, consumerVars, outputVars, windowVars, writer, written>>

\* prepareRawFrame; its image may not have the size the consumer will check.
Prepare ==
    /\ prodPc = "prepare"
    /\ \E fits \in BOOLEAN : held' = [index |-> prodIndex, first |-> readPos - got, fits |-> fits]
    /\ got' = 0 /\ prodPc' = "push"
    /\ UNCHANGED <<prodIndex, prodStatus, queueVars, consumerVars, outputVars, windowVars, sourceVars>>

\* fopen fails, the source ends before the frame is whole, or prepareRawFrame
\* does not support the tensor.
ProducerFails ==
    /\ \/ prodPc = "open" /\ prodStatus' = "BadParameter"
       \/ prodPc = "read" /\ writer = "closed" /\ readPos = written /\ prodStatus' = "BadParameter"
       \/ prodPc = "prepare" /\ prodStatus' = "NotSupported"
    /\ prodPc' = "finish"
    /\ UNCHANGED <<prodIndex, got, held, queueVars, consumerVars, outputVars, windowVars, sourceVars>>

WritableWhenFull == Len(frames) <= QueueLimit \/ stopped
Writable == Len(frames) < QueueLimit \/ stopped

WaitWritable ==
    /\ prodPc = "push" /\ "producer" \notin waiting /\ ~Writable
    /\ waiting' = waiting \cup {"producer"}
    /\ UNCHANGED <<frames, stopped, finished, status, producerVars, consumerVars, outputVars, windowVars, sourceVars>>

\* Past the wait: a stopped producer drops the frame, even if there is room.
Push ==
    /\ prodPc = "push" /\ "producer" \notin waiting /\ Writable
    /\ IF stopped
       THEN prodPc' = "finish" /\ UNCHANGED <<frames, prodIndex>>
       ELSE prodPc' = "notify" /\ frames' = Append(frames, held) /\ prodIndex' = prodIndex + 1
    /\ held' = NoFrame
    /\ UNCHANGED <<stopped, finished, status, waiting, prodStatus, got, consumerVars, outputVars, windowVars, sourceVars>>

NotifyReadable ==
    /\ prodPc = "notify" /\ Notify("consumer")
    /\ prodPc' = IF prodIndex < totalIterations THEN "read" ELSE "finish"
    /\ UNCHANGED <<frames, stopped, finished, status, prodIndex, prodStatus, got, held, consumerVars, outputVars, windowVars, sourceVars>>

Finish ==
    /\ prodPc = "finish" /\ prodPc' = "notifyAll"
    /\ status' = prodStatus /\ finished' = TRUE
    /\ UNCHANGED <<frames, stopped, waiting, prodIndex, prodStatus, got, held, consumerVars, outputVars, windowVars, sourceVars>>

NotifyFinished ==
    /\ prodPc = "notifyAll" /\ prodPc' = "done"
    /\ Notify("consumer")
    /\ UNCHANGED <<frames, stopped, finished, status, prodIndex, prodStatus, got, held, consumerVars, outputVars, windowVars, sourceVars>>

Producer ==
    \/ OpenInput \/ ReadSome \/ Prepare \/ ProducerFails \/ WaitWritable \/ Push
    \/ NotifyReadable \/ Finish \/ NotifyFinished

-----------------------------------------------------------------------------
(* The consumer: runStreamIterations on the main thread.                   *)

\* ORIGINATE_ERROR_FAIL and PROPAGATE_ERROR_FAIL: record the error, goto fail.
Fail(code, site) ==
    /\ e' = code /\ errorSite' = site /\ consPc' = "stop"
    /\ UNCHANGED <<consIndex, frame, queueVars, producerVars, outputVars, windowVars, sourceVars>>

\* The producer is not started when getInputTensorDesc fails.
StartProducer ==
    /\ consPc = "start" /\ consPc' = "loop" /\ prodPc' = "open"
    /\ UNCHANGED <<prodIndex, prodStatus, got, held, consIndex, frame, e, errorSite, queueVars, outputVars, windowVars, sourceVars>>

MeasuredOrLater(index) == index >= warmupIterations
FirstMeasured(index) == index = warmupIterations

\* The measured interval opens at the first measured index.
BeginIteration ==
    /\ consPc = "loop" /\ consIndex < totalIterations /\ consPc' = "take"
    /\ measuredStart' = IF FirstMeasured(consIndex) THEN Now ELSE measuredStart
    /\ UNCHANGED <<streamPipeline, consIndex, frame, e, errorSite, queueVars, producerVars, outputVars, sourceVars>>

\* It closes after the last index, if it was opened.
EndLoop ==
    /\ consPc = "loop" /\ consIndex = totalIterations /\ consPc' = "stop"
    /\ streamPipeline' = IF measuredStart # Never THEN <<measuredStart, Now>> ELSE <<>>
    /\ UNCHANGED <<measuredStart, consIndex, frame, e, errorSite, queueVars, producerVars, outputVars, sourceVars>>

Readable == frames # <<>> \/ finished

WaitReadable ==
    /\ consPc = "take" /\ "consumer" \notin waiting /\ ~Readable
    /\ waiting' = waiting \cup {"consumer"}
    /\ UNCHANGED <<frames, stopped, finished, status, producerVars, consumerVars, outputVars, windowVars, sourceVars>>

Pop ==
    /\ consPc = "take" /\ "consumer" \notin waiting /\ frames # <<>>
    /\ frame' = Head(frames) /\ frames' = Tail(frames)
    /\ consPc' = "notify"
    /\ UNCHANGED <<stopped, finished, status, waiting, consIndex, e, errorSite, producerVars, outputVars, windowVars, sourceVars>>

NotifyWritable ==
    /\ consPc = "notify" /\ consPc' = "execute"
    /\ Notify("producer")
    /\ UNCHANGED <<frames, stopped, finished, status, consIndex, frame, e, errorSite, producerVars, outputVars, windowVars, sourceVars>>

StillConsistent(reference, output) == outputsConsistent /\ reference \in {NoOutput, output}

\* The frame is copied to the bound buffer, submit runs it, and the extracted
\* output is compared with the first one of the same input, or becomes it.
Execute ==
    /\ consPc = "execute" /\ frame.fits
    /\ LET slot == InputIndex(consIndex)
           reference == referenceOutputs[slot]
       IN \E output \in Outputs :
           /\ referenceOutputs' = [referenceOutputs EXCEPT ![slot] = IF @ = NoOutput THEN output ELSE @]
           /\ outputsConsistent' = StillConsistent(reference, output)
           /\ samples' = Append(samples, [inputIndex |-> slot, input |-> frame.first, output |-> output])
    /\ consIndex' = consIndex + 1 /\ consPc' = "loop"
    /\ UNCHANGED <<frame, e, errorSite, queueVars, producerVars, windowVars, sourceVars>>

\* The error paths: the tensor description, an ended stream, a frame of the
\* wrong size, submit and the extraction of its output.
ConsumerFails ==
    \/ consPc = "start" /\ Fail("BadParameter", "tensor")
    \/ /\ consPc = "take" /\ "consumer" \notin waiting /\ frames = <<>> /\ finished
       /\ Fail(IF status = "Success" THEN "BadParameter" ELSE status, "queue")
    \/ consPc = "execute" /\ ~frame.fits /\ Fail("BadParameter", "size")
    \/ consPc = "execute" /\ frame.fits /\ Fail("BadParameter", "execution")

\* The fail label, which a complete run reaches too.
Stop ==
    /\ consPc = "stop" /\ consPc' = "wakeAll" /\ stopped' = TRUE
    /\ UNCHANGED <<frames, finished, status, waiting, consIndex, frame, e, errorSite, producerVars, outputVars, windowVars, sourceVars>>

NotifyStopped ==
    /\ consPc = "wakeAll" /\ consPc' = "join"
    /\ Notify("producer")
    /\ UNCHANGED <<frames, stopped, finished, status, consIndex, frame, e, errorSite, producerVars, outputVars, windowVars, sourceVars>>

ProducerFinished == prodPc = "unborn" \/ finished
ProducerEnded == prodPc \in {"unborn", "done"}

Join ==
    /\ consPc = "join" /\ ProducerEnded /\ consPc' = "returned"
    /\ UNCHANGED <<consIndex, frame, e, errorSite, queueVars, producerVars, outputVars, windowVars, sourceVars>>

Consumer ==
    \/ StartProducer \/ BeginIteration \/ EndLoop \/ WaitReadable \/ Pop \/ NotifyWritable
    \/ Execute \/ ConsumerFails \/ Stop \/ NotifyStopped \/ Join

\* A condition variable may wake a thread that nobody notified.
SpuriousWakeup ==
    /\ \E thread \in waiting : waiting' = waiting \ {thread}
    /\ UNCHANGED <<frames, stopped, finished, status, producerVars, consumerVars, outputVars, windowVars, sourceVars>>

\* The call has returned; without this step its end would be a deadlock.
Returned == consPc = "returned" /\ UNCHANGED vars

Next == Source \/ Producer \/ Consumer \/ SpuriousWakeup \/ Returned

Spec == Init /\ [][Next]_vars

\* Scheduling gives every thread its turns, and an ended writer is noticed.
Fairness == WF_vars(Producer) /\ WF_vars(Consumer)

\* A source that goes on until it has delivered everything, then closes.
LiveSource ==
    /\ WF_vars(Source /\ writer' = "open")
    /\ WF_vars(Source /\ written = SourceBytes /\ writer' = "closed")

FairSpec == Spec /\ Fairness /\ LiveSource

-----------------------------------------------------------------------------
ProdPcs == {"unborn", "open", "read", "prepare", "push", "notify", "finish", "notifyAll", "done"}
ConsPcs == {"start", "loop", "take", "notify", "execute", "stop", "wakeAll", "join", "returned"}
Sites   == {"none", "tensor", "queue", "size", "execution"}
Sample  == [inputIndex : Nat, input : Nat, output : Outputs]
Instant == [read : Int, extracted : Int]

\* The types of the state of both threads, of the queue and of the profile.
TypeOK ==
    /\ frames \in Seq(Frame) /\ {stopped, finished} \subseteq BOOLEAN /\ status \in Errors
    /\ waiting \subseteq {"producer", "consumer"}
    /\ prodPc \in ProdPcs /\ prodIndex \in 0 .. totalIterations /\ prodStatus \in Errors
    /\ got \in 0 .. FrameSize /\ held \in Frame
    /\ consPc \in ConsPcs /\ consIndex \in 0 .. totalIterations /\ frame \in Frame
    /\ e \in Errors /\ errorSite \in Sites
    /\ samples \in Seq(Sample) /\ outputsConsistent \in BOOLEAN
    /\ referenceOutputs \in [0 .. OutputSlots - 1 -> Outputs \cup {NoOutput}]
    /\ measuredStart \in Instant /\ streamPipeline \in Seq(Instant)
    /\ writer \in {"absent", "open", "closed"} /\ written \in 0 .. SourceBytes /\ readPos \in Nat

\* No wakeup is lost: a thread sleeps un-notified only while its predicate is
\* false, or while the thread that made it true still has to notify it.
NoLostWakeup ==
    /\ "producer" \in waiting /\ Writable => consPc \in {"notify", "wakeAll"}
    /\ "consumer" \in waiting /\ Readable => prodPc \in {"notify", "notifyAll"}

\* Every executed input is the next whole frame of the source, whatever fread
\* returned and however the threads interleaved: none lost, doubled or torn.
FramesInOrder == \A k \in DOMAIN samples : samples[k].input = (k - 1) * FrameSize

\* The queue holds at most two frames, and the producer is never more than
\* three frames ahead of the frame that the consumer has taken.
BoundedLookahead ==
    /\ Len(frames) <= QueueLimit
    /\ consPc \in {"loop", "take"} => readPos <= (consIndex + QueueLimit + 1) * FrameSize

\* outputs_consistent is true exactly when every repetition of an input gave
\* the same output as all the others, not only as the one before it.
ConsistencyIsExact ==
    outputsConsistent <=>
        \A i, j \in DOMAIN samples :
            samples[i].inputIndex = samples[j].inputIndex => samples[i].output = samples[j].output

\* The interval that throughput is computed from opens when exactly the
\* warm-ups have been extracted and closes after the last measured output.
MeasuredWindow ==
    /\ measuredStart # Never => measuredStart.extracted = warmupIterations
    /\ streamPipeline # <<>> =>
        /\ streamPipeline[1] = measuredStart
        /\ streamPipeline[2].extracted = totalIterations
    /\ consPc = "returned" /\ e = "Success" /\ warmupIterations < totalIterations => streamPipeline # <<>>

\* When the call returns its queue goes out of scope: the producer is gone.
\* Success means that every frame was executed, and an ended stream is only
\* reported once all the frames the producer had queued were executed.
ReturnIsSound ==
    consPc = "returned" =>
        /\ prodPc \in {"unborn", "done"}
        /\ IF e = "Success" THEN Len(samples) = totalIterations
           ELSE errorSite = "tensor" \/ Len(samples) < totalIterations
        /\ errorSite = "queue" => Len(samples) = prodIndex /\ e = status

\* The pipelined run is a run of the sequential promise of FrameStream.
Promise == INSTANCE FrameStream WITH
    delivered  <- written,
    executed   <- samples,
    consistent <- outputsConsistent,
    result     <- IF consPc = "returned" THEN e ELSE "running"

PipelineIsSequential == Promise!Spec

\* With a source that goes on, every call returns: no thread waits for ever.
AlwaysReturns == <>(consPc = "returned")
=============================================================================
