--------------------------- MODULE LogQueueProofs ---------------------------
(***************************************************************************)
(* Safety of the log queue for any producers, any numbers of requests and  *)
(* starts, and any size: the queue in use is served, what is dropped is an *)
(* access, a request has one fate, and until a second start the log is in  *)
(* the order of the requests.                                              *)
(***************************************************************************)
EXTENDS LogQueue, SequenceTheorems, TLAPS

-----------------------------------------------------------------------------
(* The states the system can be in *)

Sending == {"check", "start", "choose", "send", "block", "retry"}
Switching == {"on", "flush", "off", "stop", "drain", "drained", "closed", "unlocked"}
Producing == [at : {"idle", "panicked"} \cup Sending \cup Switching, n : Nat,
              on : 0..MaxStarts, constrained : BOOLEAN]
Channel == [buffer : Seq(Request), closed : BOOLEAN]
Working == [at : {"none", "read", "stuck", "receive", "process"}, on : 0..MaxStarts,
            holds : Seq(Request)]

TypeOK ==
  /\ loggingEnabled \in BOOLEAN /\ logWorkerRunning \in BOOLEAN /\ locked \in BOOLEAN
  /\ starts \in 0..MaxStarts /\ logQueue \in 0..starts
  /\ channels \in [Channels -> Channel]
  /\ workers \in [Channels -> Working]
  /\ producers \in [Producers -> Producing]
  /\ written \in Seq(Request)
  /\ dropped \subseteq Request /\ discarded \subseteq Request

(* A producer that is sending has a request, of those it may make. *)
Numbered ==
  \A p \in Producers :
    /\ producers[p].n <= MaxRequests[p]
    /\ producers[p].at \in Sending => producers[p].n >= 1

(* Channels and workers that were not made yet are not in use. *)
Unmade ==
  /\ \A p \in Producers : producers[p].on <= starts
  /\ \A w \in Channels : /\ workers[w].on <= starts
                         /\ w > starts => workers[w].at = "none"
  /\ \A q \in Channels : q > starts => channels[q].buffer = <<>>

(* A worker that receives has a channel, and one that processes a request. *)
Occupied ==
  \A w \in Channels :
    /\ workers[w].at = "receive" => workers[w].on >= 1
    /\ workers[w].at = "process" => Len(workers[w].holds) = 1
    /\ workers[w].at # "process" => workers[w].holds = <<>>

Bounded == \A q \in Channels : Len(channels[q].buffer) <= QueueSize

Shape == TypeOK /\ Numbered /\ Unmade /\ Occupied /\ Bounded

LEMMA RequestFields ==
  /\ \A p \in Producers : \A n \in 1..MaxRequests[p] : [by |-> p, n |-> n] \in Request
  /\ \A r \in Request : /\ r.by \in Producers /\ r.n \in Nat \ {0} /\ r.n <= MaxRequests[r.by]
                        /\ r = [by |-> r.by, n |-> r.n]
  BY LogQueueAssumption DEF Request

LEMMA CurrentIsRequest ==
  ASSUME TypeOK, Numbered, NEW p \in Producers, producers[p].at \in Sending
  PROVE  Current(p) \in Request
<1>1. producers[p].n \in 1..MaxRequests[p]
  BY LogQueueAssumption DEF TypeOK, Numbered, Producing
<1> QED BY <1>1, RequestFields DEF Current

LEMMA InitShape == Init => Shape
<1> SUFFICES ASSUME Init PROVE Shape
  OBVIOUS
<1>1. <<>> \in Seq(Request) /\ Len(<<>>) = 0
  BY EmptySeq
<1>2. /\ channels \in [Channels -> Channel] /\ workers \in [Channels -> Working]
      /\ producers \in [Producers -> Producing]
  BY <1>1, LogQueueAssumption DEF Init, Channel, Working, Producing, Nil
<1>3. TypeOK
  <2>1. starts \in 0..MaxStarts /\ logQueue \in 0..starts
    BY LogQueueAssumption DEF Init, Nil
  <2>2. written \in Seq(Request) /\ dropped \subseteq Request /\ discarded \subseteq Request
    BY <1>1 DEF Init
  <2> QED BY <1>2, <2>1, <2>2 DEF Init, TypeOK
<1>4. Numbered /\ Unmade /\ Occupied
  BY LogQueueAssumption DEF Init, Numbered, Unmade, Occupied, Sending, Nil, Channels
<1>5. Bounded
  BY <1>1, LogQueueAssumption DEF Init, Bounded
<1> QED
  BY <1>3, <1>4, <1>5 DEF Shape

(* Where a producer goes next leaves its request alone. *)
LEMMA GoesShape ==
  ASSUME Shape, NEW p \in Producers, NEW at \in {"idle", "panicked"} \cup Sending \cup Switching,
         Goes(p, at), at \in Sending => At(p, "idle") \/ producers[p].at \in Sending,
         UNCHANGED starts, at \in Sending => producers[p].n >= 1
  PROVE  producers' \in [Producers -> Producing] /\ Numbered' /\ \A x \in Producers : producers'[x].on <= starts'
<1>1. producers' \in [Producers -> Producing]
  BY DEF Shape, TypeOK, Goes, Producing
<1>2. Numbered'
  BY DEF Shape, TypeOK, Goes, Producing, Numbered
<1> QED
  BY <1>1, <1>2 DEF Shape, TypeOK, Unmade, Goes, Producing

(* A producer that evaluates logQueue keeps its request. *)
LEMMA TargetShape ==
  ASSUME Shape, NEW p \in Producers, NEW at \in Sending, NEW c \in BOOLEAN, producers[p].at \in Sending,
         producers' = [producers EXCEPT ![p].at = at, ![p].on = logQueue, ![p].constrained = c]
  PROVE  /\ producers' \in [Producers -> Producing] /\ Numbered'
         /\ \A x \in Producers : producers'[x].on <= starts
<1>1. logQueue \in 0..MaxStarts /\ logQueue <= starts
  BY LogQueueAssumption DEF Shape, TypeOK
<1>2. producers' \in [Producers -> Producing]
  BY <1>1 DEF Shape, TypeOK, Producing
<1>3. /\ \A x \in Producers \ {p} : producers'[x] = producers[x]
      /\ producers'[p].on = logQueue /\ producers'[p].n = producers[p].n
  BY DEF Shape, TypeOK, Producing
<1>4. Numbered'
  BY <1>3 DEF Shape, Numbered
<1> QED BY <1>1, <1>2, <1>3, <1>4 DEF Shape, Unmade

LEMMA StartShape ==
  ASSUME Shape, StartLogWorker
  PROVE  /\ logWorkerRunning' \in BOOLEAN /\ starts' \in 0..MaxStarts /\ starts <= starts'
         /\ logQueue' \in 0..starts' /\ workers' \in [Channels -> Working] /\ Occupied'
         /\ \A w \in Channels : /\ workers'[w].on <= starts' /\ workers'[w].holds = workers[w].holds
                                /\ w > starts' => workers'[w].at = "none"
<1>1. CASE UNCHANGED <<logWorkerRunning, logQueue, starts, workers>>
  BY <1>1, LogQueueAssumption DEF Shape, TypeOK, Unmade, Occupied
<1>2. CASE ~logWorkerRunning
  <2>1. /\ starts + 1 \in Channels /\ starts + 1 \in Nat /\ starts' = starts + 1
        /\ logQueue' = starts + 1 /\ logWorkerRunning' = TRUE
        /\ workers' = [workers EXCEPT ![starts + 1].at = "read"]
    BY <1>2, LogQueueAssumption DEF StartLogWorker, Channels, Shape, TypeOK
  <2>2. workers' \in [Channels -> Working]
    BY <2>1 DEF Shape, TypeOK, Working
  <2>3. /\ \A w \in Channels : workers'[w].on = workers[w].on /\ workers'[w].holds = workers[w].holds
        /\ \A w \in Channels \ {starts + 1} : workers'[w].at = workers[w].at
        /\ workers'[starts + 1].at = "read"
    BY <2>1 DEF Shape, TypeOK, Working
  <2>4. workers[starts + 1].at = "none"
    BY <2>1 DEF Shape, TypeOK, Unmade
  <2>5. Occupied'
    BY <2>3, <2>4 DEF Shape, Occupied
  <2>6. \A w \in Channels : workers'[w].on <= starts'
    BY <2>1, <2>3, LogQueueAssumption DEF Shape, TypeOK, Unmade, Working
  <2>7. \A w \in Channels : w > starts' => workers'[w].at = "none"
    BY <2>1, <2>3, LogQueueAssumption DEF Shape, TypeOK, Unmade, Channels
  <2> QED BY <2>1, <2>2, <2>3, <2>5, <2>6, <2>7, LogQueueAssumption DEF Shape, TypeOK, Channels
<1> QED BY <1>1, <1>2 DEF StartLogWorker

LEMMA SendShape ==
  ASSUME Shape, NEW p \in Producers, NEW at \in {"send", "block", "retry"}, Send(p, at)
  PROVE  /\ producers[p].on \in 1..starts /\ Current(p) \in Request
         /\ channels' = [channels EXCEPT ![producers[p].on].buffer = Append(@, Current(p))]
         /\ channels' \in [Channels -> Channel] /\ Bounded'
         /\ \A q \in Channels : q > starts => channels'[q].buffer = <<>>
<1>1. Current(p) \in Request
  BY CurrentIsRequest DEF Send, At, Sending, Shape
<1> DEFINE q == producers[p].on
<1>2. /\ q \in 1..starts /\ q \in Channels /\ Len(channels[q].buffer) < QueueSize
      /\ channels' = [channels EXCEPT ![q].buffer = Append(@, Current(p))]
  BY LogQueueAssumption DEF Send, HasSpace, Shape, TypeOK, Unmade, Producing, Nil, Channels
<1>3. /\ channels[q].buffer \in Seq(Request)
      /\ Append(channels[q].buffer, Current(p)) \in Seq(Request)
      /\ Len(Append(channels[q].buffer, Current(p))) = Len(channels[q].buffer) + 1
      /\ Len(channels[q].buffer) \in Nat
  BY <1>1, <1>2, AppendProperties, LenProperties DEF Shape, TypeOK, Channel
<1> HIDE DEF q
<1>4. channels' \in [Channels -> Channel]
  BY <1>2, <1>3 DEF Shape, TypeOK, Channel
<1>5. /\ \A x \in Channels \ {q} : channels'[x] = channels[x]
      /\ channels'[q].buffer = Append(channels[q].buffer, Current(p))
  BY <1>2 DEF Shape, TypeOK, Channel
<1>6. Bounded'
  BY <1>2, <1>3, <1>5, LogQueueAssumption DEF Shape, Bounded
<1>7. \A x \in Channels : x > starts => channels'[x].buffer = <<>>
  BY <1>2, <1>5, LogQueueAssumption DEF Shape, TypeOK, Unmade, Channels
<1> QED BY <1>1, <1>2, <1>4, <1>6, <1>7 DEF q

(* What a step changes of the workers and of their channels. *)
LEMMA ReceiveShape ==
  ASSUME Shape, NEW w \in Channels, Receive(w)
  PROVE  /\ channels' \in [Channels -> Channel] /\ workers' \in [Channels -> Working]
         /\ Bounded' /\ Occupied'
         /\ \A x \in Channels : /\ workers'[x].on = workers[x].on
                                /\ x > starts => workers'[x].at = "none"
         /\ \A q \in Channels : q > starts => channels'[q].buffer = <<>>
<1> DEFINE q == workers[w].on  b == channels[q].buffer
<1>1. /\ workers[w].at = "receive" /\ q \in Channels /\ q \in 1..starts /\ w <= starts
      /\ b \in Seq(Request) /\ Len(b) \in Nat /\ Len(b) <= QueueSize
  BY LogQueueAssumption, LenProperties
  DEF Receive, Shape, TypeOK, Occupied, Unmade, Working, Channel, Channels, Bounded
<1>2. CASE /\ b # <<>>
           /\ workers' = [workers EXCEPT ![w].at = "process", ![w].holds = <<Head(b)>>]
           /\ channels' = [channels EXCEPT ![q].buffer = Tail(b)]
  <2>1. /\ Head(b) \in Request /\ <<Head(b)>> \in Seq(Request) /\ Len(<<Head(b)>>) = 1
        /\ Tail(b) \in Seq(Request) /\ Len(Tail(b)) = Len(b) - 1
    BY <1>1, <1>2, HeadTailProperties
  <2> HIDE DEF q, b
  <2>2. channels' \in [Channels -> Channel]
    BY <1>1, <1>2, <2>1 DEF Shape, TypeOK, Channel
  <2>3. workers' \in [Channels -> Working]
    BY <1>1, <1>2, <2>1 DEF Shape, TypeOK, Working
  <2>4. /\ \A x \in Channels \ {w} : workers'[x] = workers[x]
        /\ workers'[w].at = "process" /\ workers'[w].on = q /\ workers'[w].holds = <<Head(b)>>
    BY <1>2 DEF Shape, TypeOK, Working, q
  <2>5. /\ \A x \in Channels \ {q} : channels'[x] = channels[x]
        /\ channels'[q].buffer = Tail(b)
    BY <1>1, <1>2 DEF Shape, TypeOK, Channel
  <2>6. Bounded'
    BY <1>1, <2>1, <2>5, LogQueueAssumption DEF Shape, Bounded
  <2>7. Occupied'
    BY <2>1, <2>4 DEF Shape, Occupied
  <2>8. \A x \in Channels : /\ workers'[x].on = workers[x].on
                            /\ x > starts => workers'[x].at = "none"
    BY <1>1, <2>4, LogQueueAssumption DEF Shape, TypeOK, Unmade, Channels, q
  <2>9. \A x \in Channels : x > starts => channels'[x].buffer = <<>>
    <3> SUFFICES ASSUME NEW x \in Channels, x > starts PROVE channels'[x].buffer = <<>>
      OBVIOUS
    <3>1. x # q
      BY <1>1, LogQueueAssumption DEF Shape, TypeOK, Channels
    <3>2. channels[x].buffer = <<>>
      BY DEF Shape, Unmade
    <3> QED BY <2>5, <3>1, <3>2
  <2> QED BY <2>2, <2>3, <2>6, <2>7, <2>8, <2>9
<1>3. CASE UNCHANGED channels /\ workers' = [workers EXCEPT ![w].at = "read"]
  <2>1. workers' \in [Channels -> Working]
    BY <1>1, <1>3 DEF Shape, TypeOK, Working
  <2>2. /\ \A x \in Channels \ {w} : workers'[x] = workers[x]
        /\ workers'[w].at = "read" /\ workers'[w].on = q /\ workers'[w].holds = workers[w].holds
    BY <1>3 DEF Shape, TypeOK, Working
  <2> QED BY <1>1, <1>3, <2>1, <2>2, LogQueueAssumption DEF Shape, TypeOK, Unmade, Occupied, Bounded, Channels
<1> QED BY <1>2, <1>3 DEF Receive

LEMMA ProcessShape ==
  ASSUME Shape, NEW w \in Channels, Process(w)
  PROVE  /\ workers' \in [Channels -> Working] /\ Occupied'
         /\ \A x \in Channels : /\ workers'[x].on = workers[x].on
                                /\ x > starts => workers'[x].at = "none"
         /\ \E r \in Request : /\ workers[w].holds = <<r>>
                               /\ \/ /\ written' = Append(written, r) /\ UNCHANGED discarded
                                     /\ written' \in Seq(Request)
                                  \/ discarded' = discarded \cup {r} /\ UNCHANGED written
<1>1. workers[w].holds \in Seq(Request) /\ Len(workers[w].holds) = 1 /\ workers[w].at = "process"
  BY DEF Process, Shape, TypeOK, Working, Occupied
<1> DEFINE r == Head(workers[w].holds)
<1>2. r \in Request /\ workers[w].holds = <<r>>
  BY <1>1, HeadTailProperties
<1>3. written' = Append(written, r) => written' \in Seq(Request)
  BY <1>2, AppendProperties DEF Shape, TypeOK
<1>4. <<>> \in Seq(Request)
  BY EmptySeq
<1>5. /\ workers' = [workers EXCEPT ![w].at = "read", ![w].holds = <<>>]
      /\ \/ written' = Append(written, r) /\ UNCHANGED discarded
         \/ discarded' = discarded \cup {r} /\ UNCHANGED written
  BY DEF Process
<1> HIDE DEF r
<1>6. workers' \in [Channels -> Working]
  BY <1>4, <1>5 DEF Shape, TypeOK, Working
<1>7. /\ \A x \in Channels \ {w} : workers'[x] = workers[x]
      /\ workers'[w].at = "read" /\ workers'[w].on = workers[w].on /\ workers'[w].holds = <<>>
  BY <1>5 DEF Shape, TypeOK, Working
<1>8. Occupied'
  BY <1>7 DEF Shape, Occupied
<1>9. \A x \in Channels : /\ workers'[x].on = workers[x].on
                          /\ x > starts => workers'[x].at = "none"
  BY <1>1, <1>7 DEF Shape, Unmade
<1> QED BY <1>2, <1>3, <1>5, <1>6, <1>8, <1>9

LEMMA ReadShape ==
  ASSUME Shape, NEW w \in Channels, ReadQueue(w)
  PROVE  /\ workers' \in [Channels -> Working] /\ Occupied'
         /\ \A x \in Channels : /\ workers'[x].on <= starts /\ workers'[x].holds = workers[x].holds
                                /\ x > starts => workers'[x].at = "none"
<1>1. logQueue \in 0..MaxStarts /\ logQueue <= starts
  BY LogQueueAssumption DEF Shape, TypeOK
<1>2. workers' \in [Channels -> Working]
  BY <1>1 DEF ReadQueue, Shape, TypeOK, Working
<1>3. /\ \A x \in Channels \ {w} : workers'[x] = workers[x]
      /\ workers'[w].at = (IF logQueue = Nil THEN "stuck" ELSE "receive")
      /\ workers'[w].on = logQueue /\ workers'[w].holds = workers[w].holds
  BY DEF ReadQueue, Shape, TypeOK, Working
<1>4. workers[w].at = "read"
  BY DEF ReadQueue
<1>5. Occupied'
  BY <1>1, <1>3, <1>4 DEF Shape, Occupied, Nil
<1> QED BY <1>1, <1>2, <1>3, <1>4, <1>5 DEF Shape, Unmade

LEMMA NextShape == Shape /\ [Next]_vars => Shape'
<1> SUFFICES ASSUME Shape, [Next]_vars PROVE Shape'
  OBVIOUS
<1> USE DEF Shape
<1>1. ASSUME NEW p \in Producers, Log(p) PROVE Shape'
  <2>1. producers' \in [Producers -> Producing] /\ Numbered'
    BY <1>1, LogQueueAssumption DEF Log, At, TypeOK, Producing, Numbered, Sending
  <2>2. \A x \in Producers : producers'[x].on = producers[x].on
    BY <1>1 DEF Log, TypeOK, Producing
  <2> QED BY <1>1, <2>1, <2>2 DEF Log, TypeOK, Unmade, Occupied, Bounded
<1>2. ASSUME NEW p \in Producers, Check(p) PROVE Shape'
  <2> DEFINE at == IF logWorkerRunning /\ logQueue # Nil THEN "choose" ELSE "start"
  <2>1. at \in Sending /\ Goes(p, at) /\ producers[p].at \in Sending /\ producers[p].n >= 1
    BY <1>2 DEF Check, At, Sending, Numbered
  <2>2. /\ producers' \in [Producers -> Producing] /\ Numbered'
        /\ \A x \in Producers : producers'[x].on <= starts'
    BY <1>2, <2>1, GoesShape DEF Check
  <2> QED BY <1>2, <2>2 DEF Check, TypeOK, Unmade, Occupied, Bounded
<1>3. ASSUME NEW p \in Producers, (Goes(p, "choose") /\ At(p, "start")) \/ Goes(p, "idle"),
             StartLogWorker, UNCHANGED <<loggingEnabled, channels, locked, written, dropped, discarded>>
      PROVE  Shape'
  <2>1. producers' \in [Producers -> Producing] /\ Numbered'
    BY <1>3 DEF Goes, At, TypeOK, Producing, Numbered, Sending
  <2>2. \A x \in Producers : producers'[x].on = producers[x].on
    <3>1. \A at : Goes(p, at) => \A x \in Producers : producers'[x].on = producers[x].on
      BY DEF Goes, TypeOK, Producing
    <3> QED BY <1>3, <3>1
  <2>3. \A x \in Producers : producers'[x].on <= starts'
    BY <1>3, <2>2, StartShape, LogQueueAssumption DEF TypeOK, Unmade, Producing
  <2>4. \A q \in Channels : q > starts' => channels'[q].buffer = <<>>
    BY <1>3, StartShape, LogQueueAssumption DEF TypeOK, Unmade, Channels
  <2> QED BY <1>3, <2>1, <2>3, <2>4, StartShape DEF TypeOK, Unmade, Bounded
<1>4. ASSUME NEW p \in Producers, Choose(p) PROVE Shape'
  <2>1. PICK c \in BOOLEAN : producers' = [producers EXCEPT ![p].at = "send", ![p].on = logQueue,
                                                          ![p].constrained = c]
    BY <1>4 DEF Choose
  <2>2. At(p, "choose") /\ UNCHANGED <<starts, channels, workers>>
    BY <1>4 DEF Choose
  <2>3. producers' \in [Producers -> Producing] /\ Numbered' /\ \A x \in Producers : producers'[x].on <= starts
    BY <2>1, <2>2, TargetShape DEF Sending, At
  <2> QED BY <1>4, <2>3 DEF Choose, TypeOK, Unmade, Occupied, Bounded
<1>5. ASSUME NEW p \in Producers, NEW at \in {"send", "block", "retry"}, Send(p, at), Goes(p, "idle"),
             UNCHANGED <<loggingEnabled, logWorkerRunning, logQueue, starts, workers, locked,
                         written, dropped, discarded>>
      PROVE  Shape'
  <2>1. /\ producers' \in [Producers -> Producing] /\ Numbered'
        /\ \A x \in Producers : producers'[x].on <= starts'
    BY <1>5, GoesShape DEF Sending
  <2> QED BY <1>5, <2>1, SendShape DEF TypeOK, Unmade, Occupied
<1>6. ASSUME NEW p \in Producers, NEW at \in {"idle", "panicked"}, Goes(p, at),
             dropped' \in {dropped, dropped \cup {Current(p)}}, producers[p].at \in Sending,
             UNCHANGED <<loggingEnabled, logWorkerRunning, logQueue, starts, channels, workers,
                         locked, written, discarded>>
      PROVE  Shape'
  <2>1. /\ producers' \in [Producers -> Producing] /\ Numbered'
        /\ \A x \in Producers : producers'[x].on <= starts'
    BY <1>6, GoesShape DEF Sending
  <2>2. dropped' \subseteq Request
    BY <1>6, CurrentIsRequest DEF TypeOK
  <2> QED BY <1>6, <2>1, <2>2 DEF TypeOK, Unmade, Occupied, Bounded
<1>7. ASSUME NEW p \in Producers, Timeout(p) PROVE Shape'
  <2>1. CASE producers[p].constrained
    BY <1>6, <1>7, <2>1 DEF Timeout, At, Sending
  <2>2. CASE ~producers[p].constrained
    <3>1. /\ producers' \in [Producers -> Producing] /\ Numbered'
          /\ \A x \in Producers : producers'[x].on <= starts
      <4> DEFINE at == IF p \in Web THEN "retry" ELSE "block"
      <4>1. producers' = [producers EXCEPT ![p].on = logQueue, ![p].at = at]
        BY <1>7, <2>2 DEF Timeout
      <4>2. producers[p].at = "send"
        BY <1>7 DEF Timeout, At
      <4>3. producers[p] \in Producing
        BY DEF TypeOK
      <4>4. producers' = [producers EXCEPT ![p].at = at, ![p].on = logQueue,
                                           ![p].constrained = producers[p].constrained]
        BY <4>1, <4>3 DEF Producing, TypeOK
      <4> QED BY <4>2, <4>3, <4>4, TargetShape DEF Sending, Producing
    <3> QED BY <1>7, <2>2, <3>1 DEF Timeout, TypeOK, Unmade, Occupied, Bounded
  <2> QED BY <2>1, <2>2
<1>8. ASSUME NEW p \in Producers, Sends(p) PROVE Shape'
  <2>1. CASE Check(p) \/ Choose(p) \/ Timeout(p)
    BY <1>2, <1>4, <1>7, <2>1
  <2>2. CASE Start(p)
    BY <1>3, <2>2 DEF Start
  <2>3. CASE Enqueue(p)
    BY <1>5, <2>3 DEF Enqueue
  <2>4. CASE SendPanics(p)
    BY <1>6, <2>4 DEF SendPanics, At, Sending
  <2>5. CASE Retry(p)
    BY <1>5, <1>6, <2>5 DEF Retry, At, Sending
  <2> QED BY <1>8, <2>1, <2>2, <2>3, <2>4, <2>5 DEF Sends
<1>9. ASSUME NEW w \in Channels, Works(w) PROVE Shape'
  <2>1. CASE ReadQueue(w)
    BY <2>1, ReadShape DEF ReadQueue, TypeOK, Numbered, Unmade, Bounded
  <2>2. CASE Receive(w)
    <3>1. \A x \in Channels : workers'[x].on <= starts
      BY <2>2, ReceiveShape DEF Unmade
    <3> QED BY <2>2, <3>1, ReceiveShape DEF Receive, TypeOK, Numbered, Unmade
  <2>3. CASE Process(w)
    <3>1. \A x \in Channels : workers'[x].on <= starts
      BY <2>3, ProcessShape DEF Unmade
    <3>2. written' \in Seq(Request) /\ discarded' \subseteq Request
      BY <2>3, ProcessShape DEF TypeOK
    <3> QED BY <2>3, <3>1, <3>2, ProcessShape DEF Process, TypeOK, Numbered, Unmade, Bounded
  <2> QED BY <1>9, <2>1, <2>2, <2>3 DEF Works
<1>10. ASSUME NEW at \in {"idle"} \cup Switching, Goes(Script, at), loggingEnabled' \in BOOLEAN,
              logWorkerRunning' \in BOOLEAN, locked' \in BOOLEAN, logQueue' \in {logQueue, Nil},
              channels' \in {channels, [channels EXCEPT ![logQueue].closed = TRUE]},
              UNCHANGED <<starts, workers, written, dropped, discarded>>
       PROVE  Shape'
  <2>1. /\ producers' \in [Producers -> Producing] /\ Numbered'
        /\ \A x \in Producers : producers'[x].on <= starts'
    BY <1>10, GoesShape, LogQueueAssumption DEF Switching, Sending
  <2>2. channels' \in [Channels -> Channel] /\ \A q \in Channels : channels'[q].buffer = channels[q].buffer
    BY <1>10 DEF TypeOK, Channel
  <2>3. logQueue' \in 0..starts
    BY <1>10, LogQueueAssumption DEF TypeOK, Nil
  <2> QED BY <1>10, <2>1, <2>2, <2>3 DEF TypeOK, Unmade, Occupied, Bounded
<1>11. CASE LoggingOn \/ LoggingOff \/ Switches
  <2>1. CASE OnStarts
    BY <1>3, <2>1, LogQueueAssumption DEF OnStarts
  <2>2. CASE ~OnStarts
    BY <1>10, <1>11, <2>2
    DEF LoggingOn, LoggingOff, Switches, OffFlushed, StopCheck, StopLock, StopDrained,
        StopClose, StopForget, StopFlag, Switching, TypeOK
  <2> QED BY <2>1, <2>2
<1>12. CASE UNCHANGED vars
  BY <1>12 DEF vars, TypeOK, Numbered, Unmade, Occupied, Bounded
<1> QED BY <1>1, <1>8, <1>9, <1>11, <1>12 DEF Next

(* Every behaviour of the queue keeps to these states (logging.go). *)
THEOREM QueueShape == Spec => []Shape
BY InitShape, NextShape, PTL DEF Spec

-----------------------------------------------------------------------------
(* The queue in use has a worker *)

(* The worker that was made with the channel: it is on its way to read   *)
(* logQueue, or it waits at that channel.  A channel does not come back.  *)
Served ==
  logQueue # Nil =>
    \/ workers[logQueue].at \in {"read", "process"}
    \/ workers[logQueue].at = "receive" /\ workers[logQueue].on = logQueue

LEMMA NextServed == Shape /\ Served /\ [Next]_vars => Served'
<1> SUFFICES ASSUME Shape, Served, [Next]_vars PROVE Served'
  OBVIOUS
<1>1. logQueue # Nil => logQueue \in Channels
  BY LogQueueAssumption DEF Shape, TypeOK, Nil, Channels
<1>2. CASE UNCHANGED workers /\ logQueue' \in {logQueue, Nil}
  BY <1>2 DEF Served
<1>3. CASE StartLogWorker
  <2>1. CASE ~logWorkerRunning
    <3>1. starts + 1 \in Channels /\ starts + 1 # Nil
      BY <1>3, <2>1, LogQueueAssumption DEF StartLogWorker, Shape, TypeOK, Channels, Nil
    <3> QED BY <1>3, <2>1, <3>1 DEF StartLogWorker, Served, Shape, TypeOK, Working
  <2> QED BY <1>2, <1>3, <2>1 DEF StartLogWorker
<1>4. ASSUME NEW w \in Channels, Works(w) PROVE Served'
  <2>1. UNCHANGED logQueue
    BY <1>4 DEF Works, ReadQueue, Receive, Process
  <2>2. CASE ReadQueue(w)
    BY <1>1, <2>1, <2>2 DEF ReadQueue, Served, Shape, TypeOK, Working
  <2>3. CASE Receive(w)
    BY <1>1, <2>1, <2>3 DEF Receive, Served, Shape, TypeOK, Working
  <2>4. CASE Process(w)
    BY <1>1, <2>1, <2>4 DEF Process, Served, Shape, TypeOK, Working
  <2> QED BY <1>4, <2>2, <2>3, <2>4 DEF Works
<1>5. ASSUME NEW p \in Producers, Log(p) \/ Sends(p) PROVE Served'
  <2>1. CASE Start(p)
    BY <1>3, <2>1 DEF Start
  <2> QED BY <1>2, <1>5, <2>1
          DEF Log, Sends, Check, Choose, Enqueue, SendPanics, Timeout, Retry
<1>6. CASE LoggingOn \/ LoggingOff \/ Switches
  <2>1. CASE OnStarts
    BY <1>3, <2>1 DEF OnStarts
  <2> QED BY <1>2, <1>6, <2>1
          DEF LoggingOn, LoggingOff, Switches, OffFlushed, StopCheck, StopLock, StopDrained,
              StopClose, StopForget, StopFlag
<1>7. CASE UNCHANGED vars
  BY <1>2, <1>7 DEF vars
<1> QED BY <1>4, <1>5, <1>6, <1>7 DEF Next

(* However starts, stops and requests interleave, the queue in use has a  *)
(* worker that will come to it (startLogWorker, logWorker).               *)
THEOREM QueueIsServed == Spec => []QueueServed
<1>1. Init => Served
  BY DEF Init, Served
<1>2. Shape /\ Served => QueueServed
  BY LogQueueAssumption DEF Shape, TypeOK, Served, QueueServed, Nil, Channels
<1>3. Spec => []Shape
  BY QueueShape
<1> QED BY <1>1, <1>2, <1>3, NextServed, PTL DEF Spec

-----------------------------------------------------------------------------
(* What is dropped *)

(* Only accesses are marked for dropping or tried a second time. *)
AccessesYield ==
  /\ \A p \in Producers : producers[p].constrained \/ producers[p].at = "retry" => p \in Web
  /\ \A r \in dropped : IsWebAccess(r)

LEMMA NextYield == Shape /\ AccessesYield /\ [Next]_vars => AccessesYield'
<1> SUFFICES ASSUME Shape, AccessesYield, [Next]_vars PROVE AccessesYield'
  OBVIOUS
<1>1. CASE UNCHANGED <<producers, dropped>>
  BY <1>1 DEF AccessesYield, IsWebAccess
<1>2. ASSUME NEW p \in Producers, NEW at, at # "retry", Goes(p, at),
             dropped' = dropped \/ (p \in Web /\ dropped' = dropped \cup {Current(p)})
      PROVE  AccessesYield'
  <2>1. \A x \in Producers : /\ producers'[x].constrained = producers[x].constrained
                             /\ producers'[x].at = "retry" => producers[x].at = "retry"
    BY <1>2 DEF Goes, Shape, TypeOK, Producing
  <2> QED BY <1>2, <2>1 DEF AccessesYield, IsWebAccess, Current
<1>3. ASSUME NEW p \in Producers, Log(p) PROVE AccessesYield'
  <2>1. \A x \in Producers : /\ producers'[x].constrained = producers[x].constrained
                             /\ producers'[x].at = "retry" => producers[x].at = "retry"
    BY <1>3 DEF Log, Shape, TypeOK, Producing
  <2> QED BY <1>3, <2>1 DEF Log, AccessesYield, IsWebAccess
<1>4. ASSUME NEW p \in Producers, Choose(p) PROVE AccessesYield'
  <2>1. PICK c \in BOOLEAN : /\ c => p \in Web
                             /\ producers' = [producers EXCEPT ![p].at = "send", ![p].on = logQueue,
                                                               ![p].constrained = c]
    BY <1>4 DEF Choose
  <2>2. /\ \A x \in Producers \ {p} : producers'[x] = producers[x]
        /\ producers'[p].at = "send" /\ producers'[p].constrained = c
    BY <2>1 DEF Shape, TypeOK, Producing
  <2> QED BY <1>4, <2>1, <2>2 DEF Choose, AccessesYield, IsWebAccess
<1>5. ASSUME NEW p \in Producers, Timeout(p) PROVE AccessesYield'
  <2>1. CASE producers[p].constrained
    BY <1>2, <1>5, <2>1 DEF Timeout, AccessesYield
  <2>2. CASE ~producers[p].constrained
    <3> DEFINE at == IF p \in Web THEN "retry" ELSE "block"
    <3>1. producers' = [producers EXCEPT ![p].on = logQueue, ![p].at = at] /\ UNCHANGED dropped
      BY <1>5, <2>2 DEF Timeout
    <3>2. /\ \A x \in Producers \ {p} : producers'[x] = producers[x]
          /\ producers'[p].at = at /\ producers'[p].constrained = producers[p].constrained
      BY <3>1 DEF Shape, TypeOK, Producing
    <3>3. at = "retry" => p \in Web
      OBVIOUS
    <3> HIDE DEF at
    <3> QED BY <3>1, <3>2, <3>3 DEF AccessesYield, IsWebAccess
  <2> QED BY <2>1, <2>2
<1>6. ASSUME NEW p \in Producers, Sends(p) PROVE AccessesYield'
  <2>1. CASE Check(p) \/ Start(p) \/ Enqueue(p) \/ SendPanics(p)
    BY <1>2, <2>1 DEF Check, Start, Enqueue, SendPanics
  <2>2. CASE Retry(p)
    BY <1>2, <2>2 DEF Retry, Send, At, AccessesYield
  <2> QED BY <1>4, <1>5, <1>6, <2>1, <2>2 DEF Sends
<1>7. ASSUME NEW w \in Channels, Works(w) PROVE AccessesYield'
  BY <1>1, <1>7 DEF Works, ReadQueue, Receive, Process
<1>8. CASE LoggingOn \/ LoggingOff \/ Switches
  BY <1>2, <1>8, LogQueueAssumption
  DEF LoggingOn, LoggingOff, Switches, OnStarts, OffFlushed, StopCheck, StopLock, StopDrained,
      StopClose, StopForget, StopFlag
<1>9. CASE UNCHANGED vars
  BY <1>1, <1>9 DEF vars
<1> QED BY <1>3, <1>6, <1>7, <1>8, <1>9 DEF Next

(* A full queue makes only accesses disappear: every request of another   *)
(* kind waits until there is room (queueLogRequest).                      *)
THEOREM CriticalRequestsKept == Spec => []CriticalKept
<1>1. Init => AccessesYield
  BY DEF Init, AccessesYield
<1>2. AccessesYield => CriticalKept
  BY DEF AccessesYield, CriticalKept
<1>3. Spec => []Shape
  BY QueueShape
<1> QED BY <1>1, <1>2, <1>3, NextYield, PTL DEF Spec

-----------------------------------------------------------------------------
(* Where requests are *)

InBuffer(q, i, r) == i \in 1..Len(channels[q].buffer) /\ channels[q].buffer[i] = r
Buffered(r) == \E q \in Channels, i \in Nat : InBuffer(q, i, r)
HeldBy(w, r) == workers[w].holds = <<r>>
Held(r) == \E w \in Channels : HeldBy(w, r)
InLog(i, r) == i \in 1..Len(written) /\ written[i] = r
Written(r) == \E i \in Nat : InLog(i, r)

(* A request that is somewhere was handed over by its producer. *)
HandedOver(r) ==
  /\ r.n <= producers[r.by].n
  /\ producers[r.by].at \in Sending => r.n < producers[r.by].n
Placed(r) == Buffered(r) \/ Held(r) \/ Written(r) \/ r \in dropped \/ r \in discarded
Sent == \A r \in Request : Placed(r) => HandedOver(r)

(* A request is in one place of a kind, and in places of one kind. *)
Once ==
  \A r \in Request :
    /\ \A p, q \in Channels, i, j \in Nat :
         InBuffer(p, i, r) /\ InBuffer(q, j, r) => p = q /\ i = j
    /\ \A v, w \in Channels : HeldBy(v, r) /\ HeldBy(w, r) => v = w
    /\ \A i, j \in Nat : InLog(i, r) /\ InLog(j, r) => i = j
Apart ==
  \A r \in Request :
    /\ Buffered(r) => ~Held(r) /\ ~Written(r) /\ r \notin dropped /\ r \notin discarded
    /\ Held(r) => ~Written(r) /\ r \notin dropped /\ r \notin discarded
    /\ Written(r) => r \notin dropped /\ r \notin discarded
    /\ r \in dropped => r \notin discarded

(* Until a second start there is one buffer and one worker, and what a     *)
(* producer logged first is further on its way.                            *)
Ordered ==
  starts <= 1 =>
    \A r, s \in Request : r.by = s.by =>
      /\ \A q \in Channels, i, j \in Nat :
           InBuffer(q, i, r) /\ InBuffer(q, j, s) /\ i < j => r.n < s.n
      /\ Buffered(s) /\ (Held(r) \/ Written(r)) => r.n < s.n
      /\ Held(s) /\ Written(r) => r.n < s.n
      /\ \A i, j \in Nat : InLog(i, r) /\ InLog(j, s) /\ i < j => r.n < s.n

Fates == Sent /\ Once /\ Apart /\ Ordered

(* The places of a sequence after one more, and after one less. *)
LEMMA AppendPlaces ==
  ASSUME NEW s \in Seq(Request), NEW x \in Request, NEW i \in Nat, NEW r \in Request
  PROVE  /\ i \in 1..Len(Append(s, x)) /\ Append(s, x)[i] = r
           <=> (i \in 1..Len(s) /\ s[i] = r) \/ (i = Len(s) + 1 /\ r = x)
<1>1. /\ Len(Append(s, x)) = Len(s) + 1 /\ Append(s, x)[Len(s) + 1] = x
      /\ \A k \in 1..Len(s) : Append(s, x)[k] = s[k]
      /\ Len(s) \in Nat
  BY AppendProperties, LenProperties
<1> QED BY <1>1

LEMMA TailPlaces ==
  ASSUME NEW s \in Seq(Request), s # <<>>, NEW i \in Nat, NEW r \in Request
  PROVE  /\ i \in 1..Len(Tail(s)) /\ Tail(s)[i] = r
           <=> i >= 1 /\ i + 1 \in 1..Len(s) /\ s[i + 1] = r
<1>1. /\ Len(Tail(s)) = Len(s) - 1 /\ Len(s) \in Nat
      /\ \A k \in 1..Len(Tail(s)) : Tail(s)[k] = s[k + 1]
  BY HeadTailProperties, LenProperties
<1> QED BY <1>1

(* A producer makes its next request after it handed over the last one. *)
Proceeds(p) ==
  /\ producers'[p].n >= producers[p].n
  /\ producers'[p].at \in Sending =>
       \/ producers'[p].n > producers[p].n
       \/ producers'[p].n = producers[p].n /\ producers[p].at \in Sending

LEMMA HandedOverStays ==
  ASSUME Shape, producers' \in [Producers -> Producing], \A p \in Producers : Proceeds(p),
         NEW r \in Request, HandedOver(r)
  PROVE  HandedOver(r)'
<1>1. r.by \in Producers /\ r.n \in Nat
  BY RequestFields
<1>2. producers[r.by].n \in Nat /\ producers'[r.by].n \in Nat
  BY <1>1 DEF Shape, TypeOK, Producing
<1> QED BY <1>1, <1>2 DEF HandedOver, Proceeds

LEMMA StillFates ==
  ASSUME Shape, Fates, Shape', \A p \in Producers : Proceeds(p), starts <= starts',
         UNCHANGED <<written, dropped, discarded>>,
         \A q \in Channels : channels'[q].buffer = channels[q].buffer,
         \A w \in Channels : workers'[w].holds = workers[w].holds
  PROVE  Fates'
<1>1. /\ \A q \in Channels, i \in Nat, r \in Request : InBuffer(q, i, r)' <=> InBuffer(q, i, r)
      /\ \A w \in Channels, r \in Request : HeldBy(w, r)' <=> HeldBy(w, r)
      /\ \A i \in Nat, r \in Request : InLog(i, r)' <=> InLog(i, r)
  BY DEF InBuffer, HeldBy, InLog
<1>2. \A r \in Request : /\ Buffered(r)' <=> Buffered(r)
                         /\ Held(r)' <=> Held(r)
                         /\ Written(r)' <=> Written(r)
  BY <1>1 DEF Buffered, Held, Written
<1>3. Sent'
  BY <1>2, HandedOverStays DEF Fates, Sent, Placed, Shape, TypeOK
<1>4. Once' /\ Apart'
  BY <1>1, <1>2 DEF Fates, Once, Apart
<1>5. Ordered'
  BY <1>1, <1>2, LogQueueAssumption DEF Fates, Ordered, Shape, TypeOK
<1> QED BY <1>3, <1>4, <1>5 DEF Fates

(* The request of a producer that sends is nowhere yet. *)
LEMMA CurrentIsNew ==
  ASSUME Shape, Sent, NEW p \in Producers, producers[p].at \in Sending
  PROVE  /\ Current(p) \in Request /\ ~Placed(Current(p))
         /\ \A r \in Request : Placed(r) /\ r.by = p => r.n < Current(p).n
<1>1. Current(p) \in Request /\ Current(p).by = p /\ Current(p).n = producers[p].n
  BY CurrentIsRequest DEF Shape, Current
<1>2. producers[p].n \in Nat
  BY DEF Shape, TypeOK, Producing
<1> QED BY <1>1, <1>2 DEF Sent, HandedOver

LEMMA LeavesSending ==
  ASSUME Shape, NEW p \in Producers, NEW at, at \notin Sending, Goes(p, at)
  PROVE  /\ \A x \in Producers : Proceeds(x)
         /\ producers'[p].at = at /\ producers'[p].n = producers[p].n
<1>1. \A x \in Producers : /\ producers'[x].n = producers[x].n /\ producers[x].n \in Nat
                           /\ x # p => producers'[x] = producers[x]
                           /\ x = p => producers'[x].at = at
  BY DEF Goes, Shape, TypeOK, Producing
<1> QED BY <1>1 DEF Proceeds

LEMMA CurrentHandedOver ==
  ASSUME Shape, Shape', NEW p \in Producers, NEW at, at \notin Sending, Goes(p, at)
  PROVE  \A r \in Request : r = Current(p) => HandedOver(r)'
<1> SUFFICES ASSUME NEW r \in Request, r = Current(p) PROVE HandedOver(r)'
  OBVIOUS
<1>1. r.by = p /\ r.n = producers[p].n /\ producers[p].n \in Nat
  BY DEF Current, Shape, TypeOK, Producing
<1> QED BY <1>1, LeavesSending DEF HandedOver

LEMMA EnqueueFates ==
  ASSUME Shape, Fates, Shape', NEW p \in Producers, NEW at \in {"send", "block", "retry"},
         Send(p, at), Goes(p, "idle"), UNCHANGED <<starts, workers, written, dropped, discarded>>
  PROVE  Fates'
<1> DEFINE r0 == Current(p)  q0 == producers[p].on  i0 == Len(channels[q0].buffer) + 1
<1>1. "idle" \notin Sending /\ producers[p].at \in Sending
  BY DEF Sending, Send, At
<1>2. /\ r0 \in Request /\ r0.by = p /\ ~Placed(r0)
      /\ \A r \in Request : Placed(r) /\ r.by = p => r.n < r0.n
  BY <1>1, CurrentIsNew DEF Fates, Current
<1>3. /\ q0 \in Channels /\ channels[q0].buffer \in Seq(Request) /\ i0 \in Nat
      /\ channels' = [channels EXCEPT ![q0].buffer = Append(@, r0)]
  <2>1. q0 \in 1..starts /\ channels' = [channels EXCEPT ![q0].buffer = Append(@, r0)]
    BY SendShape
  <2> HIDE DEF q0, r0
  <2>2. q0 \in Channels
    BY <2>1, LogQueueAssumption DEF Shape, TypeOK, Channels
  <2>3. channels[q0].buffer \in Seq(Request)
    BY <2>2 DEF Shape, TypeOK, Channel
  <2> QED BY <2>1, <2>2, <2>3, LenProperties
<1>4. /\ \A q \in Channels \ {q0} : channels'[q].buffer = channels[q].buffer
      /\ channels'[q0].buffer = Append(channels[q0].buffer, r0)
  BY <1>3 DEF Shape, TypeOK, Channel
<1>5. \A q \in Channels, i \in Nat, r \in Request :
        InBuffer(q, i, r)' <=> InBuffer(q, i, r) \/ (q = q0 /\ i = i0 /\ r = r0)
  <2> SUFFICES ASSUME NEW q \in Channels, NEW i \in Nat, NEW r \in Request
               PROVE  InBuffer(q, i, r)' <=> InBuffer(q, i, r) \/ (q = q0 /\ i = i0 /\ r = r0)
    OBVIOUS
  <2>1. CASE q = q0
    <3> DEFINE b == channels[q0].buffer
    <3>1. /\ i \in 1..Len(Append(b, r0)) /\ Append(b, r0)[i] = r
            <=> (i \in 1..Len(b) /\ b[i] = r) \/ (i = i0 /\ r = r0)
      <4> HIDE DEF r0, q0
      <4> QED BY <1>2, <1>3, AppendPlaces
    <3> QED BY <1>4, <2>1, <3>1 DEF InBuffer
  <2>2. CASE q # q0
    BY <1>4, <2>2 DEF InBuffer
  <2> QED BY <2>1, <2>2
<1>6. \A i \in Nat, r \in Request : InBuffer(q0, i, r) => i < i0
  BY <1>3, LenProperties DEF InBuffer
<1>7. /\ \A w \in Channels, r \in Request : HeldBy(w, r)' <=> HeldBy(w, r)
      /\ \A i \in Nat, r \in Request : InLog(i, r)' <=> InLog(i, r)
  BY DEF HeldBy, InLog
<1> HIDE DEF r0, q0, i0
<1>8. \A r \in Request : /\ Buffered(r)' <=> Buffered(r) \/ r = r0
                         /\ Held(r)' <=> Held(r)
                         /\ Written(r)' <=> Written(r)
  BY <1>3, <1>5, <1>7 DEF Buffered, Held, Written
<1>9. Sent'
  <2>1. \A x \in Producers : Proceeds(x)
    BY <1>1, LeavesSending
  <2>2. \A r \in Request : r = r0 => HandedOver(r)'
    BY <1>1, CurrentHandedOver DEF r0
  <2> QED BY <1>8, <2>1, <2>2, HandedOverStays DEF Fates, Sent, Placed, Shape, TypeOK
<1>10. Once'
  BY <1>2, <1>5, <1>7 DEF Fates, Once, Placed, Buffered
<1>11. Apart'
  BY <1>2, <1>8 DEF Fates, Apart, Placed
<1>12. Ordered'
  <2> SUFFICES ASSUME starts <= 1, NEW r \in Request, NEW s \in Request, r.by = s.by
               PROVE  /\ \A q \in Channels, i, j \in Nat :
                           InBuffer(q, i, r)' /\ InBuffer(q, j, s)' /\ i < j => r.n < s.n
                      /\ Buffered(s)' /\ (Held(r)' \/ Written(r)') => r.n < s.n
                      /\ Held(s)' /\ Written(r)' => r.n < s.n
                      /\ \A i, j \in Nat : InLog(i, r)' /\ InLog(j, s)' /\ i < j => r.n < s.n
    BY DEF Ordered
  <2>1. \A q \in Channels, i, j \in Nat :
          InBuffer(q, i, r)' /\ InBuffer(q, j, s)' /\ i < j => r.n < s.n
    <3> SUFFICES ASSUME NEW q \in Channels, NEW i \in Nat, NEW j \in Nat,
                        InBuffer(q, i, r)', InBuffer(q, j, s)', i < j
                 PROVE  r.n < s.n
      OBVIOUS
    <3>1. CASE InBuffer(q, i, r) /\ InBuffer(q, j, s)
      BY <3>1 DEF Fates, Ordered
    <3>2. CASE InBuffer(q, i, r) /\ s = r0
      BY <1>2, <3>2 DEF Placed, Buffered
    <3>3. CASE q = q0 /\ i = i0
      BY <1>3, <1>5, <1>6, <3>3
    <3> QED BY <1>5, <3>1, <3>2, <3>3
  <2>2. Buffered(s)' /\ (Held(r)' \/ Written(r)') => r.n < s.n
    BY <1>2, <1>8 DEF Fates, Ordered, Placed
  <2> QED BY <1>7, <1>8, <2>1, <2>2 DEF Fates, Ordered
<1> QED BY <1>9, <1>10, <1>11, <1>12 DEF Fates

LEMMA DropFates ==
  ASSUME Shape, Fates, Shape', NEW p \in Producers, producers[p].at \in Sending, Goes(p, "idle"),
         dropped' = dropped \cup {Current(p)}, UNCHANGED <<starts, channels, workers, written, discarded>>
  PROVE  Fates'
<1> DEFINE r0 == Current(p)
<1>1. "idle" \notin Sending
  BY DEF Sending
<1>2. r0 \in Request /\ ~Placed(r0)
  BY CurrentIsNew DEF Fates
<1>3. /\ \A q \in Channels, i \in Nat, r \in Request : InBuffer(q, i, r)' <=> InBuffer(q, i, r)
      /\ \A w \in Channels, r \in Request : HeldBy(w, r)' <=> HeldBy(w, r)
      /\ \A i \in Nat, r \in Request : InLog(i, r)' <=> InLog(i, r)
  BY DEF InBuffer, HeldBy, InLog
<1>4. \A r \in Request : /\ Buffered(r)' <=> Buffered(r)
                         /\ Held(r)' <=> Held(r)
                         /\ Written(r)' <=> Written(r)
  BY <1>3 DEF Buffered, Held, Written
<1>5. /\ \A x \in Producers : Proceeds(x)
      /\ \A r \in Request : r = r0 => HandedOver(r)'
  BY <1>1, LeavesSending, CurrentHandedOver
<1> HIDE DEF r0
<1>6. dropped' = dropped \cup {r0}
  BY DEF r0
<1>7. Sent'
  BY <1>4, <1>5, <1>6, HandedOverStays DEF Fates, Sent, Placed, Shape, TypeOK
<1>8. Once' /\ Apart'
  BY <1>2, <1>3, <1>4, <1>6 DEF Fates, Once, Apart, Placed
<1>9. Ordered'
  BY <1>3, <1>4 DEF Fates, Ordered
<1> QED BY <1>7, <1>8, <1>9 DEF Fates

(* With one start there is one channel and one worker. *)
LEMMA OneChannel ==
  ASSUME Shape, starts <= 1
  PROVE  /\ \A q \in Channels, i \in Nat, r \in Request : InBuffer(q, i, r) => q = 1
         /\ \A w \in Channels, r \in Request : HeldBy(w, r) => w = 1
<1>1. \A q \in Channels : q > 1 => channels[q].buffer = <<>> /\ workers[q].holds = <<>>
  BY LogQueueAssumption DEF Shape, TypeOK, Unmade, Occupied, Channels
<1>2. \A q \in Channels : q > 1 \/ q = 1
  BY LogQueueAssumption DEF Channels
<1>3. Len(<<>>) = 0 /\ \A r \in Request : <<>> # <<r>>
  BY EmptySeq
<1> QED BY <1>1, <1>2, <1>3 DEF InBuffer, HeldBy

LEMMA ReceiveFates ==
  ASSUME Shape, Fates, Shape', NEW w \in Channels, Receive(w)
  PROVE  Fates'
<1>1. /\ UNCHANGED <<starts, producers, written, dropped, discarded>>
      /\ workers[w].at = "receive"
  BY DEF Receive
<1>2. /\ \A p \in Producers : Proceeds(p)
      /\ starts <= starts' /\ starts \in Nat
  BY <1>1, LogQueueAssumption DEF Proceeds, Shape, TypeOK, Producing
<1>3. PICK q0 \in Channels : q0 = workers[w].on /\ channels[q0].buffer \in Seq(Request)
  <2>1. workers[w].on \in Channels
    BY <1>1, LogQueueAssumption DEF Shape, TypeOK, Occupied, Working, Channels
  <2> QED BY <2>1 DEF Shape, TypeOK, Channel
<1> DEFINE b == channels[q0].buffer
<1>4. CASE UNCHANGED channels /\ workers' = [workers EXCEPT ![w].at = "read"]
  <2>1. \A x \in Channels : workers'[x].holds = workers[x].holds
    BY <1>4 DEF Shape, TypeOK, Working
  <2> QED BY <1>1, <1>2, <1>4, <2>1, StillFates
<1>5. CASE /\ b # <<>>
           /\ workers' = [workers EXCEPT ![w].at = "process", ![w].holds = <<Head(b)>>]
           /\ channels' = [channels EXCEPT ![q0].buffer = Tail(b)]
  <2>1. PICK h \in Request : h = Head(b) /\ 1 \in 1..Len(b) /\ b[1] = h
    BY <1>3, <1>5, HeadTailProperties, LenProperties, EmptySeq
  <2>2. InBuffer(q0, 1, h)
    BY <2>1 DEF InBuffer
  <2>3. /\ \A q \in Channels \ {q0} : channels'[q].buffer = channels[q].buffer
        /\ channels'[q0].buffer = Tail(b)
    BY <1>3, <1>5 DEF Shape, TypeOK, Channel
  <2>4. /\ \A x \in Channels \ {w} : workers'[x].holds = workers[x].holds
        /\ workers'[w].holds = <<h>>
    BY <1>5, <2>1 DEF Shape, TypeOK, Working
  <2>5. /\ \A i \in Nat, r \in Request : InBuffer(q0, i, r)' <=> i >= 1 /\ InBuffer(q0, i + 1, r)
        /\ \A q \in Channels \ {q0}, i \in Nat, r \in Request : InBuffer(q, i, r)' <=> InBuffer(q, i, r)
    <3>1. \A i \in Nat, r \in Request :
            i \in 1..Len(Tail(b)) /\ Tail(b)[i] = r <=> i >= 1 /\ i + 1 \in 1..Len(b) /\ b[i + 1] = r
      BY <1>3, <1>5, TailPlaces
    <3> QED BY <1>3, <2>3, <3>1 DEF InBuffer
  <2>6. \A x \in Channels, r \in Request : HeldBy(x, r)' <=> IF x = w THEN r = h ELSE HeldBy(x, r)
    BY <2>1, <2>4 DEF HeldBy
  <2>7. \A r \in Request : ~HeldBy(w, r)
    BY <1>1 DEF Shape, Occupied, HeldBy
  <2>8. \A i \in Nat, r \in Request : InLog(i, r)' <=> InLog(i, r)
    BY <1>1 DEF InLog
  <2> HIDE DEF b
  <2>9. \A r \in Request : /\ Buffered(r)' => Buffered(r) /\ r # h
                           /\ Held(r)' <=> Held(r) \/ r = h
                           /\ Written(r)' <=> Written(r)
    <3>1. \A r \in Request : Buffered(r)' => Buffered(r) /\ r # h
      BY <1>3, <2>1, <2>2, <2>5 DEF Buffered, Fates, Once
    <3>2. \A r \in Request : Held(r)' <=> Held(r) \/ r = h
      BY <2>6, <2>7 DEF Held
    <3> QED BY <2>8, <3>1, <3>2 DEF Written
  <2>10. Buffered(h)
    BY <1>3, <2>2 DEF Buffered
  <2>11. Sent'
    BY <1>1, <1>2, <2>9, <2>10, HandedOverStays DEF Fates, Sent, Placed, Shape, TypeOK
  <2>12. Once'
    <3> SUFFICES ASSUME NEW r \in Request
                 PROVE  /\ \A p, q \in Channels, i, j \in Nat :
                             InBuffer(p, i, r)' /\ InBuffer(q, j, r)' => p = q /\ i = j
                        /\ \A v, x \in Channels : HeldBy(v, r)' /\ HeldBy(x, r)' => v = x
                        /\ \A i, j \in Nat : InLog(i, r)' /\ InLog(j, r)' => i = j
      BY DEF Once
    <3>1. \A p, q \in Channels, i, j \in Nat : InBuffer(p, i, r)' /\ InBuffer(q, j, r)' => p = q /\ i = j
      <4>1. \A q \in Channels, i \in Nat :
              InBuffer(q, i, r)' => InBuffer(q, IF q = q0 THEN i + 1 ELSE i, r)
        BY <2>5
      <4> QED BY <4>1 DEF Fates, Once
    <3>2. \A v, x \in Channels : HeldBy(v, r)' /\ HeldBy(x, r)' => v = x
      <4>1. r = h => ~Held(r)
        BY <2>10 DEF Fates, Apart
      <4> QED BY <2>6, <4>1 DEF Fates, Once, Held
    <3> QED BY <2>8, <3>1, <3>2 DEF Fates, Once
  <2>13. Apart'
    BY <1>1, <2>1, <2>9, <2>10 DEF Fates, Apart
  <2>14. Ordered'
    <3> SUFFICES ASSUME starts <= 1, NEW r \in Request, NEW s \in Request, r.by = s.by
                 PROVE  /\ \A q \in Channels, i, j \in Nat :
                             InBuffer(q, i, r)' /\ InBuffer(q, j, s)' /\ i < j => r.n < s.n
                        /\ Buffered(s)' /\ (Held(r)' \/ Written(r)') => r.n < s.n
                        /\ Held(s)' /\ Written(r)' => r.n < s.n
                        /\ \A i, j \in Nat : InLog(i, r)' /\ InLog(j, s)' /\ i < j => r.n < s.n
      BY <1>1 DEF Ordered
    <3>1. \A q \in Channels, i, j \in Nat :
            InBuffer(q, i, r)' /\ InBuffer(q, j, s)' /\ i < j => r.n < s.n
      <4> SUFFICES ASSUME NEW q \in Channels, NEW i \in Nat, NEW j \in Nat,
                          InBuffer(q, i, r)', InBuffer(q, j, s)', i < j
                   PROVE  r.n < s.n
        OBVIOUS
      <4>1. CASE q = q0
        <5>1. InBuffer(q, i + 1, r) /\ InBuffer(q, j + 1, s) /\ i + 1 < j + 1
          BY <2>5, <4>1
        <5> QED BY <5>1 DEF Fates, Ordered
      <4>2. CASE q # q0
        BY <2>5, <4>2 DEF Fates, Ordered
      <4> QED BY <4>1, <4>2
    <3>2. Buffered(s)' /\ r = h => r.n < s.n
      <4> SUFFICES ASSUME NEW q \in Channels, NEW i \in Nat, InBuffer(q, i, s)', r = h
                   PROVE  r.n < s.n
        BY DEF Buffered
      <4>1. q = 1 /\ q0 = 1
        BY <1>1, <1>3, <2>1, <2>2, <2>5, OneChannel
      <4>2. InBuffer(q0, i + 1, s) /\ 1 < i + 1
        BY <2>5, <4>1
      <4> QED BY <1>3, <2>2, <4>2 DEF Fates, Ordered
    <3>3. Held(s)' /\ Written(r)' => r.n < s.n
      BY <2>1, <2>9, <2>10 DEF Fates, Ordered
    <3> QED BY <2>8, <2>9, <3>1, <3>2, <3>3 DEF Fates, Ordered
  <2> QED BY <2>11, <2>12, <2>13, <2>14 DEF Fates
<1> QED BY <1>3, <1>4, <1>5 DEF Receive

LEMMA ProcessFates ==
  ASSUME Shape, Fates, Shape', NEW w \in Channels, Process(w)
  PROVE  Fates'
<1>1. /\ UNCHANGED <<starts, producers, channels, dropped>>
      /\ workers' = [workers EXCEPT ![w].at = "read", ![w].holds = <<>>]
  BY DEF Process
<1>2. \A p \in Producers : Proceeds(p)
  BY <1>1 DEF Proceeds, Shape, TypeOK, Producing
<1>3. PICK r0 \in Request :
        /\ workers[w].holds = <<r0>>
        /\ \/ written' = Append(written, r0) /\ UNCHANGED discarded
           \/ discarded' = discarded \cup {r0} /\ UNCHANGED written
  BY ProcessShape
<1>4. HeldBy(w, r0) /\ Held(r0) /\ \A r \in Request : HeldBy(w, r) => r = r0
  BY <1>3 DEF HeldBy, Held
<1>5. /\ ~Buffered(r0) /\ ~Written(r0) /\ r0 \notin dropped /\ r0 \notin discarded
      /\ \A v \in Channels : HeldBy(v, r0) => v = w
  BY <1>4 DEF Fates, Apart, Once
<1>6. \A v \in Channels, r \in Request : HeldBy(v, r)' <=> HeldBy(v, r) /\ v # w
  <2>1. /\ \A v \in Channels \ {w} : workers'[v].holds = workers[v].holds
        /\ workers'[w].holds = <<>>
    BY <1>1 DEF Shape, TypeOK, Working
  <2> QED BY <2>1 DEF HeldBy
<1>7. \A q \in Channels, i \in Nat, r \in Request : InBuffer(q, i, r)' <=> InBuffer(q, i, r)
  BY <1>1 DEF InBuffer
<1>8. \A r \in Request : /\ Buffered(r)' <=> Buffered(r)
                         /\ Held(r)' <=> Held(r) /\ r # r0
  BY <1>4, <1>5, <1>6, <1>7 DEF Buffered, Held
<1>9. PICK i0 \in Nat : /\ i0 = Len(written) + 1
                        /\ \A i \in Nat, r \in Request : InLog(i, r) => i < i0
  BY LenProperties DEF Shape, TypeOK, InLog
<1>10. /\ \A i \in Nat, r \in Request :
            InLog(i, r)' <=> InLog(i, r) \/ (i = i0 /\ r = r0 /\ r0 \notin discarded')
       /\ \A r \in Request : r \in discarded' => r \in discarded \/ r = r0
  <2>1. CASE written' = Append(written, r0) /\ UNCHANGED discarded
    <3>1. \A i \in Nat, r \in Request :
            i \in 1..Len(Append(written, r0)) /\ Append(written, r0)[i] = r
              <=> (i \in 1..Len(written) /\ written[i] = r) \/ (i = i0 /\ r = r0)
      BY <1>9, AppendPlaces DEF Shape, TypeOK
    <3> QED BY <1>5, <2>1, <3>1 DEF InLog
  <2>2. CASE discarded' = discarded \cup {r0} /\ UNCHANGED written
    BY <2>2 DEF InLog
  <2> QED BY <1>3, <2>1, <2>2
<1>11. \A r \in Request : Written(r)' <=> Written(r) \/ (r = r0 /\ r0 \notin discarded')
  BY <1>10 DEF Written
<1>12. Sent'
  BY <1>1, <1>2, <1>4, <1>8, <1>10, <1>11, HandedOverStays DEF Fates, Sent, Placed, Shape, TypeOK
<1>13. Once'
  BY <1>5, <1>6, <1>7, <1>10 DEF Fates, Once, Written
<1>14. Apart'
  BY <1>1, <1>5, <1>8, <1>10, <1>11 DEF Fates, Apart
<1>15. Ordered'
  <2> SUFFICES ASSUME starts <= 1, NEW r \in Request, NEW s \in Request, r.by = s.by
               PROVE  /\ \A q \in Channels, i, j \in Nat :
                           InBuffer(q, i, r)' /\ InBuffer(q, j, s)' /\ i < j => r.n < s.n
                      /\ Buffered(s)' /\ (Held(r)' \/ Written(r)') => r.n < s.n
                      /\ Held(s)' /\ Written(r)' => r.n < s.n
                      /\ \A i, j \in Nat : InLog(i, r)' /\ InLog(j, s)' /\ i < j => r.n < s.n
    BY <1>1 DEF Ordered
  <2>1. Buffered(s)' /\ (Held(r)' \/ Written(r)') => r.n < s.n
    BY <1>4, <1>8, <1>11 DEF Fates, Ordered
  <2>2. ~Held(s)'
    <3>1. \A v \in Channels : ~HeldBy(v, s)'
      BY <1>4, <1>6, OneChannel
    <3> QED BY <3>1 DEF Held
  <2>3. \A i, j \in Nat : InLog(i, r)' /\ InLog(j, s)' /\ i < j => r.n < s.n
    <3> SUFFICES ASSUME NEW i \in Nat, NEW j \in Nat, InLog(i, r)', InLog(j, s)', i < j
                 PROVE  r.n < s.n
      OBVIOUS
    <3>1. CASE InLog(i, r) /\ InLog(j, s)
      BY <3>1 DEF Fates, Ordered
    <3>2. CASE InLog(i, r) /\ s = r0
      BY <1>4, <3>2 DEF Fates, Ordered, Written
    <3>3. CASE i = i0
      BY <1>9, <1>10, <3>3
    <3> QED BY <1>10, <3>1, <3>2, <3>3
  <2> QED BY <1>7, <2>1, <2>2, <2>3 DEF Fates, Ordered
<1> QED BY <1>12, <1>13, <1>14, <1>15 DEF Fates

LEMMA NextFates == Shape /\ Fates /\ [Next]_vars => Fates'
<1> SUFFICES ASSUME Shape, Fates, [Next]_vars, Shape' PROVE Fates'
  BY NextShape
<1>1. ASSUME \A p \in Producers : Proceeds(p),
             \A q \in Channels : channels'[q].buffer = channels[q].buffer,
             \/ StartLogWorker
             \/ starts' = starts /\ \A w \in Channels : workers'[w].holds = workers[w].holds,
             UNCHANGED <<written, dropped, discarded>>
      PROVE  Fates'
  <2>1. starts <= starts' /\ \A w \in Channels : workers'[w].holds = workers[w].holds
    BY <1>1, StartShape, LogQueueAssumption DEF Shape, TypeOK
  <2> QED BY <1>1, <2>1, StillFates
<1>2. ASSUME NEW p \in Producers, NEW at, Goes(p, at),
             at \in Sending => producers[p].at \in Sending
      PROVE  \A x \in Producers : Proceeds(x)
  <2>1. \A x \in Producers : /\ producers'[x].n = producers[x].n /\ producers[x].n \in Nat
                             /\ x # p => producers'[x] = producers[x]
                             /\ x = p => producers'[x].at = at
    BY <1>2 DEF Goes, Shape, TypeOK, Producing
  <2> QED BY <1>2, <2>1 DEF Proceeds
<1>3. ASSUME NEW p \in Producers, Log(p) PROVE Fates'
  <2>1. \A x \in Producers : Proceeds(x)
    <3>1. \A x \in Producers : /\ x # p => producers'[x] = producers[x]
                               /\ x = p => producers'[x].n = producers[x].n + 1
                               /\ producers[x].n \in Nat
      BY <1>3 DEF Log, Shape, TypeOK, Producing
    <3> QED BY <3>1 DEF Proceeds
  <2> QED BY <1>1, <1>3, <2>1 DEF Log
<1>4. ASSUME NEW p \in Producers, NEW at \in Sending, NEW c, producers[p].at \in Sending,
             producers' = [producers EXCEPT ![p].at = at, ![p].on = logQueue, ![p].constrained = c],
             UNCHANGED <<starts, channels, workers, written, dropped, discarded>>
      PROVE  Fates'
  <2>1. \A x \in Producers : /\ producers'[x].n = producers[x].n /\ producers[x].n \in Nat
                             /\ x # p => producers'[x] = producers[x]
    BY <1>4 DEF Shape, TypeOK, Producing
  <2>2. \A x \in Producers : Proceeds(x)
    <3>1. producers[p].at \in Sending
      BY <1>4
    <3> QED BY <2>1, <3>1 DEF Proceeds
  <2> QED BY <1>1, <1>4, <2>2
<1>5. ASSUME NEW p \in Producers, Sends(p) PROVE Fates'
  <2>1. CASE Check(p)
    <3>1. \A x \in Producers : Proceeds(x)
      BY <1>2, <2>1 DEF Check, At, Sending
    <3> QED BY <1>1, <2>1, <3>1 DEF Check
  <2>2. CASE Start(p)
    <3>1. \A x \in Producers : Proceeds(x)
      BY <1>2, <2>2 DEF Start, At, Sending
    <3> QED BY <1>1, <2>2, <3>1 DEF Start
  <2>3. CASE Choose(p)
    <3>1. PICK c \in BOOLEAN : producers' = [producers EXCEPT ![p].at = "send", ![p].on = logQueue,
                                                              ![p].constrained = c]
      BY <2>3 DEF Choose
    <3>2. /\ producers[p].at \in Sending /\ "send" \in Sending
          /\ UNCHANGED <<starts, channels, workers, written, dropped, discarded>>
      BY <2>3 DEF Choose, At, Sending
    <3> QED BY <1>4, <3>1, <3>2
  <2>4. CASE Enqueue(p)
    BY <2>4, EnqueueFates DEF Enqueue
  <2>5. ASSUME Goes(p, "panicked"), UNCHANGED <<starts, channels, workers, written, dropped, discarded>>
        PROVE  Fates'
    <3>1. \A x \in Producers : Proceeds(x)
      BY <1>2, <2>5 DEF Sending
    <3> QED BY <1>1, <2>5, <3>1
  <2>6. CASE Timeout(p)
    <3>1. CASE producers[p].constrained
      BY <2>6, <3>1, DropFates DEF Timeout, At, Sending
    <3>2. CASE ~producers[p].constrained
      <4> DEFINE at == IF p \in Web THEN "retry" ELSE "block"
      <4>1. /\ producers' = [producers EXCEPT ![p].on = logQueue, ![p].at = at]
            /\ UNCHANGED <<starts, channels, workers, written, dropped, discarded>>
            /\ producers[p].at \in Sending
        BY <2>6, <3>2 DEF Timeout, At, Sending
      <4>2. producers' = [producers EXCEPT ![p].at = at, ![p].on = logQueue,
                                           ![p].constrained = producers[p].constrained]
        BY <4>1 DEF Producing, Shape, TypeOK
      <4>3. at \in Sending
        BY DEF Sending
      <4> HIDE DEF at
      <4> QED BY <1>4, <4>1, <4>2, <4>3
    <3> QED BY <3>1, <3>2
  <2>7. CASE Retry(p)
    BY <2>5, <2>7, EnqueueFates, DropFates DEF Retry, At, Sending
  <2> QED BY <1>5, <2>1, <2>2, <2>3, <2>4, <2>5, <2>6, <2>7 DEF Sends, SendPanics
<1>6. ASSUME NEW w \in Channels, Works(w) PROVE Fates'
  <2>1. CASE ReadQueue(w)
    <3>1. \A x \in Producers : Proceeds(x)
      BY <2>1 DEF ReadQueue, Proceeds, Shape, TypeOK, Producing
    <3> QED BY <1>1, <2>1, <3>1, ReadShape DEF ReadQueue
  <2> QED BY <1>6, <2>1, ReceiveFates, ProcessFates DEF Works
<1>7. CASE LoggingOn \/ LoggingOff \/ Switches
  <2>1. \A x \in Producers : Proceeds(x)
    BY <1>2, <1>7, LogQueueAssumption
    DEF LoggingOn, LoggingOff, Switches, OnStarts, OffFlushed, StopCheck, StopLock, StopDrained,
        StopClose, StopForget, StopFlag, Sending
  <2>2. CASE OnStarts
    BY <1>1, <2>1, <2>2 DEF OnStarts
  <2>3. CASE StopClose
    <3>1. \A q \in Channels : channels'[q].buffer = channels[q].buffer
      BY <2>3 DEF StopClose, Shape, TypeOK, Channel
    <3> QED BY <1>1, <2>1, <2>3, <3>1 DEF StopClose
  <2>4. CASE ~OnStarts /\ ~StopClose
    BY <1>1, <1>7, <2>1, <2>4
    DEF LoggingOn, LoggingOff, Switches, OffFlushed, StopCheck, StopLock, StopDrained,
        StopForget, StopFlag
  <2> QED BY <2>2, <2>3, <2>4
<1>8. CASE UNCHANGED vars
  <2>1. \A x \in Producers : Proceeds(x)
    BY <1>8 DEF vars, Proceeds, Shape, TypeOK, Producing
  <2> QED BY <1>1, <1>8, <2>1 DEF vars
<1> QED BY <1>3, <1>5, <1>6, <1>7, <1>8 DEF Next

LEMMA InitFates == Init => Fates
<1> SUFFICES ASSUME Init PROVE Fates
  OBVIOUS
<1>1. \A r \in Request : ~Buffered(r) /\ ~Held(r) /\ ~Written(r) /\ r \notin dropped /\ r \notin discarded
  <2>1. /\ \A q \in Channels : channels[q].buffer = <<>> /\ workers[q].holds = <<>>
        /\ written = <<>> /\ dropped = {} /\ discarded = {}
    BY DEF Init
  <2>2. Len(<<>>) = 0 /\ \A r \in Request : <<>> # <<r>>
    BY EmptySeq
  <2> QED BY <2>1, <2>2 DEF Buffered, InBuffer, Held, HeldBy, Written, InLog
<1> QED BY <1>1 DEF Fates, Sent, Placed, Once, Apart, Ordered, Buffered, Held, Written

LEMMA QueueFates == Spec => [](Shape /\ Fates)
<1>1. Spec => []Shape
  BY QueueShape
<1> QED BY <1>1, InitFates, NextFates, PTL DEF Spec

LEMMA PlacesOf ==
  ASSUME NEW r, NEW x \in Places(r)
  PROVE  \/ \E q \in Channels, i \in Nat : x = <<"buffer", <<q, i>>>> /\ InBuffer(q, i, r)
         \/ \E w \in Channels : x = <<"worker", <<w, 1>>>> /\ HeldBy(w, r)
         \/ \E i \in Nat : x = <<"written", <<1, i>>>> /\ InLog(i, r)
         \/ x = <<"dropped", <<1, 1>>>> /\ r \in dropped
         \/ x = <<"discarded", <<1, 1>>>> /\ r \in discarded
<1>1. QueueSize \in Nat
  BY LogQueueAssumption
<1> QED BY <1>1 DEF Places, InBuffer, HeldBy, InLog

(* A request is in one place of one buffer, in the hands of one worker,   *)
(* written once, dropped or discarded, and never in two of these          *)
(* (queueLogRequest, logWorker).                                          *)
THEOREM RequestsHaveOneFate == Spec => []OneFate
<1>1. ASSUME Fates PROVE OneFate
  <2> SUFFICES ASSUME NEW r \in Request, NEW a \in Places(r), NEW b \in Places(r)
               PROVE  a = b
    BY DEF OneFate
  <2> QED BY <1>1, PlacesOf DEF Fates, Once, Apart, Buffered, Held, Written
<1> QED BY <1>1, QueueFates, PTL

(* Until a worker is started again the log has each producer's requests   *)
(* in the order in which it made them.                                    *)
THEOREM RequestsStayInOrder == Spec => []InOrder
<1>1. ASSUME Shape, Fates PROVE InOrder
  <2> SUFFICES ASSUME starts <= 1, NEW i \in 1..Len(written), NEW j \in 1..Len(written),
                      i < j, written[i].by = written[j].by
               PROVE  written[i].n < written[j].n
    BY DEF InOrder
  <2>1. /\ i \in Nat /\ j \in Nat /\ written[i] \in Request /\ written[j] \in Request
        /\ InLog(i, written[i]) /\ InLog(j, written[j])
    BY <1>1, LenProperties, ElementOfSeq DEF Shape, TypeOK, InLog
  <2> QED BY <1>1, <2>1 DEF Fates, Ordered
<1> QED BY <1>1, QueueFates, PTL
=============================================================================
