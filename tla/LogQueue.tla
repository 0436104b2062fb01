------------------------------ MODULE LogQueue ------------------------------
(***************************************************************************)
(* The background log queue (logging.go): producers hand requests to a     *)
(* bounded channel, a worker takes them out and writes them, and LOGGING   *)
(* ON and OFF start and stop the worker.                                   *)
(*                                                                         *)
(* Every start makes a channel and a worker.  Workers never end: each one  *)
(* reads the global logQueue before it receives, goes on after its channel *)
(* was closed, and stays for good when it read nil.                        *)
(***************************************************************************)
EXTENDS Naturals, Sequences

CONSTANTS
  Producers,    \* goroutines that log
  Web,          \* those of the web server, which log accesses
  Script,       \* the one that runs LOGGING ON and LOGGING OFF
  MaxRequests,  \* bound on the requests of each producer, a function
  MaxStarts,    \* bound on the starts of a worker
  QueueSize     \* logQueueSize

ASSUME LogQueueAssumption ==
  /\ Web \subseteq Producers /\ Script \in Producers \ Web
  /\ MaxRequests \in [Producers -> Nat] /\ MaxStarts \in Nat /\ QueueSize \in Nat \ {0}

VARIABLES
  loggingEnabled,
  logWorkerRunning,
  logQueue,        \* the channel in use, Nil between a stop and a start
  starts,          \* number of channels, and of workers, made
  channels,        \* their buffers, and whether they are closed
  workers,
  locked,          \* workerMutex is held by a stop that waits
  producers,       \* where each is in queueLogRequest, LOGGING ON or OFF
  written,         \* the log
  dropped,         \* requests given up when the queue was full
  discarded        \* requests taken out of the queue and not written

vars == <<loggingEnabled, logWorkerRunning, logQueue, starts, channels,
          workers, locked, producers, written, dropped, discarded>>

Nil == 0
Channels == 1..MaxStarts
Request == UNION {[by : {p}, n : 1..MaxRequests[p]] : p \in Producers}
IsWebAccess(r) == r.by \in Web

Init ==
  /\ loggingEnabled = FALSE
  /\ logWorkerRunning = FALSE
  /\ logQueue = Nil
  /\ starts = 0
  /\ channels = [q \in Channels |-> [buffer |-> <<>>, closed |-> FALSE]]
  /\ workers = [w \in Channels |-> [at |-> "none", on |-> Nil, holds |-> <<>>]]
  /\ locked = FALSE
  /\ producers =
       [p \in Producers |-> [at |-> "idle", n |-> 0, on |-> Nil, constrained |-> FALSE]]
  /\ written = <<>>
  /\ dropped = {}
  /\ discarded = {}

-----------------------------------------------------------------------------
QueueLength == IF logQueue = Nil THEN 0 ELSE Len(channels[logQueue].buffer)

Current(p) == [by |-> p, n |-> producers[p].n]
At(p, at) == producers[p].at = at
Goes(p, at) == producers' = [producers EXCEPT ![p].at = at]

(* startLogWorker, under the lock. *)
StartLogWorker ==
  /\ ~locked
  /\ IF logWorkerRunning
     THEN UNCHANGED <<logWorkerRunning, logQueue, starts, workers>>
     ELSE /\ starts < MaxStarts
          /\ starts' = starts + 1
          /\ logQueue' = starts + 1
          /\ logWorkerRunning' = TRUE
          /\ workers' = [workers EXCEPT ![starts + 1].at = "read"]

(* queueLogRequest.  Accesses are queued even when logging is off. *)
Log(p) ==
  /\ At(p, "idle")
  /\ producers[p].n < MaxRequests[p]
  /\ loggingEnabled \/ p \in Web
  /\ producers' = [producers EXCEPT ![p].at = "check", ![p].n = @ + 1]
  /\ UNCHANGED <<loggingEnabled, logWorkerRunning, logQueue, starts, channels,
                 workers, locked, written, dropped, discarded>>

(* Is there a worker?  Under the lock, which is released again. *)
Check(p) ==
  /\ At(p, "check")
  /\ ~locked
  /\ Goes(p, IF logWorkerRunning /\ logQueue # Nil THEN "choose" ELSE "start")
  /\ logWorkerRunning' = (logWorkerRunning /\ logQueue # Nil)
  /\ UNCHANGED <<loggingEnabled, logQueue, starts, channels, workers, locked,
                 written, dropped, discarded>>

Start(p) ==
  /\ At(p, "start")
  /\ StartLogWorker
  /\ Goes(p, "choose")
  /\ UNCHANGED <<loggingEnabled, channels, locked, written, dropped, discarded>>

(* The select evaluates logQueue once; an access that finds the queue     *)
(* three quarters full may be marked for dropping.                        *)
Choose(p) ==
  /\ At(p, "choose")
  /\ \E constrained \in BOOLEAN :
       /\ constrained => p \in Web /\ 4 * QueueLength > 3 * QueueSize
       /\ producers' = [producers EXCEPT ![p].at = "send", ![p].on = logQueue,
                                         ![p].constrained = constrained]
  /\ UNCHANGED <<loggingEnabled, logWorkerRunning, logQueue, starts, channels,
                 workers, locked, written, dropped, discarded>>

HasSpace(q) ==
  q # Nil /\ ~channels[q].closed /\ Len(channels[q].buffer) < QueueSize

Send(p, at) ==
  /\ At(p, at)
  /\ HasSpace(producers[p].on)
  /\ channels' = [channels EXCEPT ![producers[p].on].buffer = Append(@, Current(p))]

(* The request is sent at once, or in the blocking send of a critical one. *)
Enqueue(p) ==
  /\ Send(p, "send") \/ Send(p, "block")
  /\ Goes(p, "idle")
  /\ UNCHANGED <<loggingEnabled, logWorkerRunning, logQueue, starts, workers,
                 locked, written, dropped, discarded>>

(* A send on a closed channel panics. *)
SendPanics(p) ==
  /\ At(p, "send") \/ At(p, "block")
  /\ producers[p].on # Nil /\ channels[producers[p].on].closed
  /\ Goes(p, "panicked")
  /\ UNCHANGED <<loggingEnabled, logWorkerRunning, logQueue, starts, channels,
                 workers, locked, written, dropped, discarded>>

CannotSend(p) ==
  IF producers[p].on = Nil THEN TRUE
  ELSE /\ ~channels[producers[p].on].closed
       /\ Len(channels[producers[p].on].buffer) >= QueueSize

(* A mistake to catch: every request is dropped when the queue is full. *)
TimeoutDropsAll(p) ==
  /\ At(p, "send")
  /\ dropped' = dropped \cup {Current(p)}
  /\ Goes(p, "idle")
  /\ UNCHANGED <<loggingEnabled, logWorkerRunning, logQueue, starts, channels,
                 workers, locked, written, discarded>>

(* After 100 ms the select may take the timer, also when there is room    *)
(* again: a marked access is dropped, any other is tried once more, and a *)
(* critical one waits; both evaluate logQueue again.                      *)
Timeout(p) ==
  /\ At(p, "send")
  /\ IF producers[p].constrained
     THEN Goes(p, "idle") /\ dropped' = dropped \cup {Current(p)}
     ELSE /\ producers' = [producers EXCEPT ![p].on = logQueue,
                                            ![p].at = IF p \in Web THEN "retry" ELSE "block"]
          /\ UNCHANGED dropped
  /\ UNCHANGED <<loggingEnabled, logWorkerRunning, logQueue, starts, channels,
                 workers, locked, written, discarded>>

(* A mistake to catch: a request that was sent counts as dropped. *)
RetryForgetsOutcome(p) ==
  /\ Send(p, "retry")
  /\ Goes(p, "idle")
  /\ dropped' = dropped \cup {Current(p)}
  /\ UNCHANGED <<loggingEnabled, logWorkerRunning, logQueue, starts, workers,
                 locked, written, discarded>>

(* The second attempt of an access does not wait. *)
Retry(p) ==
  /\ \/ Send(p, "retry") /\ Goes(p, "idle") /\ UNCHANGED dropped
     \/ /\ At(p, "retry") /\ CannotSend(p)
        /\ Goes(p, "idle")
        /\ dropped' = dropped \cup {Current(p)}
        /\ UNCHANGED channels
     \/ /\ At(p, "retry")
        /\ producers[p].on # Nil /\ channels[producers[p].on].closed
        /\ Goes(p, "panicked")
        /\ UNCHANGED <<channels, dropped>>
  /\ UNCHANGED <<loggingEnabled, logWorkerRunning, logQueue, starts, workers,
                 locked, written, discarded>>

-----------------------------------------------------------------------------
(* A mistake to catch: the worker does not look for a second request. *)
ReadQueueOnce(w) ==
  /\ workers[w].at = "read"
  /\ workers' = [workers EXCEPT
       ![w].at = IF logQueue = Nil \/ workers[w].on # Nil THEN "stuck" ELSE "receive",
       ![w].on = logQueue]
  /\ UNCHANGED <<loggingEnabled, logWorkerRunning, logQueue, starts, channels,
                 locked, producers, written, dropped, discarded>>

(* The worker reads the global, and stays in a receive from nil. *)
ReadQueue(w) ==
  /\ workers[w].at = "read"
  /\ workers' = [workers EXCEPT ![w].at = IF logQueue = Nil THEN "stuck" ELSE "receive",
                                ![w].on = logQueue]
  /\ UNCHANGED <<loggingEnabled, logWorkerRunning, logQueue, starts, channels,
                 locked, producers, written, dropped, discarded>>

(* A mistake to catch: the newest request is taken. *)
ReceiveLast(w) ==
  /\ workers[w].at = "receive"
  /\ LET b == channels[workers[w].on].buffer
     IN  /\ b # <<>>
         /\ workers' = [workers EXCEPT ![w].at = "process", ![w].holds = <<b[Len(b)]>>]
         /\ channels' = [channels EXCEPT ![workers[w].on].buffer = SubSeq(b, 1, Len(b) - 1)]
  /\ UNCHANGED <<loggingEnabled, logWorkerRunning, logQueue, starts, locked,
                 producers, written, dropped, discarded>>

(* A closed channel gives what is left in it, and then nothing. *)
Receive(w) ==
  /\ workers[w].at = "receive"
  /\ LET b == channels[workers[w].on].buffer
     IN  \/ /\ b # <<>>
            /\ workers' = [workers EXCEPT ![w].at = "process", ![w].holds = <<Head(b)>>]
            /\ channels' = [channels EXCEPT ![workers[w].on].buffer = Tail(b)]
         \/ /\ b = <<>> /\ channels[workers[w].on].closed
            /\ workers' = [workers EXCEPT ![w].at = "read"]
            /\ UNCHANGED channels
  /\ UNCHANGED <<loggingEnabled, logWorkerRunning, logQueue, starts, locked,
                 producers, written, dropped, discarded>>

Process(w) ==
  /\ workers[w].at = "process"
  /\ LET r == Head(workers[w].holds)
     IN  IF loggingEnabled \/ IsWebAccess(r)
         THEN written' = Append(written, r) /\ UNCHANGED discarded
         ELSE discarded' = discarded \cup {r} /\ UNCHANGED written
  /\ workers' = [workers EXCEPT ![w].at = "read", ![w].holds = <<>>]
  /\ UNCHANGED <<loggingEnabled, logWorkerRunning, logQueue, starts, channels,
                 locked, producers, dropped>>

-----------------------------------------------------------------------------
(* LOGGING ON. *)
LoggingOn ==
  /\ At(Script, "idle")
  /\ loggingEnabled' = TRUE
  /\ Goes(Script, "on")
  /\ UNCHANGED <<logWorkerRunning, logQueue, starts, channels, workers, locked,
                 written, dropped, discarded>>

OnStarts ==
  /\ At(Script, "on")
  /\ StartLogWorker
  /\ Goes(Script, "idle")
  /\ UNCHANGED <<loggingEnabled, channels, locked, written, dropped, discarded>>

(* LOGGING OFF waits for an empty queue, switches logging off, and calls  *)
(* stopLogWorker.                                                         *)
LoggingOff ==
  /\ At(Script, "idle")
  /\ Goes(Script, "flush")
  /\ UNCHANGED <<loggingEnabled, logWorkerRunning, logQueue, starts, channels,
                 workers, locked, written, dropped, discarded>>

OffFlushed ==
  /\ At(Script, "flush")
  /\ QueueLength = 0
  /\ loggingEnabled' = FALSE
  /\ Goes(Script, "off")
  /\ UNCHANGED <<logWorkerRunning, logQueue, starts, channels, workers, locked,
                 written, dropped, discarded>>

(* stopLogWorker looks before it locks, ... *)
StopCheck ==
  /\ At(Script, "off")
  /\ Goes(Script, IF logQueue # Nil /\ logWorkerRunning THEN "stop" ELSE "unlocked")
  /\ UNCHANGED <<loggingEnabled, logWorkerRunning, logQueue, starts, channels,
                 workers, locked, written, dropped, discarded>>

(* ... waits for an empty queue with the lock held, ... *)
StopLock ==
  /\ At(Script, "stop")
  /\ locked' = TRUE
  /\ Goes(Script, "drain")
  /\ UNCHANGED <<loggingEnabled, logWorkerRunning, logQueue, starts, channels,
                 workers, written, dropped, discarded>>

StopDrained ==
  /\ At(Script, "drain")
  /\ QueueLength = 0
  /\ Goes(Script, "drained")
  /\ UNCHANGED <<loggingEnabled, logWorkerRunning, logQueue, starts, channels,
                 workers, locked, written, dropped, discarded>>

(* ... closes the channel, in which there may be a request again, ... *)
StopClose ==
  /\ At(Script, "drained")
  /\ channels' = [channels EXCEPT ![logQueue].closed = TRUE]
  /\ Goes(Script, "closed")
  /\ UNCHANGED <<loggingEnabled, logWorkerRunning, logQueue, starts, workers,
                 locked, written, dropped, discarded>>

(* ... forgets it and unlocks, ... *)
StopForget ==
  /\ At(Script, "closed")
  /\ logQueue' = Nil
  /\ locked' = FALSE
  /\ Goes(Script, "unlocked")
  /\ UNCHANGED <<loggingEnabled, logWorkerRunning, starts, channels, workers,
                 written, dropped, discarded>>

(* ... and resets the flag without the lock. *)
StopFlag ==
  /\ At(Script, "unlocked")
  /\ logWorkerRunning' = FALSE
  /\ Goes(Script, "idle")
  /\ UNCHANGED <<loggingEnabled, logQueue, starts, channels, workers, locked,
                 written, dropped, discarded>>

-----------------------------------------------------------------------------
Sends(p) ==
  \/ Check(p) \/ Start(p) \/ Choose(p) \/ Enqueue(p) \/ SendPanics(p)
  \/ Timeout(p) \/ Retry(p)
Works(w) == ReadQueue(w) \/ Receive(w) \/ Process(w)
Switches ==
  \/ OnStarts \/ OffFlushed \/ StopCheck \/ StopLock \/ StopDrained
  \/ StopClose \/ StopForget \/ StopFlag

Next ==
  \/ \E p \in Producers : Log(p) \/ Sends(p)
  \/ \E w \in Channels : Works(w)
  \/ LoggingOn \/ LoggingOff \/ Switches

(* The scheduler runs every goroutine that can run. *)
Fairness ==
  /\ \A p \in Producers : WF_vars(Sends(p))
  /\ \A w \in Channels : WF_vars(Works(w))
  /\ WF_vars(Switches)

Spec == Init /\ [][Next]_vars /\ Fairness

-----------------------------------------------------------------------------
(* The queue in use always has a worker that will come to it, whatever    *)
(* starts, stops and requests interleave: requests in it are not stranded. *)
QueueServed ==
  logQueue # Nil =>
    \E w \in Channels :
      \/ workers[w].at \in {"read", "process"}
      \/ workers[w].at = "receive" /\ workers[w].on = logQueue

(* A request has at most one fate: it is in one place of one buffer, in   *)
(* the hands of one worker, written once, dropped, or discarded.          *)
Places(r) ==
  ({"buffer"} \X {x \in Channels \X (1..QueueSize) :
                    LET b == channels[x[1]].buffer IN x[2] <= Len(b) /\ b[x[2]] = r})
  \cup ({"worker"} \X {<<w, 1>> : w \in {v \in Channels : workers[v].holds = <<r>>}})
  \cup ({"written"} \X {<<1, i>> : i \in {j \in 1..Len(written) : written[j] = r}})
  \cup {<<"dropped", <<1, 1>>>> : x \in {y \in {r} : y \in dropped}}
  \cup {<<"discarded", <<1, 1>>>> : x \in {y \in {r} : y \in discarded}}
OneFate == \A r \in Request : \A a, b \in Places(r) : a = b

(* "Under memory pressure, the system prioritizes critical logs and drops *)
(* less important ones": a full queue makes only accesses disappear.      *)
CriticalKept == \A r \in dropped : IsWebAccess(r)

(* Until a worker is started again, each producer's requests are written  *)
(* in the order in which it logged them.                                  *)
InOrder ==
  starts <= 1 =>
    \A i, j \in 1..Len(written) :
      i < j /\ written[i].by = written[j].by => written[i].n < written[j].n

(* LOGGING OFF returns once requests cease to come: the worker empties the *)
(* queue while stopLogWorker holds the lock that a start would need.       *)
OffReturns == At(Script, "flush") ~> At(Script, "idle")
=============================================================================
