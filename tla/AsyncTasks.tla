----------------------------- MODULE AsyncTasks -----------------------------
(***************************************************************************)
(* ASYNC, await and async_wait_startup (actor.go, lib-internal.go) over    *)
(* the call table.  The script launches functions in goroutines; each one  *)
(* runs its call in a slot of CallTable, blocks in a send on a channel of  *)
(* its own until await receives, and then marks its slot.  Handles of the  *)
(* tasks are kept in a map variable of the script.                         *)
(***************************************************************************)
EXTENDS CallTable, FiniteSets

CONSTANTS
  UserKeys,   \* keys the script may give in an ASYNC statement
  NoTask      \* no handle under this key

ASSUME AsyncAssumption ==
  /\ Goroutines = Tasks        \* the script itself makes no calls here
  /\ NoTask \notin Tasks
  /\ UserKeys \cap Slots = {}

VARIABLES
  life,              \* where each task's goroutine is, around its call
  sent,              \* the value each task offers on its channel
  handles,           \* the handle map: key -> task
  script,            \* what the script is doing
  todo,              \* keys await or async_wait_startup has yet to visit
  waitForAll,        \* await's second argument
  concurrent_funcs

asyncVars == <<life, sent, handles, script, todo, waitForAll, concurrent_funcs>>
allVars == <<vars, asyncVars>>

(* Without a key in the statement the key is made from the task's name,   *)
(* which is the function and its slot; a slot stands for that key.        *)
Keys == UserKeys \cup Slots
Held == {k \in Keys : handles[k] # NoTask}

(* What a task sends: a struct around its value, or around nothing when   *)
(* the function returned nothing; a bare nil when the function returned a *)
(* value but the slot has none.                                           *)
Nothing == "nothing"
BareNil == "bare nil"
Offer(t) ==
  IF produced[t] = NoValue THEN Nothing
  ELSE IF calltable[Top(t)].retvals = NoValue THEN BareNil
  ELSE calltable[Top(t)].retvals

AsyncInit ==
  /\ Init
  /\ life = [t \in Tasks |-> "none"]
  /\ sent = [t \in Tasks |-> Nothing]
  /\ handles = [k \in Keys |-> NoTask]
  /\ script = "runs"
  /\ todo = {}
  /\ waitForAll = FALSE
  /\ concurrent_funcs = 0

-----------------------------------------------------------------------------
(* ASYNC with a handle map: the slot is allocated and the handle stored   *)
(* under globlock; storing replaces what the key held.                    *)
AsyncCall(t) ==
  /\ script = "runs"
  /\ life[t] = "none"
  /\ Enter(t)
  /\ life' = [life EXCEPT ![t] = "created"]
  /\ \E k \in UserKeys \cup {loc'[t][1]} : handles' = [handles EXCEPT ![k] = t]
  /\ UNCHANGED <<sent, script, todo, waitForAll, concurrent_funcs>>

(* ASYNC nil f(): nobody keeps the channel. *)
AsyncNil(t) ==
  /\ script = "runs"
  /\ life[t] = "none"
  /\ Enter(t)
  /\ life' = [life EXCEPT ![t] = "created"]
  /\ UNCHANGED <<sent, handles, script, todo, waitForAll, concurrent_funcs>>

(* The goroutine: it closes "started", and then counts itself. *)
TaskStart(t) ==
  /\ life[t] = "created"
  /\ life' = [life EXCEPT ![t] = "started"]
  /\ UNCHANGED <<vars, sent, handles, script, todo, waitForAll, concurrent_funcs>>

TaskCount(t) ==
  /\ life[t] = "started"
  /\ life' = [life EXCEPT ![t] = "counted"]
  /\ concurrent_funcs' = concurrent_funcs + 1
  /\ UNCHANGED <<vars, sent, handles, script, todo, waitForAll>>

(* Call, and the read of its result. *)
TaskCall(t) ==
  /\ life[t] = "counted"
  /\ Publish(t) \/ Unname(t)
  /\ UNCHANGED asyncVars

TaskOffer(t) ==
  /\ life[t] = "counted"
  /\ TaskRead(t)
  /\ sent' = [sent EXCEPT ![t] = Offer(t)]
  /\ UNCHANGED <<life, handles, script, todo, waitForAll, concurrent_funcs>>

(* After the send: mark the slot, and leave. *)
TaskDispose(t) ==
  /\ life[t] = "received"
  /\ TaskMark(t)
  /\ life' = [life EXCEPT ![t] = "leaving"]
  /\ UNCHANGED <<sent, handles, script, todo, waitForAll, concurrent_funcs>>

TaskLeaveForgets(t) ==
  /\ life[t] = "leaving"
  /\ life' = [life EXCEPT ![t] = "none"]
  /\ sent' = [sent EXCEPT ![t] = Nothing]
  /\ UNCHANGED <<vars, handles, script, todo, waitForAll, concurrent_funcs>>

TaskLeave(t) ==
  /\ life[t] = "leaving"
  /\ life' = [life EXCEPT ![t] = "none"]
  /\ sent' = [sent EXCEPT ![t] = Nothing]
  /\ concurrent_funcs' = concurrent_funcs - 1
  /\ UNCHANGED <<vars, handles, script, todo, waitForAll>>

-----------------------------------------------------------------------------
(* await visits every key of the map once, in any order ... *)
Await ==
  /\ script = "runs"
  /\ script' = "awaits"
  /\ todo' = Held
  /\ waitForAll' \in BOOLEAN
  /\ UNCHANGED <<vars, life, sent, handles, concurrent_funcs>>

IsSending(t) == life[t] = "counted" /\ pc[t] = "sending"

AwaitReceiveKeepsHandle(k) ==
  /\ script = "awaits" /\ k \in todo
  /\ IsSending(handles[k])
  /\ todo' = todo \ {k}
  /\ sent[handles[k]] # BareNil
  /\ life' = [life EXCEPT ![handles[k]] = "received"]
  /\ UNCHANGED <<vars, sent, handles, script, waitForAll, concurrent_funcs>>

(* ... takes the result of a task that is ready and drops its handle; a   *)
(* bare nil fails the type assertion, and the panic leaves vlock locked   *)
AwaitReceive(k) ==
  /\ script = "awaits" /\ k \in todo
  /\ IsSending(handles[k])
  /\ todo' = todo \ {k}
  /\ life' = [life EXCEPT ![handles[k]] = "received"]
  /\ IF sent[handles[k]] = BareNil
     THEN script' = "panicked" /\ UNCHANGED handles
     ELSE handles' = [handles EXCEPT ![k] = NoTask] /\ UNCHANGED script
  /\ UNCHANGED <<vars, sent, waitForAll, concurrent_funcs>>

(* ... passes over one that is not ... *)
AwaitSkip(k) ==
  /\ script = "awaits" /\ k \in todo
  /\ ~IsSending(handles[k])
  /\ todo' = todo \ {k}
  /\ UNCHANGED <<vars, life, sent, handles, script, waitForAll, concurrent_funcs>>

(* ... and returns, or starts again while it waits for all. *)
AwaitPassEnds ==
  /\ script = "awaits" /\ todo = {}
  /\ \/ /\ waitForAll /\ Held # {}
        /\ todo' = Held
        /\ UNCHANGED <<script, waitForAll>>
     \/ /\ ~waitForAll \/ Held = {}
        /\ script' = "runs"
        /\ waitForAll' = FALSE
        /\ UNCHANGED todo
  /\ UNCHANGED <<vars, life, sent, handles, concurrent_funcs>>

(* async_wait_startup takes the handles of the map, and blocks on the     *)
(* "started" channel of each.                                             *)
WaitStartup ==
  /\ script = "runs" /\ Held # {}
  /\ script' = "waits startup"
  /\ todo' = Held
  /\ UNCHANGED <<vars, life, sent, handles, waitForAll, concurrent_funcs>>

StartupSeen(k) ==
  /\ script = "waits startup" /\ k \in todo
  /\ life[handles[k]] # "created"
  /\ todo' = todo \ {k}
  /\ script' = IF todo' = {} THEN "runs" ELSE script
  /\ UNCHANGED <<vars, life, sent, handles, waitForAll, concurrent_funcs>>

-----------------------------------------------------------------------------
TaskStep(t) ==
  \/ TaskStart(t) \/ TaskCount(t) \/ TaskCall(t) \/ TaskOffer(t)
  \/ TaskDispose(t) \/ TaskLeave(t)

WaitStep ==
  \/ \E k \in Keys : AwaitReceive(k) \/ AwaitSkip(k) \/ StartupSeen(k)
  \/ AwaitPassEnds

AsyncNext ==
  \/ \E t \in Tasks : AsyncCall(t) \/ AsyncNil(t) \/ TaskStep(t)
  \/ Await \/ WaitStartup \/ WaitStep

(* The scheduler runs every goroutine that can run, and a function that   *)
(* is called returns.  await visits every key of each pass, so that a     *)
(* task that stays ready is received.                                     *)
AsyncFairness ==
  /\ \A t \in Tasks : WF_allVars(TaskStep(t))
  /\ WF_allVars(WaitStep)

AsyncSpec == AsyncInit /\ [][AsyncNext]_allVars /\ AsyncFairness

-----------------------------------------------------------------------------
(* A handle in the map belongs to a task that has not been received: the  *)
(* changelog's "if a handle_id exists in handle_map then you should       *)
(* assume it is still running", and no two keys hold the same task.       *)
HandlesLive ==
  script # "panicked" =>
    \A k \in Held :
      /\ life[handles[k]] \in {"created", "started", "counted"}
      /\ \A j \in Held : handles[j] = handles[k] => j = k

(* concurrent_funcs, which switches the locking of variables on, counts   *)
(* exactly the task goroutines that run.                                  *)
ConcurrentExact ==
  concurrent_funcs =
    Cardinality({t \in Tasks : life[t] \in {"counted", "received", "leaving"}})

(* await and async_wait_startup end, with the script running on, or in    *)
(* the panic of a bare nil.                                               *)
WaitsEnd ==
  script \in {"awaits", "waits startup"} ~> script \in {"runs", "panicked"}
=============================================================================
