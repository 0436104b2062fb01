-------------------------- MODULE AsyncTasksProofs --------------------------
(***************************************************************************)
(* Safety of tasks for any goroutines, any table and any keys.  What tasks *)
(* and the script do to the call table is what CallTable allows, so what   *)
(* holds of the table holds of it under tasks; concurrent_funcs is exact;  *)
(* and the handles of the map are live and not shared.                     *)
(***************************************************************************)
EXTENDS AsyncTasks, CallTableProofs, FiniteSetTheorems

-----------------------------------------------------------------------------
(* Tasks over the call table *)

(* Every step of a task or of the script is a step of the call table, or   *)
(* leaves it alone.                                                        *)
LEMMA AsyncStepIsTableStep == [AsyncNext]_allVars => [Next]_vars
<1> SUFFICES ASSUME [AsyncNext]_allVars PROVE [Next]_vars
  OBVIOUS
<1>1. ASSUME NEW t \in Tasks, AsyncCall(t) \/ AsyncNil(t) PROVE Next
  BY <1>1, AsyncAssumption DEF AsyncCall, AsyncNil, Next, Step
<1>2. ASSUME NEW t \in Tasks, TaskStep(t) PROVE [Next]_vars
  <2>1. CASE TaskStart(t) \/ TaskCount(t) \/ TaskLeave(t)
    BY <2>1 DEF TaskStart, TaskCount, TaskLeave
  <2>2. CASE TaskCall(t) \/ TaskOffer(t) \/ TaskDispose(t)
    BY <2>2, AsyncAssumption DEF TaskCall, TaskOffer, TaskDispose, Next, Step
  <2> QED BY <1>2, <2>1, <2>2 DEF TaskStep
<1>3. CASE Await \/ WaitStartup \/ WaitStep
  BY <1>3 DEF Await, WaitStartup, WaitStep, AwaitReceive, AwaitSkip, StartupSeen, AwaitPassEnds
<1>4. CASE UNCHANGED allVars
  BY <1>4 DEF allVars
<1> QED BY <1>1, <1>2, <1>3, <1>4 DEF AsyncNext

(* The composition of tasks, awaits and calls uses the call table as       *)
(* Call, GetNextFnSpace and task do: AsyncSpec implements CallTable's.     *)
THEOREM TasksUseTheTable == AsyncSpec => Spec
<1>1. AsyncInit => Init
  BY DEF AsyncInit
<1> QED BY <1>1, AsyncStepIsTableStep, PTL DEF AsyncSpec, Spec

(* No task is ever run in the slot of a definition, whatever the script    *)
(* awaits, replaces or leaves.                                             *)
THEOREM TasksKeepDefinitions == AsyncSpec => []DefinitionsKept
  BY TasksUseTheTable, DefinitionsSafe, PTL

(* No slot is lost by tasks whose results are awaited late or never.       *)
THEOREM TasksLeakNoSlot == AsyncSpec => []NoSlotLeak
  BY TasksUseTheTable, NoLeak, PTL

-----------------------------------------------------------------------------
(* The inductive invariant *)

Lives == {"none", "created", "started", "counted", "received", "leaving"}

AsyncTypeOK ==
  /\ life \in [Tasks -> Lives]
  /\ handles \in [Keys -> Tasks \cup {NoTask}]
  /\ script \in {"runs", "awaits", "waits startup", "panicked"}
  /\ todo \subseteq Keys

(* Outside a wait there are no keys to visit, and in one they all have     *)
(* handles: an entry that is received is visited no more in this pass.     *)
TodoHeld ==
  /\ script = "runs" => todo = {}
  /\ script \in {"awaits", "waits startup"} => todo \subseteq Held

Running == {t \in Tasks : life[t] \in {"counted", "received", "leaving"}}

AInv ==
  /\ DInv
  /\ AsyncTypeOK
  /\ TodoHeld
  /\ HandlesLive
  /\ IsFiniteSet(Running)
  /\ ConcurrentExact

LEMMA InitAInv == AsyncInit => AInv
<1> SUFFICES ASSUME AsyncInit PROVE AInv
  OBVIOUS
<1>1. DInv
  BY InitDInv DEF AsyncInit
<1>2. AsyncTypeOK /\ TodoHeld
  BY DEF AsyncInit, AsyncTypeOK, TodoHeld, Lives
<1>3. HandlesLive
  BY DEF AsyncInit, HandlesLive, Held
<1>4. Running = {}
  BY DEF AsyncInit, Running
<1>5. IsFiniteSet(Running) /\ ConcurrentExact
  BY <1>4, FS_EmptySet DEF AsyncInit, ConcurrentExact, Running
<1> QED BY <1>1, <1>2, <1>3, <1>5 DEF AInv

(* Steps that leave the set of running goroutines as it is. *)
LEMMA SameRunning ==
  ASSUME AInv, Running' = Running, UNCHANGED concurrent_funcs
  PROVE  IsFiniteSet(Running)' /\ ConcurrentExact'
  BY DEF AInv, ConcurrentExact, Running

(* The keys a launch may take are keys of the map. *)
LEMMA LaunchKeys ==
  ASSUME DInv, DInv', NEW t \in Tasks, Enter(t)
  PROVE  UserKeys \cup {loc'[t][1]} \subseteq Keys
<1>1. loc' \in [Goroutines -> [Level -> Slots]]
  BY DEF DInv, TypeOK
<1>2. 1 \in Level
  BY CallTableAssumption DEF Level
<1> QED BY <1>1, <1>2, AsyncAssumption DEF Keys

(* A launch: its task was not running, so no handle is its own yet, and    *)
(* the new one replaces what the key held.                                 *)
LEMMA LaunchAInv ==
  ASSUME AInv, DInv', NEW t \in Tasks, AsyncCall(t) \/ AsyncNil(t)
  PROVE  AInv'
<1>1. /\ script = "runs" /\ life[t] = "none"
      /\ life' = [life EXCEPT ![t] = "created"]
      /\ UNCHANGED <<script, todo, concurrent_funcs>>
  BY DEF AsyncCall, AsyncNil
<1>2. \/ \E k \in Keys : handles' = [handles EXCEPT ![k] = t]
      \/ UNCHANGED handles
  BY LaunchKeys DEF AInv, AsyncCall, AsyncNil
<1>3. AsyncTypeOK'
  BY <1>1, <1>2 DEF AInv, AsyncTypeOK, Lives
<1>4. TodoHeld'
  BY <1>1 DEF AInv, TodoHeld
<1>5. HandlesLive'
  <2>1. \A k \in Held : handles[k] # t
    BY <1>1 DEF AInv, HandlesLive
  <2>2. ASSUME NEW k \in Keys, handles' = [handles EXCEPT ![k] = t] PROVE HandlesLive'
    BY <2>1, <2>2, <1>1, AsyncAssumption DEF AInv, AsyncTypeOK, HandlesLive, Held
  <2>3. CASE UNCHANGED handles
    BY <2>1, <2>3, <1>1 DEF AInv, AsyncTypeOK, HandlesLive, Held
  <2> QED BY <1>2, <2>2, <2>3
<1>6. Running' = Running
  BY <1>1 DEF AInv, AsyncTypeOK, Running
<1> QED BY <1>1, <1>3, <1>4, <1>5, <1>6, SameRunning DEF AInv

(* A step of a goroutine: one that was received is in no handle.           *)
LEMMA TaskAInv ==
  ASSUME AInv, DInv', NEW t \in Tasks, TaskStep(t)
  PROVE  AInv'
<1>1. UNCHANGED <<handles, script, todo>>
  BY DEF TaskStep, TaskStart, TaskCount, TaskCall, TaskOffer, TaskDispose, TaskLeave, asyncVars
<1>2. TodoHeld'
  BY <1>1 DEF AInv, TodoHeld, Held
<1>3. CASE TaskStart(t)
  <2>1. life[t] = "created" /\ life' = [life EXCEPT ![t] = "started"] /\ UNCHANGED concurrent_funcs
    BY <1>3 DEF TaskStart
  <2>2. AsyncTypeOK' /\ HandlesLive'
    BY <2>1, <1>1 DEF AInv, AsyncTypeOK, Lives, HandlesLive, Held
  <2>3. Running' = Running
    BY <2>1 DEF AInv, AsyncTypeOK, Running
  <2> QED BY <1>2, <2>1, <2>2, <2>3, SameRunning DEF AInv
<1>4. CASE TaskCount(t)
  <2>1. /\ life[t] = "started" /\ life' = [life EXCEPT ![t] = "counted"]
        /\ concurrent_funcs' = concurrent_funcs + 1
    BY <1>4 DEF TaskCount
  <2>2. AsyncTypeOK' /\ HandlesLive'
    BY <2>1, <1>1 DEF AInv, AsyncTypeOK, Lives, HandlesLive, Held
  <2>3. t \notin Running /\ Running' = Running \cup {t}
    BY <2>1 DEF AInv, AsyncTypeOK, Running
  <2>4. IsFiniteSet(Running') /\ Cardinality(Running') = Cardinality(Running) + 1
    BY <2>3, FS_AddElement DEF AInv
  <2>5. ConcurrentExact'
    BY <2>1, <2>4 DEF AInv, ConcurrentExact, Running
  <2> QED BY <1>2, <2>2, <2>4, <2>5 DEF AInv
<1>5. CASE TaskCall(t) \/ TaskOffer(t)
  <2>1. UNCHANGED <<life, concurrent_funcs>>
    BY <1>5 DEF TaskCall, TaskOffer, asyncVars
  <2>2. AsyncTypeOK' /\ HandlesLive' /\ Running' = Running
    BY <2>1, <1>1 DEF AInv, AsyncTypeOK, HandlesLive, Held, Running
  <2> QED BY <1>2, <2>1, <2>2, SameRunning DEF AInv
<1>6. CASE TaskDispose(t)
  <2>1. life[t] = "received" /\ life' = [life EXCEPT ![t] = "leaving"] /\ UNCHANGED concurrent_funcs
    BY <1>6 DEF TaskDispose
  <2>2. AsyncTypeOK' /\ HandlesLive'
    BY <2>1, <1>1 DEF AInv, AsyncTypeOK, Lives, HandlesLive, Held
  <2>3. Running' = Running
    BY <2>1 DEF AInv, AsyncTypeOK, Running
  <2> QED BY <1>2, <2>1, <2>2, <2>3, SameRunning DEF AInv
<1>7. CASE TaskLeave(t)
  <2>1. /\ life[t] = "leaving" /\ life' = [life EXCEPT ![t] = "none"]
        /\ concurrent_funcs' = concurrent_funcs - 1
    BY <1>7 DEF TaskLeave
  <2>2. AsyncTypeOK' /\ HandlesLive'
    BY <2>1, <1>1 DEF AInv, AsyncTypeOK, Lives, HandlesLive, Held
  <2>3. t \in Running /\ Running' = Running \ {t}
    BY <2>1 DEF AInv, AsyncTypeOK, Running
  <2>4. IsFiniteSet(Running') /\ Cardinality(Running') = Cardinality(Running) - 1
    BY <2>3, FS_RemoveElement DEF AInv
  <2>5. ConcurrentExact'
    BY <2>1, <2>4 DEF AInv, ConcurrentExact, Running
  <2> QED BY <1>2, <2>2, <2>4, <2>5 DEF AInv
<1> QED BY <1>3, <1>4, <1>5, <1>6, <1>7 DEF TaskStep

(* A receive takes a task out of the map while its goroutine leaves: no    *)
(* other key had it.  After a bare nil the script is over.                 *)
LEMMA ReceiveAInv ==
  ASSUME AInv, DInv', NEW k \in Keys, AwaitReceive(k)
  PROVE  AInv'
<1>1. /\ k \in Held /\ handles[k] \in Tasks
      /\ life[handles[k]] = "counted"
      /\ life' = [life EXCEPT ![handles[k]] = "received"]
      /\ todo' = todo \ {k}
      /\ UNCHANGED concurrent_funcs
  BY DEF AwaitReceive, IsSending, AInv, AsyncTypeOK, TodoHeld, Held
<1>2. \/ script' = "panicked" /\ UNCHANGED handles
      \/ handles' = [handles EXCEPT ![k] = NoTask] /\ script = "awaits" /\ UNCHANGED script
  BY DEF AwaitReceive
<1>3. AsyncTypeOK'
  BY <1>1, <1>2 DEF AInv, AsyncTypeOK, Lives
<1>4. TodoHeld' /\ HandlesLive'
  <2>1. CASE script' = "panicked"
    BY <2>1 DEF TodoHeld, HandlesLive
  <2>2. CASE handles' = [handles EXCEPT ![k] = NoTask] /\ script = "awaits" /\ UNCHANGED script
    <3>1. Held' = Held \ {k}
      BY <2>2 DEF Held, AInv, AsyncTypeOK
    <3>2. TodoHeld'
      BY <2>2, <3>1, <1>1 DEF TodoHeld, AInv
    <3>3. \A j \in Held' : handles'[j] = handles[j] /\ handles[j] # handles[k]
      BY <2>2, <3>1, <1>1 DEF AInv, AsyncTypeOK, HandlesLive, Held
    <3>4. HandlesLive'
      BY <2>2, <3>1, <3>3, <1>1 DEF AInv, AsyncTypeOK, HandlesLive, Held
    <3> QED BY <3>2, <3>4
  <2> QED BY <1>2, <2>1, <2>2
<1>5. Running' = Running
  BY <1>1 DEF AInv, AsyncTypeOK, Running
<1> QED BY <1>1, <1>3, <1>4, <1>5, SameRunning DEF AInv

(* The rest of the script's steps change only what it has yet to visit.    *)
LEMMA ScriptAInv ==
  ASSUME AInv, DInv',
         \/ Await \/ WaitStartup \/ AwaitPassEnds
         \/ \E k \in Keys : AwaitSkip(k) \/ StartupSeen(k)
  PROVE  AInv'
<1>1. UNCHANGED <<life, handles, concurrent_funcs>> /\ script # "panicked"
  BY DEF Await, WaitStartup, AwaitPassEnds, AwaitSkip, StartupSeen
<1>2. Held \subseteq Keys
  BY DEF Held
<1>3. AsyncTypeOK' /\ TodoHeld'
  <2>1. CASE Await \/ WaitStartup \/ AwaitPassEnds
    BY <1>1, <1>2, <2>1 DEF Await, WaitStartup, AwaitPassEnds, AInv, AsyncTypeOK, TodoHeld, Held
  <2>2. ASSUME NEW k \in Keys, AwaitSkip(k) \/ StartupSeen(k) PROVE AsyncTypeOK' /\ TodoHeld'
    BY <1>1, <1>2, <2>2 DEF AwaitSkip, StartupSeen, AInv, AsyncTypeOK, TodoHeld, Held
  <2> QED BY <2>1, <2>2
<1>4. HandlesLive' /\ Running' = Running
  BY <1>1 DEF AInv, HandlesLive, Held, Running
<1> QED BY <1>1, <1>3, <1>4, SameRunning DEF AInv

LEMMA NextAInv == AInv /\ [AsyncNext]_allVars => AInv'
<1> SUFFICES ASSUME AInv, [AsyncNext]_allVars PROVE AInv'
  OBVIOUS
<1>1. DInv'
  BY AsyncStepIsTableStep, NextDInv DEF AInv
<1>2. ASSUME NEW t \in Tasks, AsyncCall(t) \/ AsyncNil(t) PROVE AInv'
  BY <1>1, <1>2, LaunchAInv
<1>3. ASSUME NEW t \in Tasks, TaskStep(t) PROVE AInv'
  BY <1>1, <1>3, TaskAInv
<1>4. CASE Await \/ WaitStartup \/ WaitStep
  BY <1>1, <1>4, ReceiveAInv, ScriptAInv DEF WaitStep
<1>5. CASE UNCHANGED allVars
  <2>1. AsyncTypeOK' /\ TodoHeld' /\ HandlesLive' /\ Running' = Running /\ UNCHANGED concurrent_funcs
    BY <1>5 DEF allVars, asyncVars, AInv, AsyncTypeOK, TodoHeld, HandlesLive, Held, Running
  <2> QED BY <1>1, <2>1, SameRunning DEF AInv
<1> QED BY <1>2, <1>3, <1>4, <1>5 DEF AsyncNext

LEMMA AInvHolds == AsyncSpec => []AInv
  BY InitAInv, NextAInv, PTL DEF AsyncSpec

(* A handle that is in the map belongs to a task whose result has not been *)
(* received, and to no other key, for any number of tasks, keys and        *)
(* relaunches, until a bare nil has stopped the script.                    *)
THEOREM HandlesStayLive == AsyncSpec => []HandlesLive
<1>1. AInv => HandlesLive
  BY DEF AInv
<1> QED BY AInvHolds, <1>1, PTL

(* concurrent_funcs counts the task goroutines between their increment and *)
(* their decrement, and nothing else, in every interleaving.               *)
THEOREM CountExact == AsyncSpec => []ConcurrentExact
<1>1. AInv => ConcurrentExact
  BY DEF AInv
<1> QED BY AInvHolds, <1>1, PTL
=============================================================================
