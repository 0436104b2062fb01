# Za in TLA+

Za is an interpreter for a shell-like scripting language, written in Go. A
program is lexed and phrased once into tables of statements (`lexer.go`,
`phraser.go`), and each call of a function runs the statement loop `Call()` in
`actor.go` over one of those tables. The interpreter is concurrent: ASYNC
statements, web handlers, C callbacks and the logger run in goroutines that
share the interpreter's tables. The interesting state is in those tables, in
the stacks that `Call()` keeps of what it has open, and in Go slices that
several names reach; this project models that.

Contents: [inventory](#inventory), [plan](#plan), [modules](#modules),
[runs](#runs), [fairness](#fairness), [proofs](#proofs),
[where code and intent part](#where-code-and-intent-part),
[not modelled](#not-modelled).

## Inventory

| part | source | state | operations | what is hard | what makes it correct |
|---|---|---|---|---|---|
| Call table and function spaces | `actor.go` (`GetNextFnSpace`, `Call`), `eval_ops.go` (`callUserDefinedFunction`) | `calltable`, `numlookup`, `fnlookup`, `globseq` | allocate a slot, run in it, publish the result, read it, give it back | the slot is given back by two parties, at two times, under one lock that is released in between | a slot has one executing call; definitions are never handed out; the caller reads its own function's result; no slot is lost |
| Tasks | `actor.go` (`task`, `ASYNC`), `lib-internal.go` (`await`, `async_wait_startup`) | goroutines, one result channel each, the handle map, `concurrent_funcs` | start, send the result, poll, collect | interleaving with the call table; results nobody reads; the counter that switches variable locking on and off | a handle is live; the counter is exact; await ends |
| SETGLOB lock | `actor.go` (`C_SetGlob`), `main.go` | `has_global_lock`, `sglock` | lock, evaluate, unlock | re-entrance by counter; errors and panics between lock and unlock | the counter is exact; no goroutine deadlocks with itself; only the holder unlocks |
| Exceptions and assertions | `phraser.go` (try extraction), `actor.go` (`C_Try` to `C_Endtry`, `C_Assert`), `eval_ops.go` | `activeException`, `currentCatchMatched`, `retvals` of a slot; `tryBlockRegistry` | throw, match, catch, pass on, finish, assert | a block has one slot for all its executions; jumps find their target by counting nested statements | a function executes what its text says and ends as it says |
| Loops and branches | `actor.go` (`C_While` to `C_Endcase`, `C_On`, `C_Break`, `C_Continue`, `lookahead`) | `loops`, `lastConstruct`, `depth`, `wccount`, `ifMatchedStack`, `ifDepth`, `break_count` | enter, iterate, continue, break, leave | nesting, early exits, ends found by counting, counters kept over several statements | statements run as written |
| Expressions | `eval.go`, `eval_ops.go`, `expr_compile.go`, `expr_vm.go`, `array_ops.go` | the compiled phrases, the machine's stack, type hints | compile, run, walk | two evaluators; folding, short circuits, hints noted while the text is read | both give what the expression means; typed instructions meet their types |
| Name binding | `phraser.go` (`bind_int`), `actor.go` (rebuilding in `Call`), `eval.go` (`vset`, `vget`) | `bindings`, the slots in tokens, the variable tables | bind, look up by name, by slot | double-checked locking; bindings forgotten and rebuilt while tokens keep their slots | one slot per name, for good; a name reads what was assigned under it |
| USE chain | `use_chain.go`, the lookups in `eval_ops.go` | `uchain`, `ustack`, `chainlock`, `globlock` | add, remove, top, reset, push, pop, look up | each operation is several critical sections; two locks | a name is in the chain once; pop restores what was pushed; calls return |
| Lists | `lib-list.go`, `assigner.go`, `eval.go` | Go slices over shared arrays | append, slice, sort, assign to elements, ... | which operations share, which write in place, and when the array has room | a statement changes what it names and nothing else |
| Line editor | `console_common.go` (`getInput`, `multilineEditor`) | the line, history, completion, search, several lines; all of them slices of runes | one per key | slices that share an array; positions by screen width; indexes into lists made for an earlier word | a key changes the line as the key says; the option taken is the one marked |
| Log queue | `logging.go` | `logQueue`, `logWorkerRunning`, counters | queue, write, start, stop | producers, worker and stop interleave; a queue at its limit; a check that is stale when used | a request has one fate; only accesses are dropped; order; LOGGING OFF returns |
| exec, eval, callbacks, web handlers | `lib-internal.go`, `lib-c_callbacks.go`, `lib-web.go` | slots of the call table, `concurrent_funcs`, a mutex | call a function from outside the statement loop | each repeats the end of a call by hand, on several paths | as the call table |
| Variables' lock | `eval.go`, `expr_vm.go`, `assigner.go` | `vlock` | read, write, write an element | whether to lock is decided by a counter another goroutine raises | writers of a global exclude each other |
| Cron schedules | `lib-cron.go` | none | parse a field, next time | boundary values, wrap-around | equality with a reference definition |
| Modules, macros, packages | `actor.go` (`C_Module`, `C_Define`, `C_Macro`), `lib-package.go`, `bundler.go` | `functionspaces`, `fileMap` | import, define | table building from files | - |
| Tests, errors, debugger | `actor.go` (`C_Test`), `lib-error.go`, `expr_debug.go` | counters, `errorChain` | record, report | `errorChain` is one list for all goroutines | a report shows the calls of its own goroutine |
| Libraries | `lib-*.go` | mostly none | wrappers of Go and C libraries | external effects | - |
| Console drawing and TUI | `console_*.go`, `lib-tui.go` | terminal state | draw | external effects | - |

How they interact: `Call` is the centre. The evaluator, ASYNC, exec, the web
handlers, the callbacks, the error handler and TRY all obtain a slot from
`GetNextFnSpace` (or, for TRY, from the phraser), call `Call` and read
`calltable[slot].retvals`. Inside, `Call` executes control statements over the
row of phrases and gives expressions to the machine or the walker, which read
and write variables by the slots that binding put into the tokens. Tasks hand
their result to the script through a channel kept in a script variable.
Exceptions travel in the slots of the call table. Unqualified names of
functions and enums go through the USE chain. SETGLOB and the variables' lock
keep assignments of different goroutines apart, and `concurrent_funcs`, which
tasks maintain, says whether the latter is used. Every goroutine logs through
one queue. The editor is the interactive session's own: what it returns goes
to the lexer.

## Plan

Done, in this order, most important behaviour first:

1. `SetGlob` - small, self-contained, the first proof.
2. `SlotPool` (abstract), `CallTable` and its proofs - what all calls rest on.
3. `AsyncTasks`, which composes tasks with `CallTable`, and its proofs.
4. `TryScript` and `TryBlocks` - exceptions, over slots that outlive a call;
   then assertions, which raise them.
5. `LogQueue` and its proofs - producers, worker and switch.
6. `LoopScript` and `ControlFlow` - loops and branches against a reference
   meaning, then ON .. DO.
7. `ExprValues`, `ExprTree`, `ExprCode`, `ExprWalk`, `Expressions` - the two
   evaluators against a reference meaning.
8. `Scopes` (abstract), `Bindings` and its proofs - names and slots.
9. `NameChain` (abstract), `RWLocks`, `UseChain` and its proofs - the chain and
   its locks.
10. `Lists` and its proofs.
11. `RuneSlices`, `MultilineEditor`, `LineInput` and their proofs - the line editor.

What could follow, none of it begun: exec and eval as callers of `CallTable`
(two slots, a counter, several exits) and the web handlers' and callbacks'
calls; a module's loading with `calllock` held, as one more path of
`UseChain`'s locks; cron schedules against a reference definition; maps beside
lists. Worth proving next: what the steps of `TryBlocks` and `ControlFlow` keep
that does not depend on the meaning of the text - loop and case stacks within
their limits, open blocks that nest - as the meanings themselves are recursive.

## Modules

### SetGlob

The SETGLOB statement. A goroutine may have several statements open, because
the right-hand side may call a function that runs SETGLOB; they are numbered
from the outermost.

| code | model |
|---|---|
| `has_global_lock`, `sglock` | the same, the mutex as its holder |
| local `depth := atomic.AddInt32(..., 1)`, `acquired` | `Begin`; `acquired[g]` holds the levels whose flag is true |
| `sglock.Lock()` | `Lock` |
| `wrappedEval` returned, with or without an error; `sglock.Unlock()` | `Release` (both paths do the same) |
| `atomic.AddInt32(..., -1)` | `Leave` |
| the window-size goroutine of `main.go` | `WinchLock`, `WinchUnlock` |

### SlotPool, CallTable

`SlotPool` is the promise: a call is granted one slot that no other call has,
never one of a definition, and gives it back. `CallTable` is the code:

| code | model |
|---|---|
| `GetNextFnSpace`, one critical section of `calllock` | `GetNextFnSpace(s)`: `Scanned`, `Ripe` and `CountedDown` are the disposal scan, `IsNextFree` the search that wraps to 2, `IsChosen` which of the two gives the slot |
| a call by `callUserDefinedFunction`; ASYNC's start of a task | `Enter` |
| the end of `Call` (`retvals`, `disposable`) under `calllock` | `Publish` |
| `fnlookup.lmdelete`, `numlookup.lmdelete` after the unlock | `Unname` |
| the caller's read of `retvals` with `gcShyness`, `gc` in one section | `Collect` |
| `task`: read, send, and mark after the send | `TaskRead`, `TaskMark` |

`numlookup` and `fnlookup` always gain and lose a slot together as far as the
allocator sees, and are one set. A returned value is abstracted to the goroutine
that made it: enough to see whose value is read.

### AsyncTasks

Extends `CallTable`: the tasks are the goroutines, and every operation of the
call is one of its actions, so what one task does to the table another sees.
`AsyncCall` and `AsyncNil` are the ASYNC statement, with a key, a generated key
(the slot, as in `name@slot`) or no handle; `TaskStart` to `TaskLeave` is the
goroutine in `task`; `Await`, `AwaitReceive`, `AwaitSkip`, `AwaitPassEnds` are
`await`'s passes; `WaitStartup`, `StartupSeen` are `async_wait_startup`. The
handle map is `handles`; `sent` is what a task offers on its unbuffered channel,
which is a bare nil when the slot it reads was meanwhile given away and cleared.

### TryScript, TryBlocks

`TryScript` has three things: the statements of a script as nested data; the
phraser's extraction (`Outside`, `Inside`), which moves the content of a block
into a function space of its own and leaves the `try` and `endtry` of inner
blocks behind; and `Meaning`, what a script should do, written without reference
to the code. `TryBlocks` executes the extracted code as `Call` does: one action
for each statement and for each outcome `C_Try` distinguishes, over
`activeException`, `currentCatchMatched` and `retvals` in the slots. `Targets`
is `lookahead` as `C_Try`, `C_Throw`, `C_Catch` and the default statement call
it. `named` is the set of blocks whose slots still have their name: the end of
`Call` drops it, and a later lookup gives slot 0.

`AssertGoesOn`, `AssertThrows` and `AssertExits` are ASSERT and ASSERT ERROR:
by itself a failed assertion throws inside a block and ends the program
elsewhere, under a test it is noted, and the test's `on fail` says whether the
function goes on. `test` is that mode. A failing library call ends the program
outside a block (`LibExits`) and throws inside one (`LibFails`).

`Plain` names the scripts for which code and text agree. Its clauses are the
observations listed under [exceptions](#where-code-and-intent-part); the run
executes the other scripts too.

### LogQueue

| code | model |
|---|---|
| `queueLogRequest` | `Log`, `Check` (under `workerMutex`), `Start`, `Choose` (the select's operand; the 75% rule), then `Enqueue`, `SendPanics`, `Timeout`, `Retry` |
| the worker's loop | `ReadQueue` (the global is read for each receive), `Receive`, `Process` |
| `startLogWorker` | `StartLogWorker` |
| LOGGING ON, OFF | `LoggingOn`, `OnStarts`, `LoggingOff`, `OffFlushed` |
| `stopLogWorker` | `StopCheck`, `StopLock`, `StopDrained`, `StopClose`, `StopForget`, `StopFlag` |

Each start makes a new channel and a new worker, numbered alike. Workers never
end: after a close they go on with whatever the global holds, and a worker that
read nil stays in its receive.

### LoopScript, ControlFlow

`LoopScript` has the bodies of functions as nested data (if, case, full case,
while, foreach, for, the c-like for, break in its four forms, continue, ON .. DO),
the row of statements the phraser makes of them (`Code`), and `Run`, what they
should do. A condition is a sequence of outcomes, one for each time it is
evaluated, so a loop that tests once too often takes another way. `ControlFlow`
executes the row: `Ahead` is `lookahead`, and `EndFrom`, `ElseFrom`, `EndifFrom`
and `Clauses` are its uses; `loops`, `lastConstruct` and the stacks of ifs and
cases are `Call`'s; each statement is an action, and so is each way an end of a
loop may be reached (`EndforForeach`, `EndforCounted`, `EndforCustom`,
`EndforBroken`, `EndforStray`). `OnStatement` is ON .. DO, whose action is
executed as a statement by the same switch. `AsWrittenIn` names the bodies for
which code and text agree.

### ExprValues, ExprTree, ExprCode, ExprWalk, Expressions

`ExprValues` has the values and the operators of `eval_ops.go` and
`array_ops.go`: integers of `WORD` bits that wrap or become floats as the code
has it, floats as exact fractions with infinities and NaN, strings, booleans,
lists typed or not. `ExprTree` has expressions as trees, the tokens that write
them with as few parentheses as the precedence table allows, and `Meaning`, by
recursion over the tree. `ExprCode` is the compiler of `expr_compile.go`: one
pass over the tokens, folding constants, choosing typed instructions by what it
knows of the stack, patching jumps. `ExprWalk` is `dparse` with its recovery of
panics and its skipping. `Expressions` runs a script of assignments on the
machine of `expr_vm.go` (an action per instruction) or on the walker, and keeps
the type hints that `extractAssignTypeHints` noted while the text was read.
`MachineDiffers`, `WalkerDiffers`, `StaleValues`, `OrdersTexts` and `Misled` name
the expressions for which an evaluator does not compute the meaning; `AsMeant`
holds for all others. Two of them bound the other properties too: the order of
two texts that the compiler knows for texts (`OrdersTexts`) leaves both on the
stack, so `OneValue` does not hold there; and a variable may have a value of
another type than the first token of its last assignment in the text tells
(`Misled`), so `TypedOperands` is about the variables whose assignments outside IFs
are literals of the type noted, which `maybeCorrectAssignmentType` is there for.

### Scopes, Bindings

`Scopes` is what a script may expect: each call has variables by name, falls
back on the main program's, and reads what was assigned. `Bindings` is the
code: names become slots when the lexer or the interpreter first meets them in
a function space (`ReadWord`; `Miss` and `Insert` are the two halves of
`bind_int`'s double check), tokens carry those slots, `Begin` forgets a space's
bindings and rebuilds them from the tokens as `Call` does, and variables are
read by slot (`Vm`), by slot with a look at the name (`Get`), or by name
(`Text`, a name in braces). A value records the name and place of its
assignment. `ScopesSpec` states that `Bindings` implements `Scopes`.

### NameChain, RWLocks, UseChain

`NameChain` is the chain as a sequence that changes in one step and a stack of
sequences. `UseChain` is the slice and its array, which a pushed chain shares
(`heap`), under `chainlock` and `globlock`. A call is a path of lock operations
and actions (`Path`), taken a step at a time; `uc_top` is two critical
sections, and a lookup of an enum takes `globlock` around the chain's lookup,
which asks for it again (`EnumPath`). `RWLocks` is Go's `sync.RWMutex`: readers
that come after a waiting writer wait for it. `ChainSpec` states that
`UseChain` implements `NameChain`, with `uc_top` as a removal and an insertion.

### Lists

A list is a slice (array, from, to) over `heap`; `Appended` writes in place
while there is room and otherwise makes a larger array as Go's `append` does.
One operator per operation, named for it; `Do` dispatches. A variable is
declared as `[1]`, `append(1)` or `push_front([1], 1)`, which are the three kinds
of array: full, typed with room, untyped with room. `Meaning` is what the
statement should give, by values, and `owned` says whether every statement so
far had a list of its own for what it wrote (`Own`). `Writers` are the six
statements that write into an array they are given; `Arrays` of a list are its own and those of
the lists in it (`Inside`); `IntoItself` is a statement that writes into
one of those of the list it is making. Texts are those of numbers, and are compared as
the numbers are, which is right for numbers of one digit, as in the run; nil
comes after them, as its text does (`Below`). A script whose variables become lists
that hold lists is not sorted: those would be compared by the texts of lists.

### RuneSlices, MultilineEditor, LineInput

`RuneSlices` is the editor's arithmetic on `[]rune`: insertion that writes into
the array, removal, words, deletion of a word. `LineInput` is `getInput`: one
action per key (`Type`, `Backspace`, `KillBefore`, `Up`, `Tab`, `TakeOption`,
`BeginSearch`, `SearchKey`, `Enter`, ...), over the line, the default answer, the
draft that history keeps and the word under the cursor, each a slice.
`MultilineEditor`, which `LineInput` extends, is what Ctrl-O opens: `EditorKey` and,
while lines are searched, `Filtered` give its state after a key; `EditKey`,
`FilterKey` and `CloseEditor` of `LineInput` are the steps in it. What can be
offered is given by `Options` (functions and keywords) and `Directories` (entries
by path), what can be typed by `Keys`, whose characters are in `Rune`.
`LineMeans` and `Means` say what a key should do, on plain texts. `Lost` is a
key after which the call can no longer return, `Panics` one that panics.
What a name in a directory is compared with is a regular expression; of its signs
the parenthesis is told apart, with which the expression is none and every entry fits
(`Entries`). A text that the editor gives back has the ends of lines and
backslashes within quotes escaped (`Escaped`); no quotes are typed in the run.
Abstractions: a rune of an array that no slice holds is `Junk`; arrays of runes
are allocated in pairs, which is exact up to eight runes; `orig_s` is one with the
line while neither history nor search shows another.

## Runs

| run | question | bounds |
|---|---|---|
| `setglob` | is the counter exact, can a goroutine deadlock with itself, unlock what another holds, or starve | three goroutines and the window-size one, two levels: two goroutines contend while a third nests |
| `calls_seq` | has each open call of one goroutine a slot of its own and its result intact, and is the table a `SlotPool` | seven slots of which three are definitions, calls nested to three, frequency 2: the table is full but for one, the search wraps and the scan fires with counts above one |
| `calls_shared` | do executing calls of two goroutines keep apart (they do not) | two goroutines, one of them a task, depth two |
| `async` | are handles live, is `concurrent_funcs` exact, do the waits end, is no slot leaked, no definition handed out | two tasks, relaunched any number of times, one explicit key, two free slots: a slot is reused while a result waits |
| `try` | does a function execute and end as its text says, and does it end | about 3300 scripts: combinations of one block's body, up to two catches and a then; nested, sibling and in-handler blocks; assertions of both kinds with every outcome, alone and in both modes of a test; two categories |
| `log` | is the queue in use served, has a request one fate, are only accesses dropped, is order kept, does LOGGING OFF return | two starts, a script that switches, a task with one request, the web server with two, a queue of two: full, nearly full and stopped queues are all met |
| `control` | does a body execute its statements as written, and does it end | about 6900 bodies: each construct with each of its parts and outcomes, two nested, breaks of each kind in each position; four loops and three cases may be open (sixteen and eight in the code), so the limits are met |
| `exprs` | does a phrase leave one value, do typed instructions meet their types, is the value what the expression means | about 40000 scripts of one to four assignments in the main program, in a function and on the walker; all operators on boundary values of eight-bit integers, floats, strings, booleans and lists; triples of operators with all groupings; untaken branches; assignments whose first token misleads; the order of texts below other operators |
| `names` | have two names two slots, does a name keep its slot, does a read give what was assigned under the name, is it `Scopes` | two or three names, one task beside the main program, texts of up to three statements with functions, modules and a try block |
| `chain` | is a name twice in the chain only after crossed `uc_top`s, can calls hang other than in an enum's lookup, is it `NameChain`, do calls return | four goroutines with plans of calls, four names: all operations alone, also where a pushed chain's array has room, pairs in a race, readers with a writer between |
| `lists` | does a list of its own stay its own, does a statement give its meaning, is what changes only what shares an array | two variables (symmetric), each declared in the three ways, two numbers, three statements after the declarations, lists of four before the array is full: appends in place and with growth, slices of slices |
| `editor` | does each key do to the line what it says, is the option taken the marked one, do the keys of the editor of several lines do so too, without a panic | texts of at most four runes, a screen of three columns, a history of two, two typed runes, one searched rune, three lines in view: wrapped lines, full history, empty and joined lines are met |

Deadlock is checked except where the system may really stop: scripts of
`TryBlocks`, `ControlFlow`, `Expressions` and `Lists` end or panic, a script of
`AsyncTasks` may panic, the requests of `LogQueue` are used up, the calls of
`UseChain` can hang each other (which `StuckOnlyInEnum` pins down), and a call of
`getInput` may panic or hang. `CallTable` and `SetGlob` never stop, and
`Bindings` says itself when it has ended.

Bounds and why they suffice: the numbers of goroutines, slots, requests and
levels are the smallest at which each hazard needs no further actor - two
parties for every race found, one more as bystander where it is cheap. In
`CallTable` the table is smaller than any real one (`gnfsModulus`), so that it
fills, wraps and reuses within few calls; a larger table only postpones that,
and the theorems hold for any size. `MaxDepth`, `MaxNest`, `MaxRequests`,
`MaxStarts`, `MaxSteps`, `MaxTyped`, `MaxText`, `MaxLine` and `MaxQuery` bound
the models, not the code; the theorems hold for every value of those that their
modules have. `FirstCap`, `MAX_LOOPS`, `CASE_CAP`, `MW`, `MaxHistory`, `TabWidth`
and `WORD` are limits of the code made small enough to be met: nothing in the
code depends on their size except by comparison. The scripts of `try`, `control`,
`exprs`, `names` and `chain` are enumerated in their MC modules, by shape and
not at random; a shape's parts take all values. In `calls_seq` the goroutine is a
task whose parent makes no calls: its outermost call goes through the task's
protocol and its inner ones through the caller's. The `VIEW` of `editor` leaves
out the last key and the locals of calls that ended, which no step reads.

## Fairness

- Goroutines: weak fairness on each one's steps (`AsyncTasks`, `LogQueue`,
  `UseChain`, `TryBlocks`). Go's scheduler is preemptive and runs every goroutine
  that can run. In `UseChain` that is enough for the locks, because `RWLocks`
  admits waiting readers when the writer leaves, and later readers wait for an
  announced writer, as in Go.
- `SetGlob`: strong fairness on `Lock`, since `sync.RWMutex` hands the mutex over to
  a waiter that is next in line and does not let newcomers overtake for
  ever; nothing forces a script to begin a SETGLOB.
- `AsyncTasks`: weak fairness on the script's waits as a whole. `await` visits
  every key of the map in each pass, so no fairness towards a single key is
  assumed. The model also takes it that a function that is called returns: a
  script that loops for ever makes its `await` wait for ever, and is no defect of
  the interpreter.
- `LogQueue`: the bound on requests means that they cease: with producers
  that never pause, LOGGING OFF may find the queue non-empty for ever. So `OffReturns`
  says that LOGGING OFF returns once requests cease.
- `ControlFlow`: weak fairness on the one goroutine's next statement.
- All other runs have safety properties and assume none.

## Proofs

All are checked by TLAPS to the last step, from the named assumptions on the
constants and nothing else.

`SetGlobProofs`, from `SetGlobAssumption` (a finite set of goroutines, distinct
special values, at least one level): `TypeCorrect`, `CounterExact`
(`DepthMatchesOpen`), `ReentrantSafe` (`NoSelfDeadlock`), `UnlockByHolder`
(`AcquirerHolds`), for any goroutines and any nesting. The inductive invariant
`IInv` adds three facts. `OneAcquirer`: at most one open statement of the whole
program has the flag, because the flag is only set when the counter was 0 and
the counter, being exact, is 0 only when no statement is open - this is where
`CounterExact` is needed for the mutex. `AcquiredOpen`: flags belong to open
statements. `PcAgrees`: the program counter tells whether the mutex is
waited for or held. Counting open statements needs that the set of them is
finite and gains or loses one element (`FiniteSetTheorems`).

`CallTableProofs`, from `CallTableAssumption` (at least one slot that is not of a
definition and at least global, main and the program among the definitions;
positive frequency): for any goroutines, any number of slots, any depth and any
shyness, `TypeCorrect`, `DefinitionsSafe` (`DefinitionsKept`) and `NoLeak`
(`NoSlotLeak`). The invariant `DInv` adds that slots of definitions are never
marked (`DefinitionsUnmarked`), without which the disposal scan could hand them
out, and that a goroutine past the end of `Call` still has the call open. For
one goroutine, `SequentialSlots` (`OneCallPerSlot`), `SequentialResults`
(`ResultIntact`) and `SequentialRefinement` (`PoolSpec`: the table implements
`SlotPool`). `SInv` adds that open calls are named until they end
(`OpenCallsNamed`, so the search passes over them), unmarked
(`OpenCallsUnmarked`, so the scan does), and hold no value before their own
(`NoValueYet`). With two goroutines these three are false - `calls_shared` shows
how - so the restriction to one is needed and not a convenience.

`BindingsProofs`, for any names, tasks and texts: `TypesKept`, `SlotsStayApart`
(`SlotsApart`) and `NamesKeepTheirSlots` (`NamesStay`), in every interleaving of
the halves of `bind_int`. The invariant `IInv` says of every space that its
bindings are one-to-one and of finite domain; a new name takes the number of
names there are, or when that is taken the next that is free, and `FreshIsFree`
shows by a pigeonhole argument that it is free. For programs without try blocks
(`NoTry`), `SlotsImplementScopes` (`ScopesSpec`) and `WithoutTryReadsOwn`
(`ReadsOwn`): the invariant adds that tokens carry the slots that the bindings
of their space give, that rebuilding the bindings from the tokens therefore gives
back what was forgotten, and that a declared variable has the name that is bound
to its slot. With try blocks this is false in general - a block's tokens are not
all there is of its names, see below - and the run checks the texts for which it
holds.

`AsyncTasksProofs`, from `AsyncAssumption` (the goroutines of the call table are
the tasks; keys that a script chooses are no slot numbers) and that of
`CallTable`. `TasksUseTheTable`: every step of a task, an await or a launch is
a step of the call table or leaves it alone, so the composition implements
`CallTable`, and `TasksKeepDefinitions` (`DefinitionsKept`) and
`TasksLeakNoSlot` (`NoSlotLeak`) follow from what is proved there. `HandlesStayLive`
(`HandlesLive`) and `CountExact` (`ConcurrentExact`): the invariant `AInv` adds
that the keys an await has still to visit hold handles (`TodoHeld`) - a key is
received from once in a pass, and only a launch, which the waiting script
cannot make, fills it - and that the running goroutines are finitely many, so
that counting them up and down by one is exact.

`LogQueueProofs`, from `LogQueueAssumption` (the web server's producers are among
the producers, the script is another; the queue has room for one request).
`QueueShape`: `Shape` says what producers, workers and channels hold, that what
was not yet made is not in use, and that buffers keep to the queue's size.
`QueueIsServed` (`QueueServed`): the property is not inductive, since some
worker on its way may be any worker; `Served` names it: the worker made together
with the channel is on its way or waits at that very channel, because a
channel that the global lost does not come back. `CriticalRequestsKept`
(`CriticalKept`): only the web server's producers reach the two places that drop, through
the mark `constrained` and the retry (`AccessesYield`). `RequestsHaveOneFate`
(`OneFate`) and `RequestsStayInOrder` (`InOrder`): `Fates` says for each request that it is
somewhere only after its producer handed it over (`Sent`), at most once in the buffers,
in a worker's hands and in the log (`Once`), and in one of the five kinds of place
(`Apart`); and until a second start that of two requests of a producer the earlier is further on
its way (`Ordered`), for which the buffer, the worker and the log must be looked
at together. For any numbers of producers, requests and starts.

`UseChainProofs`, from `UseChainAssumption` (plans are sequences of the ten
calls), for any goroutines, names and plans. `LocksHold` is the ground: the
place of a goroutine on its path says which locks it holds (`PathTable`, place by
place), the locks hold just that (`Locking`, with Go's waiting readers and
announced writers), and so who writes is alone. `HangsOnlyInEnum`
(`StuckOnlyInEnum`) rests on it: in a stuck state a goroutine waits; a reader waits only
for an announced writer, and that one for a goroutine that reads under the lock and
cannot go on; one that reads under `chainlock` wants `globlock`, and one that reads
under `globlock` and wants anything is in a lookup of an enum.
`SlicesAreSequences` (`ChainSpec`): slices lie within their arrays, and of those
that share one the later pushed is the longer and the one in use the longest
(`Nested`), which is why an append writes behind what any of them shows; and what
a lookup has seen is a prefix of the chain as it is (`Lookups`), because a change
needs `chainlock` for writing. `TwiceOnlyByCrossing` (`TwiceOnlyCrossed`):
halfway through a `uc_top` its name is not in the chain (`Once`), unless another
goroutine changed the chain there, which is what `crossed` records. The parts
are proved as one invariant, `Good`.

`ListsProofs`, from `ListsAssumption` (the operands of statements are variables and
naturals; pop, append_to and assignments to elements change the variable they read), for
any number of variables and statements, lists of any length and any nesting. `Invariant`
(`IInv`): every list, of a variable or in an array, lies within its array,
arrays of integers hold numbers only (`TypeOK`, `HeapOK`); and while `owned`, all arrays
are flat and no two variables have the same (`OwnInv`), because a list that is an
element would be shared with the list it is in. For each operation a lemma (`literalDoes`,
..., `innerDoes`) says what it does to the heap: it writes at most into the
array of the list it was given, and only if it is one of `Writers` (`Target`), all
other arrays stay, and the result has these cells in this array (`Gets`).
`OwnListsApart` (`OwnApart`) follows, and `ChangesOnlyShared` (`OnlyShared`): a
list none of whose arrays is the target keeps its value (`Untouched`).
`StatementsMean` (`AsMeant`) needs in addition what the new cells are by
value: `ValueOf` commutes with joining, cutting, sorting and replacing, provided
that the lists among the cells are not in the array that is written
(`Safe`). That proviso is what `IntoItself` excludes: the property was first
stated without it, which the proof of `concat` did not admit and TLC refuted with
a list that is an element of the one appended.

`LineInputProofs`, from `LineInputAssumption` and `EditorAssumption` (what is typed,
pasted, offered and in directories is made of `Rune`; widths are naturals), for
any of these and lines of any length. `LineShape` (`Shape`): every slice lies in its
array, and the place in the history, the result chosen and the cursor of the
editor of several lines exist; the cursor of the line need not be in the line.
`KeysAsMeant` (`AsMeant`), `StarTaken` (`StarredTaken`) and `EditorAsMeant`
(`LinesAsMeant`) are about single steps from states of that shape. For each
operation on slices a lemma says what cells its result has and that it writes into
one array, that of its operand, or a new one (`Writes`, `Gives`). After a key the arrays
are collected and the slices renumbered, which changes no slice's
cells (`EndsIs`, `SameLine`, `SameEditor`). Then there is a lemma per key: what
text and cursor it leaves (`Turns` for the line, `Edits` for the editor), and
that the draft stays if it is in another array (`OrigApart`). That is the proviso
of `AsMeant`, and `Apart` of `LinesAsMeant` likewise: without it the cells that
insertion copies in place are cells of two texts. That no key of the editor panics needs
that there are never fewer lines than are drawn (`DrawnOK`), which is proved to be an
invariant: the one key that would break it, a DEL that takes an empty line away while
all are drawn, ends the session with the panic itself. The joining of lines, when the
editor closes, is a recursive function; that it gives a text is shown with the
least number for which it would not (`Least`), since the library's induction
theorems cannot be used here.

Only model-checked: all liveness (`WaitersProceed`, `WaitsEnd`, `EveryCallEnds`,
`OffReturns`, `CallsReturn`), which is out of the prover's reach;
`TryScript`/`TryBlocks`, `LoopScript`/`ControlFlow` and the modules of expressions,
whose meanings are recursive operators over the text; and `RunningApart`,
which is false.

## Where code and intent part

With a run and a counterexample, the one finding listed in `PROJECT.json`:

- `RunningApart` (run `calls_shared`): a slot is free from the moment its names
  are dropped, but its former call is marked for disposal later. The mark can
  fall on a new owner, and the scan then gives the slot to a third call.

The following were met while modelling. The models contain the behaviour; where
a property would be false because of it, a named predicate (`Plain`,
`AsWrittenIn`, `MachineDiffers`, `WalkerDiffers`, `Own`, ...) sets the case
apart. They have no run of their own.

Calls, tasks and SETGLOB

- A second goroutine that reaches SETGLOB while another is in it sees the counter
  above 0 and evaluates without the mutex, though the comment at the counter
  speaks of "nested calls within the same goroutine".
- A panic recovered in `Call` skips its end, and the slot is lost. A panic in a
  SETGLOB's expression that `wrappedEval` does not recover leaves the mutex locked;
  both are reachable only when the script switched `error_exit` off.
- With every slot named the search spins with `calllock` held; the test that
  would report an overgrown table comes after it and cannot be true.
- A generated handle key is a slot number, which is free again before the result
  is awaited, so a later handle may replace an earlier one. A task whose handle
  was replaced, or of ASYNC nil, stays in its send for good and keeps
  `concurrent_funcs` raised.
- A task raises the counter itself, so the goroutine that started it goes on for
  a while without locking variables; `ConcurrentExact` does not exclude this.
- A task may read its result from a slot that is no longer its own, and send
  another's value or a bare nil, at which `await` panics with `vlock` locked.
- exec: a text that does not lex leaks its slot; an error of its call leaves
  the counter raised and both names; the last removal of a name may hit another
  call's. A callback whose function calls back waits for a mutex its own
  goroutine holds. MODULE phrases with `calllock` held, and a try block in the
  module asks for `calllock` again.

Exceptions and assertions

- A call that fails in a block without a catch jumps past its then, and a block's
  exception state is shared by all calls of the function.
- Of two sibling inner blocks the second may be executed twice, because the
  search for it goes by the statements left behind. A RETURN in a nested block
  is unpacked by the first TRY around it, and the next one takes it for a
  normal end. An assignment or a call in a handler or a then ends it, because
  the exception is still active and the default statement looks for the next
  catch. An exception thrown in a handler by a call is taken for handled, since
  the match flag is still up; one thrown by THROW may enter a later catch of
  the same block. The slot of a block loses its name after its first execution:
  the second runs in slot 0, and the allocator may hand the slot to a call.
- A function called inside a try block runs in its own slot: its failing ASSERT
  ends the program instead of throwing. An exception thrown in the asserted
  expression is replaced by one of category "assert". ASSERT ERROR of an expression that
  throws reports that it "did not throw an error", and inside a block an operator's
  failure is recovered without an error and counts as none. Under a test that
  continues, an exception raised by the asserted expression stays active and
  strikes at the next assignment or call. An assertion that assigns has assigned
  before it is refused. `enforceError` is saved, cleared and restored without
  a lock.

Loops and branches

- A false IF without else inside a matched arm leaves the depth raised, and a
  following ELSE IF is tried. `ON c DO BREAK n IF x` with a false x does the same.
- BREAK of a kind that the innermost loop is not goes round it again for ever;
  `break 2 if` with a false condition leaves the count at 2; BREAK n takes the
  first end of the outer kind, even of a later inner construct; a BREAK outside
  any construct panics.
- The c-like FOR runs its body once before testing. A loop variable that only a
  try block mentions, or that is read after a BREAK when the body does not
  mention it, is stale.
- A full CASE reports missing members when the match comes before the
  penultimate clause. The eighth nested CASE and the sixteenth nested loop panic.

Expressions

- Compiled: the right side of a constant false && or true || is not consumed when
  it begins with a unary operator or a list; a constant descending range gives
  an empty list; a float divided by 0.0 gives an infinity or NaN when the types
  are known and an error otherwise; ?: accepts what is no boolean; && and || of
  strings and numbers give values or booleans by the way they were compiled;
  shifts by a float are accepted; what the compiler noted of the parts of a ?: or
  the elements of a list stays below what it noted of the result, and an operator
  to the left is folded or typed by it. A constant float left of && or || and a
  constant negative shift fail while the text is read.
- Compiled: two texts known for texts (literals, variables noted for texts, their
  concatenations) and not both constant have no instruction for <, <=, > and >=:
  `emitComparison` emits opcode 0 (`expr_compile.go:624-643`), which loads nil over
  both operands. After `x = "a"`, `y = x < "b"` assigns nil and leaves two values on
  the stack.
- Walked: `5 | 2 & 1` gives 1; an error in a right operand is swallowed; a nested
  ?: in a skipped branch ends the skip early; a shift gives an int64 and
  takes a negative count as a large one; an index that is no number gives the whole.
- Type hints come from the first token and the last assignment, also across
  branches that are not taken, and typed instructions then meet other types: after
  `x = 2 + 1.5`, `-x` panics. The comment (`phraser.go`, `extractAssignTypeHints`) has
  only literals noted. Numbers assigned in an IF are made of the type noted.

Names

- `Call` of a try block forgets the bindings it was given and rebuilds only those of the
  block's tokens: names without a token (`{n}` in a text, the key of a FOREACH) and
  blocks inside functions can read another variable. The growth of the table
  in `bind_int` never fires.

USE chain

- The lookup of an enum asks for `globlock` while it holds it: with a writer
  waiting in between, all of them hang. `ASYNC` takes `globlock` before `calllock`, a
  lookup takes `chainlock` before `globlock`. Two `uc_top` of one name can leave it
  in the chain twice.

Lists

- A statement that writes into an array it is given (append, append_to, concat,
  sort, uniq, an assignment to an element) may write into the array of an element
  of the list it makes: `concat(b, a)`, where an element of a is in b's array,
  puts an item where that element has room. The element changes with the list and a list may come
  to contain itself (`IntoItself`).
- append and concat write into the argument's array while there is room, so two
  results of appending to one list share their end; tail gives a part of the
  same array; sort and uniq sort their argument. push_front turns items into text
  in an untyped list. A folded range is one list for all executions of its
  statement. insert at 0 and esplit at 0 panic, and so does an assignment
  `v[i][j]` past the end of an untyped inner list.

Line editor

- In reverse search a key that is not handled is never taken from the input, and
  the search loops for ever; so does an invalid UTF-8 byte in the line. Two
  characters read together insert the first twice. A paste with a carriage return
  but no newline before it panics.
- DOWN in a wrapped line can move the cursor past the end: insertion then
  panics, and Ctrl-K shows runes that were deleted. Ctrl-U past the end leaves
  text.
- A default accepted with TAB shares its array with the line, so edits spoil the
  default that an empty line returns; a search cancelled inside history leaves
  line and draft with one array.
- An option taken moves the cursor by its length in bytes
  (console_common.go:1281), not in runes.
- The index of the marked option is not reset when the word changes. Deleting a
  word takes the separator after it. The word under the cursor is not computed
  anew after a search, Ctrl-O or an option taken. Prompts' answers enter the
  history. After a dot an option with a parenthesis anywhere in it loses its last
  character, whatever that is (console_common.go:1274).
- Of several lines: ENTER inside a line leaves both halves in one array, and typing
  at the end of the upper overwrites the lower; DEL of an empty line panics while
  drawing; a paste of several lines leaves the rest of the line on the first.

Log queue

- A request that was checked before LOGGING OFF sends on a nil channel, and a
  critical one then waits for good. The last request taken before LOGGING OFF may
  be discarded, although the queue was flushed. A start between the stop's unlock
  and its reset of the flag is forgotten, and the next one makes a second worker.
  A request between the test for an empty queue and the close makes a waiting
  sender panic.

## Not modelled

`PROJECT.json` lists every part with the reason. Most of the repository's lines are
of four kinds that a state machine says nothing about: wrappers of the operating
system, of C libraries and of Go packages (`lib-c*.go`, `lib-net.go`, `lib-os.go`,
`lib-file.go`, `lib-db.go` and others), several operating systems' versions of
one file, tables of help text, and drawing (`lib-tui.go`, `misc.go`). This is why
the map covers about an eighth of all lines: it covers the greater part of what decides in
which order a script's statements run, over which slots, names, lists and
locks.

Left out although they have state: exec and eval, web handlers and callbacks (their use
of the call table is described above, not modelled); the variables' lock, whose
unsynchronised use is a Go data race; modules, macros and bundles, which build tables
from files once; the error chain, the debugger and the counters of tests, which only
reports read. Cron schedules are pure functions of a text and a time.

In the parts that are modelled: log levels, rotation and formatting; the throws
clause's default and the strictness policy of an exception that leaves main;
values that a script puts into a handle map by hand; the growth of `calltable`'s
capacity; statement distances, which the code keeps in 16 bits, are assumed not to
wrap; float32, big numbers, unsigned integers, maps, structs and -0.0 in
expressions; lists of other items than integers, texts of integers and lists of
these; sorting lists that hold lists; drawing, colours and multi-byte runes in the editor, whose
names are compared as regular expressions only in that one with a parenthesis is
none.
