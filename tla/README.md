# A verification project for xlOil

xlOil is an in-process framework for Excel add-ins: a core DLL, a loader XLL for each add-in, and
plugins (Python, SQL, utilities). This directory holds TLA+ models of the parts of it whose
correctness depends on the order in which threads, callbacks and Excel itself take their steps, the
TLC configurations which check them on small instances, and proofs which TLAPS checks for all.

Paths below are relative to the repository's root.

## 1. The system

| Part | State | Operations | Works with |
|---|---|---|---|
| **RTD server**: `src/xlOil-COM/RtdServerWorker.h`, `rtdmanager.cpp`, `RtdManager.h`, `API/RtdServer.cpp`, `include/xloil/RtdServer.h` | topic records (publisher, subscribers, value), request and value queues, id table, SAFEARRAY of updates, cancelled publishers; a worker thread | ServerStart, ConnectData, DisconnectData, RefreshData, ServerTerminate from Excel; start, drop, publish, clear from anyone; the worker's loop; the tasks | Excel by COM, the main thread queue (UpdateNotify), tasks in threads of their own |
| **RTD async manager**: `src/xlOil-COM/RtdAsyncManager.cpp` | the tasks of each cell, array counts | getValue from a cell, clear, disconnect from the RTD worker | RTD server, main thread queue |
| **Main thread queue**: `src/xlOil-COM/API/ExcelThread.cpp`, `xllcontextinvoke.cpp`, `Connect.cpp` | jobs by due time, one timer, posted messages | runExcelThread from any thread, TimerCallback on the main thread | Windows messages, COM availability |
| **Events**: `include/xloil/Events.h`, `API/Events.cpp`, `libs/xlOil_Python/PyEvents.cpp` | lists of handlers, python's weak handlers, directory watches | bind, unbind, fire, clear | everything |
| **Workbook monitor**: `src/xlOil-COM/ComEventSink.cpp` | names of the known open workbooks, re-entrancy flag | Excel's application events | Events |
| **Object cache**: `include/xloil/ObjectCache.h`, `PyCache.cpp` | objects by cell, calculation counter | add, fetch, erase, reaping | Events (AfterCalculate, WorkbookAfterClose) |
| **Function registry**: `src/xlOil-XLL/FuncRegistry.cpp`, `src/xlOil/Interface.cpp`, `xlOil-Dynamic/*` | registered functions, sources per add-in, local functions per workbook, thunks | register, re-register, deregister, delete source, rename | Excel's C API, main thread queue, Events |
| **Region allocator**: `src/xlOil-Dynamic/ExternalRegionAllocator.h` | chunks, free list | alloc, free | thunks |
| **Loaders**: `src/xlOil/Loaders/*`, `src/xlOil-Loader` | add-in contexts, plugins, COM connection | open, close, retry at start-up | main thread queue, all of the above |
| **Python async and RTD**: `libs/xlOil_Python/AsyncFunctions.cpp`, `EventLoop.h`, `PyRtd.cpp` | return objects, event loop thread, the GIL | start, set_result, set_done, cancel | RTD server, async manager |
| **Values and algorithms**: `ExcelObj`, `ArrayBuilder`, `ExcelArray`, dates, callers | none | pure | everything |
| **Worksheet utilities**: `libs/xlOil_Utils` | none, but some change the array they were passed | sort, block, pad, index, fill, split, concatenate | values, object cache |
| **User interface**, **SQL** plugin | little | | |

What is hard to get right, and to test, is listed line by line under `hazards` in PROJECT.json.

## 2. What is done

The plan took the parts with most threads first, then what lives on top of them, then the parts
which run on one thread but whose calls nest, fail or come in an order nobody wrote a test for.

| Part | Modules | State |
|---|---|---|
| RTD server | `RtdWorker`, `RtdFeed` (abstract), `RtdWorkerProps`, `RtdClaims`, `RtdServerProofs` | done, proved |
| RTD async manager | `RtdAsync`, `RtdAsyncProps`, `RtdAsyncProofs` | done, safety proved |
| Main thread queue | `MainQueue`, `MainQueueProps`, `MainQueueProofs` | done, safety proved |
| Python coroutines | `PyTask`, `PyTaskProps`, `PyTaskProofs` | done, safety proved |
| Workbooks and object caches | `WorkbookMonitor`, `ObjectCache`, composed in `Session`; `SessionProps`, `SessionProofs` | done, safety proved |
| Events | `Events`, `EventsProps`, `EventsProofs` | core events and PyEvent; safety proved |
| Function registry and sources | `FuncRegistry`, extended by `FuncSources`; `FuncSourcesProps`, `AddinProofs` | without local functions; safety proved |
| Region allocator | `RegionAllocator`, `AddinProofs` | done, what holds is proved |
| Loaders | `Loaders`, `LoadersProps`, `AddinProofs` | opening, closing, start-up, plugins; `NothingIsKept` proved |
| Values and worksheet utilities | `ExcelObjs`, `Sorting`, `Utils`, `Conversions`, composed in `Values`; `ValuesProps`, `ValuesProofs` | what `xlOil_Utils` needs; `SortedRows` and `DatesFollow` proved |
| all others | | not modelled, see section 8 |

## 3. Modules and the code they model

A specification module has the state and the actions, its `...Props` the properties, its `...Proofs`
the theorems, and an `MC...` module and a `.cfg` the instance which TLC checks. Variables are named
after the members they stand for, with the correspondence at each declaration; `map` in
PROJECT.json gives the lines of every definition.

### 3.1 RtdWorker and RtdFeed

A step is one lock section, or one call made without a lock; that is as fine as the code's threads
can interleave. The worker thread has a program counter `pc` and its loop's locals `ready`,
`joins`, `leaves`, `cur`.

- **Excel** (`rtdmanager.cpp`): `ServerStart`, `ConnectData`, `DisconnectData`, `UpdateNotify`,
  `RefreshData`, `ServerTerminate` and `Joined`, where its thread gets out of `join()`.
- **User**, any other caller: `AddPublisher` then `UserStopLast`/`FinishReplace`;
  `DropPublisher` then `FinishDrop`; `UserPublish` then `UserNotify`; `Quit`.
- **Task** of a publisher: it tests its cancel flag, appends a value, notifies; the append and the
  notification are apart, and `drop()` or a stop may come in between.
- **Worker**: `Loop`, `SeesNoWork`, `Block`, `Wake` are `wait_for_work` with the gap between the test
  of the predicate and the block in which an unlocked `notify_one` is lost; `ApplyValues`,
  `StoreArray`, `SendNotify` are the update half of an iteration; `TakeRequests`, `CancelOut`,
  `JoinTopic`, `CallConnect`, `LeaveTopic`, `CallDisconnect`, `EraseRecord`, `Release`, `Reap` serve
  the requests; `ClearRecords`, `StopAll`, `Finish` are the end of the thread.

Dropping the last `shared_ptr` to a publisher runs a destructor which waits for its task: the steps
`UserStopLast`, `StopLast`, `StopAll` set the cancel flag and `Ended` guards what follows. Excel is
modelled as it is documented: it connects an id which is not connected, disconnects one which is,
and answers UpdateNotify with RefreshData in its own time. `RtdFeed` is what subscribers are
promised, an update for every value published whilst they subscribe; `FeedSpec` states that
`RtdWorker` implements it.

### 3.2 RtdAsync

The functions which compute in the background. A row of cells holds formulas over regions; `Edit`
enters or deletes one, the same as before if the user likes, `Evaluate` lets Excel begin the evaluation of a formula, and `calc` is the call of
`getValue` it is in, which takes the steps `findTargetCellTasks`, follow-up, matching, starting or
subscribing takes, one for each lock section. `cells` are the `CellTasks` objects under their keys,
`pubs` the `AsyncTaskPublisher`s, `records` the RTD server's. The worker serves batches of
subscriptions as in `RtdWorker` but without locks, wake-ups and failures: those are checked there.
`Cycles` says whether Excel's follow-up calls of an array formula name each cell or always the first,
which its documentation leaves open; `Ready` in which states of a task its `done()` is true.

### 3.3 MainQueue

A job is the packaged task of one `runExcelThread` call; its flags are the constants `Api`,
`NoRetry`, `Enqueue`, `Before`, `Between`. The queue holds jobs with the time left, which `Tick`
counts down in coarse units; `timer` is the single, periodic Windows timer; `frames` are the
invocations of `TimerCallback` (or of a job run at once) on the main thread's stack, because a job
that shows a dialog (`Pumps`) dispatches messages and so re-enters the callback. Any thread:
`Submit` (`enqueue` under the lock) then `Arm` (`startTimer` after it); on the main thread
`CallNow`. The message loop: `WindowMessage`, `TimerMessage`, both with `TakeDue`. A callback:
`Check`, then for each job `Refuse` or `Run` and `Finish`, then `Tried`, `PutBack` for each refused
job under the lock, `Requeued`. Start-up: `ConnectFails`, which queues another attempt, and
`Connect`. `Busy`: Excel begins or stops rejecting COM calls, at any time.

`firstJobTime` on an empty queue reads past its end (`ExcelThread.cpp:211`): any time within the
bound. A COM rejection inside a job ends in the job's future (`ExcelThread.cpp:92`), so it is an
outcome (`busy`) and not a retry.

### 3.4 PyTask

A coroutine behind an RTD topic, or behind a native asynchronous call, from the worker's `start()`
to the end of Python: `pub` is the life of the publisher, `running` and `task` what `RtdReturn`
keeps, `coro` the coroutine in the event loop's thread. A step ends wherever Python code may run
and so lose the GIL, as between the test of `_running` and the publication (`Convert` and `Send`, for
the tasks in `Yields`, whose converter is python's own). A result goes out through the publisher as it
is then: one in conversion when its publisher is stopped, or destroyed, is still published. `main` is
the main thread closing the last add-in: it tells the server to quit, joins the worker, stops the
loop, unloads. `quit()` does not hold the worker's mutex, so that its notification may be `missed` by a
worker which is about to sleep; only a spurious wake-up (`Wakes`) helps then. `OtherStops` lets another
thread than the worker stop a task.

### 3.5 Session: WorkbookMonitor and ObjectCache

`WorkbookMonitor` is `WorkbookMonitor::check` of `ComEventSink.cpp` with Excel's workbooks: a check
compares the names of the open workbooks with those known, calls the handlers of
WorkbookAfterClose, one step for each, and assigns the set it read at first. A handler may open a
workbook (`HandlerOpens`), whose event re-enters the check. A queued check comes when the queue comes to
it: it may be put back whilst a dialog has Excel reject calls (`Refuse`), and depends on a `timer` which
the queue sets only if no other job is first and due (`ExcelThread.cpp:147-151`). `ObjectCache` has the objects of each
cell with the calculation they belong to, and references which are a cell and a position
(`Position` cuts it to `Span`, 256 in the code). `Session` connects them: a reported close takes the
workbook's objects, those of the cells whose key begins with its name (`Starts`).

### 3.6 Events

`Event` and `PyEvent`: the core's list of handlers, each a node with an address (`Event::operator-=`
compares addresses, and a freed address is used again), and python's list of weak references, in which
each hooking of a function has a reference of its own (`Reference(f, n)`): a function hooked twice is
called twice. A handler may hook, unhook or drop functions, and clear the event, whilst `fire()` goes on.
A function which loses its last reference is `Dead`, and its references are taken off one by one
(`Forget`) before anybody else has the GIL; the position of the loop moves as the list shrinks, and if
the function was the one being called the loop goes on from a freed node, at any place (`GoOn`). A bound
method (`Methods`) has no such reference: its weak reference is dead from the start, and stays. `-=`
makes a reference of the function which is not in the list, and so removes nothing (`dismissed` keeps
what it should have removed); with an empty list it unhooks whatever has the address which PyEvent's
node once had (`Unhook`). `disturbed` is set by that, and by clearing an event which has handlers.

### 3.7 FuncSources

`FuncRegistry` is the registry with Excel's registrations; `FuncSources` extends it by the sources.
Calls, file events and workbook events begin a step; a job which `runExcelThread` runs at once
is pushed on `stack` and done before anything else, any other waits in `jobs`. A registration takes
one step for each function of its list (`loop`: `RegisterOne` patches, replaces or makes it, or
fails) and one, `RegisterEnd`, in which the source's map is replaced. Excel may refuse a
registration or a deregistration (`MaxRefusals`), and the COM API be found busy, so that a job is
queued (`MaxDefers`). `deregister` captures an iterator of `_functions`: a job whose map has been
rebuilt is `stale`, and what it does is undefined. It may deregister an object which still exists
(`up = "astray"`) or end the model (`"down"`). A constructor which fails leaves its id unwritten, and
its destructor has Excel give that id up: none's, or with `StrayIds` another function's.

### 3.8 RegionAllocator

Chunks, blocks and the free list in units of 16 bytes, with the `short` casts of
`ExternalRegionAllocator.h:71` and the copies of a chunk at lines 112 and 134, whose changes are
lost.

### 3.9 Loaders

`OpenXll` is `autoOpenHandler`, `CloseXll` is `addinCloseXll`; the first add-in to get so far creates
the core's context and queues its start-up, which `Connect`, `ConnectFails`, `Refused` and `TimePasses`
take through `RetryAtStartup` and the queue until `LoadPlugins` and, for each plugin, `LoadPlugin`. If
Excel rejects the call for its window's Application the start-up is `lost` (`ConnectRejected`): that
error is neither the one which is retried nor does anybody see it. One which waits needs the queue's
`timer`, as in `WorkbookMonitor`. Until the core is loaded each opening makes a new queue, and with it
forgets the start-ups in the old one (`NewQueue`). Settings which do not parse throw before xlOil is
entered (`OpenUnread`): Excel has the add-in open, but it does not run and has nothing to close
(`CloseUnread`). Settings may also fail once they are read, or be absent (which makes
`autoOpenHandler` follow a null pointer); a plugin
may be missing, refuse to start or refuse to be attached. `memos` are the static functions which
wait to be registered. xlOil.dll is loaded by delay-loading and never unloaded, so that
`theCoreIsLoaded` outlives the core. Following a dangling pointer ends the model (`defined`). The core's
own settings file is taken to be there whenever it parses.

### 3.10 Values

A call of a function of `xlOil_Utils`, or a conversion of an address or of a date. An array is a
sequence of rows of cells, a cell a type with a value; numbers are integers, since nothing is done
with them but to compare them, and a text is a sequence of characters. How the C library collates
texts is the constant `Rank`, any total preorder for each case sensitivity. (`ExcelObj::compare` collates
what two texts have in common and then compares their lengths, `ExcelObj.cpp:236-242`: that is such an
order in the "C" locale, and need not be one in another.) `View` is the trimmed
view which `ExcelArray` gives of an array: `TrimmedCols` steps through it as `trimmedArraySize` does,
over a range which is too short by what the view is narrower.

`xloSort` changes the array it was passed, in steps: `Sort` reads order and descriptors into `keys`
and sorts `indices`, by any permutation which `std::sort` may leave; `NextCycle` and `Move` are the
two loops which apply it to the rows, one exchange at a time. `SortNothing` and `SortThrows` are the
early ends. Without an order `directions[0]` is read uninitialised (`xloSort.cpp:108`): any
direction, or the end of the search. What `std::sort` does with a comparison which is no strict weak
order is left open (`StrictWeak`), so that `SortedRows` cannot hold without one.

The other calls are one step, `AnswerCall`, with operators of `Utils` which keep the code's
passes: the padding computed between the two loops over a layout, the string whose buffer is
released to the first cell, the bytes copied whatever the view's width. In `Conversions` letters are 1
to 26 and digits 30 to 39, and the parsers hand on the position they have come to, as A1 turns out to
be R1C1; the dates are divided as C++ divides, towards zero.

### 3.11 Faults

Definitions whose comment begins with "Fault" are no part of a specification. Each is a variant of
the definition after it with a plausible slip (no test of the array before sending, a job not
erased from the queue, a retry forgotten, ...). PROJECT.json pairs every checked property with one
which violates it.

## 4. Runs

| Run | Instance | Checks | Distinct states |
|---|---|---|---|
| `rtd_feed` | 2 topics, 1 id, no tasks, steady publishing, quit | `ActiveSubscribed`, refinement `FeedSpec`, `RequestsTaken`, `UpdatesDelivered`, `ArrayFetched` | 329 645 |
| `rtd_replace` | 1 topic, 2 publishers (symmetric) whose tasks may fail to start, drop | `NoOrphanTask`, `AllStopped`, `Handshake` | 4.5 million |
| `async` | an array formula over two cells and a formula in the second, any 3 edits, 4 tasks | `OwnResult`, `OneTask`, `ListedHasRecord`, `ResultShown` | 990 149 |
| `queue` | 5 jobs, 2 threads, callbacks nested twice, retries after a wait | `Prompt`, `OnePlace`, `InOrder`, `TriedSoon`, `Settled` | 603 380 |
| `pytask` | 2 RTD tasks, one with a converter in python, a native call, 2 results each | `CancelledInTime`, `LastResult`, `StoppedEnds`, `CloseEnds` | 289 184 |
| `session` | 2 workbooks, one's name the start of the other's, 3 objects, 2 positions | `OneCycle`, `LatestResolves`, `KnowsOpen`, `ClosedReaped` | 1.05 million |
| `events` | 2 functions and a method, 3 references, a C++ binder, 2 addresses (symmetric) | `TypeOK`, `CalledOnce`, `HookedOnce`, `BinderKept` | 3.8 million |
| `addins` | 3 sources, 4 function objects, 2 modules and the anonymous one, 3 calls, 1 refusal, 1 deferral | `TypeOK`, `RegistryIsCallable`, `OnlyOwned` | 871 859 |
| `loaders` | xloil.xll and 2 add-ins, 2 plugins, 6 openings, every fault | `NothingIsKept`, `PluginsAreTried` | 626 132 |
| `values` | columns of all types, ties, headings; layouts of up to 3 lines; texts of up to 5 characters; the corners of the sheet; the turns of the calendar | `SortedRows`, `LaidOut`, `SplitRejoins`, `AddressReadBack`, `DatesFollow` | 155 572 |
| `rtd_lost_wakeup`, `thunk_overlap` | the smallest which show it | one statement of the code's comments, docs or tests each, violated | |

Why the bounds suffice:

- **rtd_feed**: with two topics an id can leave one and join another in one batch, and its connect and
  disconnect meet in a batch in either order. Values are only compared with "none", so one is enough.
- **rtd_replace**: a replacement needs two publishers; the interesting races have the worker in
  `connect()` or `disconnect()` of the first whilst the second is added or dropped, which one topic
  and one id give.
- **async**: two cells give an array with a follow-up call, and a formula which overlaps it; of three
  edits the last may give the array its first arguments again, or the cell back to the array, before or
  after the worker has disconnected the topic. Four tasks are one more than the edits: after three no
  call waits for a fifth.
- **queue**: one job to connect, its function, two jobs of one thread to compare their order, of which
  the first nests a callback, and one run at once on the main thread, without retries. Nesting two
  deep is the least at which a callback interrupts one which holds jobs. Safety has also been
  checked with a delayed job among them (`Six`, `WaitsOne`: 7.5 million states), and all of it with
  one which needs no API (`MixedApis`).
- **session**: two positions instead of 256, with three objects, make the counter pass its width.
- **events**: two addresses are the least at which the node of one is used again by another; three
  references let a function be hooked twice whilst another is, with the loop's position before, at and
  behind each.
- **addins**: two calls and an event let a job meet a map which was rebuilt or a source which was
  replaced; one refusal and one deferral can fall on any of them. With a fourth call, lists of one
  function and more sources, objects and ids the properties hold too.
- **loaders**: three add-ins give each order of closing xloil.xll, one and the last; six openings
  let each be opened again after everything was torn down.
- **values**: three cells give each pair of types, in each order, and what a strict weak order has to
  be tested with; four rows give a permutation of two cycles and one of four; headings, an empty last
  column and a cached array the other paths. A layout has a gap first, last, twice and not at all, and
  lines of several heights. Addresses are at each row and column at which a digit or a letter is
  added; days are the first 800 and those about each year's March and New Year, to the last.
- The types of `rtd_replace`, `async`, `queue`, `pytask` and `session` are proved instead (section 6).
  The inductive invariants which the proofs use have been checked on the runs' instances as well, and
  that of `queue` on a larger one (4.4 million states), those of `async` also with `Cycles = TRUE` and
  two edits (684 860 states).
- Deadlock is not checked (`CHECK_DEADLOCK FALSE`) where Excel or the user may stop for good, or
  where a bound on calls ends the behaviour.

### Statements which do not hold

`findings` in PROJECT.json quotes the lines which the two violation runs contradict. More was met;
each stands as a definition beside the properties. To reproduce one, put it in the named run's
configuration, with the constants given, in place of its properties; those of `RtdClaims`, where
nothing else is said, in that of `rtd_feed` with `SPECIFICATION Spec`, and where there is a publisher
with `Topics = {t1}` and `TopicOf <- OnlyP1`.

| Statement | Configuration |
|---|---|
| `RtdClaims!ConnectedIsActive`: an id whose connect and disconnect cancel out is missing from the id table (`RtdServerWorker.h:330`) | `rtd_feed`, `MaxQueue = 2` |
| `RtdClaims!DisconnectedIsDelinked`: a disconnect served in one batch with its connect finds no topic | `rtd_feed`, `MaxQueue = 2`; also with one request and `Ids = {0}` |
| `RtdClaims!EitherOrder`: a producer registered after a subscriber is never started | `Pubs = {p1}` |
| `RtdClaims!WorkerSurvives`: an exception from `start()` ends the worker | the same, `StartMayThrow = TRUE` |
| `RtdClaims!CancelledStaysStopped`: a replaced publisher is started again by the `connect()` under way | `rtd_replace` |
| `RtdClaims!EraseOnlyUnsubscribed`: an AsyncTaskPublisher's record goes with subscribers left | `Pubs = {p1}`, `Ids = {1, 2}`, `AsyncPubs = {p1}` |
| `RtdClaims!DropWaits`: drop() goes on whilst the worker holds the publisher | `Pubs = {p1}`, `UserCalls = {"drop"}` |
| `RtdClaims!RestartsOnlyStopped`: start() waits for a task that nobody stopped | `Pubs = {p1}`, `MaxQueue = 2` |
| `RtdClaims!ArrayIsAnnounced`: an array left by an earlier session silences the next | `UserCalls = {"publish"}`, `MaxSessions = 2` |
| `RtdAsyncProps!OwnResult`: an array formula whose result is ready sets `arrayCount` (`RtdAsyncManager.cpp:343`) though no follow-up calls come; a single formula entered in its first cell is then taken for one and gets the old array's topic (line 318) | `async`, `Regions <- Shared` |
| `RtdAsyncProps!AlwaysShown`: a formula is called again to collect its result (`RtdServer.h:182`); one which gets arguments again whose topic is still to be disconnected subscribes to a task which `AsyncTaskPublisher::disconnect` then stops, or takes its want of a result for one (`RtdAsyncManager.cpp:107`, 331), and stays at #N/A until it is calculated again | `async`, as a PROPERTY |
| `MainQueueProps!RetriedUntilAvailable`: a refused job is not tried again if the timer was never set | `queue`, `Program <- Mixed`, `Api <- MixedApis`, no `now` |
| `PyTaskProps!DeadIsSilent`: a publisher which says that it is done can be destroyed (`RtdServer.h:42`); the result in conversion is published through it afterwards | `pytask`, as a PROPERTY |
| `PyTaskProps!LastResult`: a task stopped by another thread whilst it is started runs on, since `set_task` sets `_running` again | `pytask`, `OtherStops = TRUE` |
| `PyTaskProps!CloseAlwaysEnds`: the worker misses `quit()`'s notification (`RtdServerWorker.h:66-75`), and closing the last add-in waits for it for ever | `pytask`, as a PROPERTY |
| `EventsProps!NoneDismissed`: a function unhooked with `-=` is not called (`PyEvents.cpp:234`, 279-283); the reference which `-=` removes is compared by identity and is never in the list (line 116) | `events`, as a PROPERTY |
| `EventsProps!NoneTaken`: PyEvent unhooks itself from the core (`PyEvents.cpp:118`), a handler stays until its binder lets it go (`Events.h:97`); a `-=` with no function hooked takes whatever has the address of PyEvent's last node | `events`, `Binders = {x, y}`, as a PROPERTY |
| `PyTaskProps!OwnAnswer`: every native call returns the first one's result (`AsyncFunctions.cpp:63`) | `pytask`, two native calls |
| `SessionProps!EveryLatestResolves`, `KnowsEveryOpen`, `EveryClosedReaped`: the properties of the run without their exceptions; to `EveryClosedReaped` a check which waits with no timer set is also one | `session`; `KnowsEveryOpen` holds with `Renames` and `Silences` false and no `HandlerOpens` |
| `FuncSourcesProps!EveryReplacedGoes`: a call which replaces a source's functions forgets the others (`Interface.h:43`) | `addins` |
| `FuncSourcesProps!NoDanglingIterator`, `HeldIsCallable`, `ListedHasFunctions`, `AnonStays` | `addins` |
| `FuncSourcesProps!AlwaysCallsItsOwn`: after a refusal a name may call another registration than the registry shows | `addins`, `MaxCalls = 4`, five sources, six objects, `MaxIds = 8`, lists of one function `f` in two texts, no events, removals and deferrals |
| `FuncSourcesProps!RegistryIsCallable`: the unwritten id of a failed registration is another function's, which Excel gives up | `addins`, `StrayIds = TRUE` |
| `FuncSourcesProps!OnlyOwned`, `RegistryIsCallable`: a call names a function twice; the second registration replaces the first, whose object is what the source keeps (`Interface.cpp:105`) | `addins`, `SpecLists` with `<<F("f", 1, 1)>>` and `<<F("f", 1, 2), F("f", 2, 1)>>` |
| `FuncSourcesProps!NoFreedThunk`: a registration which Excel refuses to give up keeps its id but not its thunk | `addins`; holds with `MaxRefusals = 0` |
| `RegionAllocator!Mapped`, `FreeFinds`: a block beyond the pages mapped (line 177); a free block is not found once the `short` overflows (line 71) | `thunk_overlap` |
| `LoadersProps!TriedInTheEnd`: "Could not connect COM: trying again in 1 second..." (`ExcelThread.cpp:300`); a start-up whose call Excel rejects is lost (`Connect.cpp:57-61`), and one which waits with no timer set is not tried again | `loaders`, as a PROPERTY |
| `LoadersProps!NoConnectionKept`: no connection to COM is kept without the core and its start-ups; an early start-up connects before the core is created, the next opening forgets it with its queue, and nobody disconnects | `loaders` |
| `LoadersProps!AddinIsAttached`: an open add-in with plugins of its own is never attached to them, since the pointer to it is cleared before it is tested (`CoreEntryPoint.cpp:68`, 85-87; `Core.rst:200` promises it) | `loaders`, `Xlls = {Xloil, a}`, `Early = {}`, `Faults = {}`, `MaxOpens = 2` |
| `LoadersProps!ReloadLoads`: after a failed start-up, closing and opening xloil.xll loads nothing (`Core.rst:104` advises it), since `theCoreIsLoaded` is never reset | `loaders`, `Xlls = {Xloil}`, `Faults = {}` |
| `LoadersProps!CoreStays`: closing the last other add-in tears the core down under an open xloil.xll | `loaders` |
| `LoadersProps!StaysDefined`: a start-up which is still queued runs for a core which has gone | `loaders`, `Early = {}`, `Faults = {}` |
| `LoadersProps!OwnFunctions`: the static functions of a plugin which refused to start are registered as the next one's | `loaders`; holds with `Faults = {}` |
| `ValuesProps!TrimKeeps`: an array is trimmed to its last column which is not empty (`ExcelArray.h:156`); cells beyond the range of the search are cut off (`ExcelArray.cpp:77`) | `values` |
| `ValuesProps!DefaultAscends`: without an order rows are sorted ascending (`xloSort.cpp:107`) | `values` |
| `ValuesProps!FilledThroughout`: all cells are filled with the value (`xloFill.cpp:41`, `xloFillNA.cpp:97`); of a text only the first is, and an array which is trimmed is copied with the wrong width | `values` |
| `ValuesProps!DatesInvert`: the serial number of a date is the one it was made of (`Date.cpp:104`); that of 28 February 1900 is 60 | `values` |
| `ValuesProps!EachSeparates`: each character is a separator of its own (`xloSplit.cpp:152`) | `values` |
| `ValuesProps!EndExcluded`: the last row is not part of the result (`xloIndex.cpp:60`); a last row of 1 is read as none given, and all rows are returned | `values` |

## 5. Fairness

**RTD.** `Fairness` is weak fairness of the worker's steps (a thread which is not blocked runs), of
Excel's answer to a message which has been queued and its return from `join()`, of the end of a call
which the user thread has begun, and of a task's publishing and ending, one condition for each
task. No one is obliged to connect, publish, drop or terminate, and a spurious wake-up is possible
but never required. `BusySpec` adds that somebody publishes again and again. It is needed: without
it a lost wake-up may leave requests unserved, as `rtd_lost_wakeup` shows of the last request, to
quit. `rtd_feed` has no publishers with tasks, since `start()` on a running task which nobody
cancels can block the worker (`RestartsOnlyStopped`).

**Async.** As long as Excel can go on with a calculation, the worker with its requests or a task to its
end, one of them does. That is less than fairness to each, and enough: between two edits each of them
has only so much to do, so that none can keep another from its turn for ever. Nobody need edit
anything, nor tell the server to quit.

**Queue.** Weak fairness of `Arm`, of a callback's next step and of time. Strong fairness of the two
messages, because a callback in progress disables them, and Windows keeps a message until the loop
comes round; and of the end of a job at each depth, because callbacks which a dialog lets in put it
off: the user closes a dialog in the end. There is none on Excel's becoming available, on a
successful connection or on any submission; `Settled` has availability as its hypothesis.

**Python.** Weak fairness of the worker's rounds as long as it is awake, of the main thread once it
closes, of the loop's end, and for each task of its coroutine's steps and the cancellation asked for. A
worker which has missed its notification need not wake, a stopped publisher need not be reaped, and a
coroutine which nobody cancels need not end.

**Session.** Strong fairness of a queued check once the timer is set, since Excel's dialogs put it off
and the user closes them in the end, and of the steps of a check, which a re-entrant one interrupts;
weak fairness of the choice a handler makes. A check which waits with no timer set need never come.

**Loaders.** Weak fairness of each start-up which the queue is at, and of one which waits only if the
timer was set; of the end of loading plugins. `PluginsAreTried` has Excel's answering from some time on
as its hypothesis.

The runs `events`, `addins`, `values` and `rtd_replace` check safety only.

## 6. What is proved

All theorems hold for every value of the constants which satisfies the assumption of the module
(`RtdConstants`, `AsyncConstants`, `PyTaskConstants`, ...: the constants have their types, and model
values are distinct). Some say more: `QueueConstants`, that a job is one call, submitted once, and
that the start-up is queued by the main thread (`CoreEntryPoint.cpp:67-89`); `NoneIsNoCalc`, that the
value which stands for "no evaluation" is not one; `CallConstants`, that descriptors of `xloSort` name
columns, that serial numbers are of Excel's calendar, references on a sheet and separators not empty,
and that a layout names arguments which are given, each of them an array (for another number the code
throws before anything is written, `xloBlock.cpp:56`); `TextConstants`, that texts are sequences and
their ranks numbers; `BookConstants`, that there are finitely many
names, none of them empty (Excel registers no such function), and `SourceConstants`, that there are
finitely many sources and that no path is empty. Theorems which assume more than that say so.

| Theorem | States | Assumes besides |
|---|---|---|
| `RtdServerProofs!TypeCorrect` | Every variable of the RTD server keeps its type, for all topics, ids, publishers and queue bounds | |
| `RtdServerProofs!NoOrphans` | However many publishers are registered, replaced and dropped, somebody who will wait for it holds each running task | |
| `RtdServerProofs!ThreadEndsLast` | When the worker thread has ended, the only task which may run is the one the user thread is waiting for | |
| `RtdServerProofs!ImplementsFeed` | Without AsyncTaskPublishers, whose disconnect() lets a subscribed record be erased, every step of the server is a step of the abstract feed or a stutter | no AsyncTaskPublishers |
| `RtdServerProofs!ArrayAndNotification` | In one session, an array waits only if Excel is being told of it, and Excel is told only when there is one | one session |
| `RtdServerProofs!TableNamesSubscribers` | In one session without AsyncTaskPublishers, the worker's id table only names topics of which the id is a subscriber | both |
| `MainQueueProofs!QueueTypeCorrect` | Every variable of the main thread's queue keeps its type, whatever jobs and threads there are and however deep callbacks nest | |
| `MainQueueProofs!NeverLeftToTimer` | A job submitted with no wait is in the queue only as long as a message for it is waiting or about to be posted: it never depends on the timer | |
| `MainQueueProofs!NoJobLost` | A job which has been submitted is in the queue or with one callback, once, until it has run or is given up: no batch that is put back, interrupted or run at once loses it or runs it twice, however callbacks nest | |
| `MainQueueProofs!RunInOrder` | When a job of another thread runs, those which that thread submitted before it with no wait have been tried, or are with a callback which it interrupts, whichever jobs Excel refuses and whatever is put back | |
| `RtdAsyncProofs!AsyncTypeCorrect` | Cells, tasks, records, requests and the evaluation in progress keep their types, for every set of formulas and arguments | |
| `RtdAsyncProofs!OneTaskPerCell` | No cell ever has two tasks with the same function and arguments, however calculation, disconnection and the worker interleave | |
| `RtdAsyncProofs!ListedTasksHaveRecords` | Until the server ends, a task which a call can find in its cell's list has a record: it is taken off the list before the record goes | |
| `RtdAsyncProofs!ResultsAreOwn` | What a region shows once it is evaluated is the result of its own formula, however recalculation, disconnection and tasks interleave | no other formula is called in the first cell of a region which may hold an array formula (`FirstCellsApart`) |
| `SessionProofs!SessionTypeCorrect` | The types of the workbook monitor and of the object cache, for all workbooks, cells and bounds | |
| `SessionProofs!CyclesApart` | The objects which a cell holds are those of one calculation, although the list is cleared in the middle of one | |
| `SessionProofs!MonitorKnows` | A workbook which Excel has open is known to the monitor, or one of the events in progress is about to learn of it, unless it was opened behind its back | |
| `SessionProofs!ReferencesResolve` | The reference which a cell's last call returned fetches the object it was returned for, as long as neither the cell nor the object was let go and the position fits eight bits | |
| `PyTaskProofs!PyTaskTypeCorrect` | The types of the event loop, its tasks and their publishers, for all tasks and bounds | |
| `PyTaskProofs!LastOfDestroyed` | Whoever stops tasks and whatever runs python code, a task whose publisher was destroyed begins no conversion: at most the one result in conversion goes out through it (`LastOfDead`) | |
| `PyTaskProofs!NothingLeftToCancel` | When Python is unloaded no task is left which somebody still has to cancel | |
| `PyTaskProofs!LastOfStopped` | A task which was stopped publishes at most the result in conversion at the time, whatever its coroutine goes on to produce | only the worker stops tasks (`~OtherStops`) |
| `AddinProofs!SourcesTypeCorrect` | The types of registry, sources and jobs, for all sources, lists and bounds: a source which a job holds or a registration is under way for is alive, only a living source has functions, and those are in memory | |
| `AddinProofs!NothingUnowned` | When no job is left every registration belongs to a living source which can take it back, but for those Excel refused and those a replacing call forgot | no call names a function twice (`NamesApart`) |
| `AddinProofs!RegistryCallable` | A name in the registry is registered, and until Excel refuses something or a dangling iterator is followed it calls what the registry shows for it | `NamesApart`; `StrayIds = FALSE` |
| `AddinProofs!AllocatorKeepsContents` | As long as at most half a chunk has been cut up, no two live blocks of the allocator overlap and none lies in a released chunk, whatever is freed and for all sizes: only then can a thunk be overwritten | |
| `AddinProofs!NothingKept` | When the last add-in is closed nothing is left of the core: no context and no plugin, and no COM connection unless a start-up is still queued or the core was never created, in whatever order add-ins are opened and closed | |
| `ValuesProofs!SortReturnsRows` | xloSort returns the rows it was given, all of them and in order, for all arrays, keys and types of cells | |
| `ValuesProofs!DatesFollowDays` | For every serial number of Excel's calendar excelSerialDateToYMD gives a day of the calendar, and for the next number the next day, 29 February 1900 apart: its integer divisions never round a day away at the end of a month, year or century | |
| `ValuesProofs!AddressesReadBack` | Every address which is written, of a cell or of a range, in either style, is read back as the reference it was written for, for all references on a sheet: no column's name is taken for a row, nor A1 for R1C1 | |
| `ValuesProofs!SplitsRejoin` | A text of any length, split at one character and put together with it, is the same text unless it ends with it, and no token but the first and the last is empty if separators which follow each other count as one | |
| `ValuesProofs!BlocksLaidOut` | Every block which xloBlock builds, of any arrays and any layout, has each argument in its place, NA below the lower ones of a line and the gap where its padding is, and the room for text which is taken before the parts are written is enough for all of its cells | |
| `EventsProofs!EventTypeCorrect` | Handler lists, firings in progress and Python's hooks keep their types, for all functions, binders and addresses | |
| `EventsProofs!DueAreCalledOnce` | Each hooking made before a firing, of a Python function which is held throughout and not unhooked with -=, has led to exactly one call when the core's loop ends, however often the function was hooked and whatever handlers hook, unhook and drop meanwhile, unless one has raised or was dropped as it ran, or the event was disturbed | |
| `EventsProofs!PyEventHookedOnce` | Until the event is cleared or disturbed by a needless -=, PyEvent is hooked to the core's event exactly once while it has functions, not at all when it has none, and knows where | |
| `EventsProofs!BindersKeepHandlers` | Until a clear() of an event with handlers, or a -= which takes a handler with no function hooked, no step takes the handler of a binder which does not let it go: no two handlers ever share an address | |

None of these can be dropped: `ArrayIsAnnounced` and `EraseOnlyUnsubscribed` are counterexamples
without the first two, and section 4 gives those to `OwnResult`, `OnlyOwned` and
`RegistryIsCallable` without the others.

`AddinProofs` is about three components: it extends `FuncSourcesProps` and `LoadersProps`, and has an
instance of `RegionAllocator`.

**Tasks** (`TaskInv`). `NoOrphanTask` is not inductive. What it needs besides: the worker holds a
publisher only between looking one up and letting go (`CurIdle`), the publishers which `clear()` took
are held until destroyed (`DoomedIdle`), one which has not been given to `start()` has not run
(`FreshUnused`), the record which `disconnectTopic` erases holds the publisher the worker holds, or a
newer one which has not run (`ErasedNotRunning`, `DoneStays`), the user thread holds one only in
`addPublisher` and `dropPublisher` (`UserHolds`), and from `clear()` on the running tasks are those
waited for (`ClearWaits`, from which `AllStopped` follows).

**Notifications** (`SendInv`). Between storing the array and queueing the message for it the worker
is at a place where no message exists yet (`NotifyPending`), since a message implies an array and the
worker only stores one when there is none.

**The id table** (`LinkInv`). `TakeRequests` takes an id out of the table before its disconnect is
served, so a disconnect still to be served has no entry (`LeavesDelinked`), and serving it cannot
leave an entry without its subscriber.

**Refinement** (`EraseInv`). The abstract `dirty` and `posted` are `ready` and `array`, except that
the array is posted when it is stored, whilst `ready` is emptied one step later. Each concrete step
is one abstract step or none; erasing a record needs that its topic has no subscriber then
(`ErasedUnsubscribed`, `ClearedRecords`).

**The queue** (`QueueInv`). `Prompt` says that a job without a wait is in the queue only while a
message is waiting, is about to be posted, or is in the hands of the callback which puts it back. It
holds through a callback because the message takes every such job: they are all due (`DueNow`) and
the due ones are a prefix (`Sorted`). That a job with outcome `queued` and no wait is due needs that
no job is submitted twice (`TodoOnce`), that jobs in the queue or in callbacks have been submitted
(`Submitted`), and that the function of a RetryAtStartup is not submitted by anyone else before the
connection (`FuncWaits`).

`OnePlace` and `InOrder` need `OrderInv`. The places of a job are counted, so that every step is one
which moves it: a batch is what `TakeDue` cuts off the queue, an interrupted callback keeps its own,
and what is put back was kept, which needs that a callback puts back only when it has nothing left to
try (`DoneTrying`). For the order: of two jobs of one thread the earlier one, as long as it has not
been tried, is before the later one in the queue, and the later one is with no callback
(`QueuedInOrder`), and a batch which holds both has them in order (`TakenInOrder`). What is left of a
thread's program is its end (`RestOfProgram`), so the earlier job was submitted first; and a job which
is run at once is never one of another thread's (`DirectOfMain`).

**Async** (`AsyncInv`). `ListedHasRecord` says that a task which a call may find has a record. A
record goes only by `Erase`, for the task the worker took off its list in the step before
(`ErasedUnlisted`), or with the whole server; and a task is put on a list in the step which creates
its record. `OneTask` is kept because a list grows only in the step which starts a task, after the
cell's list was searched for one with the same arguments, and a publisher keeps its arguments for
ever. `Types` is what each of the variables needs of the others: ids are below `lastId`, keys lead
to lists of tasks, tasks to publishers.

**Results** (`OwnInv`). A call is taken for a follow-up of an array formula by its cell alone, and
then gets the array's topic without a look at its arguments. So the invariant follows the array's
count: only in the first cell of a region which may hold an array formula are there calls to count
(`Counting`), those after the first belong to the array formula being evaluated (`Following`), and from
its first call on the topic in that cell is that of a task with its arguments (`InHand`). What a call
subscribes to is such a task, and what it returns is its result (`Answered`), since a record's value
is that of the task whose topic it has (`Valued`) and cells are found under their numbers (`Keyed`).

**Python** (`LifeInv`, `QuietInv`). A conversion begins only whilst `running`, and a dead publisher has
nothing running (`LifeInv`); what is in conversion has been tested before, and goes out. The worker has
ended once the loop is not up, and then no publisher is left, so that nothing is to be cancelled. That
a stopped task has nothing running either needs that nobody but the worker stops tasks: then none is
stopped whilst it is started, and `set_task` finds none which was (`QuietInv`).

**Session** (`BookInv`, `CacheInv`). The set a check read before it called the handlers holds what
was open then; `FramesKnow` says of each check on the stack that its set has every open workbook of
which nothing was missed, and that it reports none of those as closed. With `Held`, that a cell's
latest reference is of such a workbook or of one of which something was missed, reaping takes no
object which a cell still shows. `Shrinks` is what reaping, erasing and clearing have in common.

**Events** (`FiringInv`). That who has a handler knows where its node is (`Addressed`) needs that no two
nodes share an address, which a freed one taken again might break (`Apart`). A reference
which is due is in the list and its function held, and the loop has lost its place only when none is due
(`Callable`). Whilst any is due, PyEvent's turn in the core's loop is still to come, once, or has passed
with each of them called once, or is under way; then those before the loop's position have been called
once and those after it not at all (`Progress`), no reference being in the list twice (`Apart`). Whatever
a handler hooks or drops meanwhile shifts the list and the position alike, and when the loop takes its
next step the references of what was dropped have gone (`Swept`).

**Functions** (`SourcesInv`). A step changes the registry, the sources and the jobs, and then lets go of
the sources which nothing holds any more, whose functions go to a drop job. The invariant is therefore
stated of the world a step makes (`WorldOK`), each action is shown to make such a world, and that
letting go keeps it is shown once (`SettleKeeps`). In it a function is in memory, under the name by which
it is referred to, and has one owner: one source with its registration under way, or one drop job
(`InMemory`, `Named`, `Apart`). An iterator which is not stale points to what it did (`Iterators`): a step
which rebuilds a map stales those into it. Every registration is of a function which somebody owns and
which knows its id (`OwnedBy`), but for those refused or forgotten; once no job is left the owner can only
be a living source, which is `OnlyOwned`. Each name in the registry is that of a registered function
(`Entered`), and Excel's registration of an id is of the function which has it (`IdsMatch`). Of a replaced
function it is needed that it was registered (`Registered`), and of the functions of one call that none has
been made yet (`Fresh`), which is where `NamesApart` comes in.

**Allocator** (`EarlyInv`). As long as half a chunk has been cut up at most, there is one chunk, its
blocks lie one after the other, and no `short` overflows. `KeepsContents` without that condition is
what `thunk_overlap` refutes.

**Loaders** (`KeptInv`). The contexts, but for the core's, are those of add-ins which run, and so are
open; the core does not outlive them (when the last of them closes, the one context left is the core's);
without the core nothing is loaded or being loaded; and there is a COM connection only with the core,
before it was ever created, or with a start-up queued which has connected (`Connected`).

**Sorting** (`SortInv`). A cell has a group (numbers, text, blanks, errors) and a value in it, and
`Compare` is the lexicographic order of the two (`CompareIsOrder`); a key orders rows as a total
preorder, in either direction (`KeyOrders`), and the least key by which two of three rows differ
decides between them, so that several keys give a strict weak order (`RowsStrictWeak`) on which
`std::sort` can be relied. Whilst the rows are moved, those moved have what the permutation puts
there, and the others what they had, but for row `k`, which holds the row with which the cycle began
(`AtMove`); between cycles the rows moved are a union of cycles (`AtCycle`). That a descriptor left
out has a column is assumed (`CallConstants`): the code does not test it.

**Dates.** `excelSerialDateToYMD` divides four times: for the 400 years, the century's, the year and the
month. Each quotient is the one whose first day is not after the day and whose last is not before it
(`CenturyFound`, `YearFound`, `MonthFound`, `DayFound`), although the divisors are rounded numbers of days;
so the date is the day's (`DatesAreDays`), and the next number's is the next day's (`DayAfter`) but for the
one which was not.

**Addresses.** Functions which recur over a text are unrolled: that a function of its positions meets
the recursion is shown by the least position at which it would not (`Least` stands for the induction
which the provers cannot instantiate), and the definition's `CHOOSE` is then equal to it (`UnsignedIs`).
A number is read digit by digit as it was written (`DecimalRead`), the letters of each of a sheet's
columns as its number (`ColumnNameRead`, for one, two and three letters). What stands in a text is read as if it
stood alone as long as the character behind it is no part of it (`UnsignedStands`), which the colon and
the end of the text are not; and "R1C1" is not taken for column R and row 1, because the address would
then have to end or to go on with a colon (`RCReadBack`, `ParsedRangeRC`).

**Texts.** The tokens which the split finds lie between cuts, places of the text at which there is a
separator (`TokensFrom`, `SplitCuts`); joined up to a cut they are the text up to it (`CutsJoined`), and
as the text does not end with the separator the last cut is behind its end. Where separators are skipped
together, a token begins with a character which is none (`SolidAfter`), or is the last.

**Blocks.** The block is a fold over the layout's lines, each of them a fold over the line's parts. A fold
is described as a walk of steps from the first part to the last, so that what a step keeps holds at the end
(once more by the least place at which it would not). Written so far are the lines above and, of the
line under way, the parts before the place where the next one goes (`col`, `row` of the second loop);
everything else is NA, and the next part neither reaches what is written nor leaves the array, as the
widths of a line with its gap sum up to the array's, and the heights of the lines to its height. A line
with no padding has its gap at the end: nothing is written there. For the text, the cells of a line, row
by row, are those of its parts, part by part, so that the count of the one is that of the other; a part
counts no more than its argument did when the layout was read, and the one character which a cell's
text takes besides is within the two which the builder adds for every cell.

## 7. What is only model-checked

Liveness and ENABLED are beyond the proof system: `RequestsTaken`, `UpdatesDelivered`,
`ArrayFetched`, `ResultShown`, `TriedSoon`, `Settled`, `StoppedEnds`, `CloseEnds`, `ClosedReaped`,
`PluginsAreTried`. Every safety invariant which a passing run checks is a theorem.

## 8. What is not modelled

The parts listed as `not_modelled` in PROJECT.json, each with its reason: the wrappers around
Excel's C and COM interfaces, the user interface, SQL, thunks' machine code. Most of the code's lines
are declarations (`XlCallSlim.h`, `ExcelCallMapping.h`), those wrappers, and conversions between
Excel's, python's and numpy's values; the share of its lines which the models translate is small for
that reason. Within the parts which are modelled:

- registration of the COM class and the RTD server's `IDispatch` plumbing (`VirtualRegistry`);
- the values themselves and their conversion to VARIANTs, log messages, Heartbeat;
- an outcome of the racy read in `value()` (`RtdServerWorker.h:133`, 241) other than a whole value;
- the creation of the async manager from another thread, with its five-second timeout;
- COM's own re-entrancy during an outgoing call on the main thread: the message loop is entered by
  jobs in `Pumps`, and by handlers in `HandlerOpens`, only;
- directory watches, local functions of workbooks (`LocalFunctions.cpp`);
- in `Loaders`: finding DLLs, environment blocks, an XLL linked statically, plugins' own work
  during their initialisation;
- real durations: order and "due" are kept, lengths are not.
- in `Values`: floating point and times of day, references and errors' texts, descriptors of
  `xloSort` which name no column when they are left out, negative numbers in a layout of `xloBlock`
  (which would be read as a marker or before its arguments), an empty separator of `xloSplit` (with
  which it does not end), `xloConcat` without a separator, sheet names and absolute addresses.
