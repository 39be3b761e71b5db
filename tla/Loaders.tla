------------------------------ MODULE Loaders ------------------------------
(***************************************************************************)
(* Opening and closing the add-ins of one Excel process: autoOpenHandler,  *)
(* addinCloseXll, the start-up queued by runComSetupOnXllOpen and the      *)
(* loading and unloading of plugins.                                       *)
(*                                                                         *)
(* All of it runs on the main thread. xlOil.dll, once loaded, is never     *)
(* unloaded, so that its statics outlive every add-in. Where the code      *)
(* follows a dangling pointer anything may happen: the model ends there.   *)
(***************************************************************************)
EXTENDS Naturals, Sequences, FiniteSets

CONSTANTS
  Xlls,
  Xloil,       \* xloil.xll, which has no context of its own
  Core,        \* the context of xlOil.dll
  Early,       \* the add-ins whose settings say LoadBeforeCore
  Plugins,     \* the plugins named by the core's settings, in order
  Faults,      \* what may go wrong
  MaxOpens     \* bound on the number of times an XLL is opened

ASSUME LoadersConstants ==
  /\ Xloil \in Xlls /\ Core \notin Xlls
  /\ Early \subseteq Xlls \ {Xloil}
  /\ Plugins \in Seq(STRING)
  /\ Faults \subseteq {"settings", "missing", "refuses", "attach"}
  /\ MaxOpens \in Nat

VARIABLES
  defined,    \* nothing undefined has happened
  ready,      \* Excel answers COM calls
  open,       \* the XLLs which Excel has opened
  running,    \* those with theXllIsOpen
  opens,
  contexts,   \* theAddinContexts, by path
  isLoaded,   \* theCoreIsLoaded
  queued,     \* the start-ups: what to load, and where it has got to
  lost,       \* what the start-ups were to load which ended in another error
  timer,      \* the main thread's timer has been set: it is periodic, for ever
  toLoad,     \* loadPluginsForAddin: the plugins still to come
  tried,      \* the core's plugins have been gone through
  plugins,    \* getLoadedPlugins
  attached,   \* the add-ins of which a plugin was told
  memos,      \* getFuncRegistryQueue: the modules whose functions wait in it
  statics,    \* the core context's static sources, with the functions' modules
  com         \* theComConnector exists

loaderVars == <<defined, ready, open, running, opens, contexts, isLoaded, queued, lost, timer,
                toLoad, tried, plugins, attached, memos, statics, com>>

-----------------------------------------------------------------------------
Startup == [loads: {Core} \cup Early, at: {"com", "wait", "xll", "refused"}]
Starting(a) == [loads |-> a, at |-> "com"]

LoaderInit ==
  /\ defined = TRUE
  /\ ready \in BOOLEAN
  /\ open = {} /\ running = {} /\ opens = 0
  /\ contexts = {}
  /\ isLoaded = FALSE
  /\ queued = {} /\ lost = {} /\ timer = FALSE
  /\ toLoad = <<>> /\ tried = FALSE
  /\ plugins = {} /\ attached = {}
  /\ memos = {Core} /\ statics = {}
  /\ com = FALSE

\* The main thread is not in the middle of loading plugins.
LoaderCalm == defined /\ toLoad = <<>>

\* StaticFunctionSource::init of a new source of the core's: it takes every
\* function which waits to be that module's.
Sourced(p) == statics \cup {[source |-> p, code |-> m] : m \in memos \cup {p}}

\* Undefined behaviour.
Undefined ==
  /\ defined' = FALSE
  /\ UNCHANGED <<ready, open, running, opens, contexts, isLoaded, queued, lost, timer,
                 toLoad, tried, plugins, attached, memos, statics, com>>

-----------------------------------------------------------------------------
(***************************************************************************)
(* xlAutoOpen: xlOilAddin::autoOpen and autoOpenHandler.                   *)
(***************************************************************************)
\* What becomes of the settings. Files which do not parse throw before xlOil is
\* entered ("unread"); setting up the log or the dates throws whilst the add-in's
\* context is made ("badOwn"), or the core's.
Found ==
  {"read"} \cup (IF "settings" \in Faults THEN {"none", "unread", "badOwn", "badCore"} ELSE {})

\* The context of its own which an add-in gets.
Own(x, found) == IF x = Xloil \/ found = "badOwn" THEN {} ELSE {x}

\* The first add-in to get so far creates the core, once and for all.
MakesCore(found) == ~isLoaded /\ found = "read"

\* Until then each opening makes a new queue, and forgets what is in the old one.
NewQueue == IF isLoaded THEN queued ELSE {}

\* After that the pointer to the add-in's context is null whatever the settings
\* said, so that nothing but an early start-up is queued for its plugins.
OpenXll(x, found) ==
  /\ LoaderCalm /\ x \notin open /\ opens < MaxOpens
  /\ found \in {"read", "badOwn", "badCore"}
  /\ found = "badOwn" => x # Xloil
  /\ open' = open \cup {x} /\ running' = running \cup {x} /\ opens' = opens + 1
  /\ contexts' = contexts \cup Own(x, found) \cup (IF MakesCore(found) THEN {Core} ELSE {})
  /\ queued' = NewQueue \cup {Starting(a) : a \in Early \cap Own(x, found)}
                        \cup (IF MakesCore(found) THEN {Starting(Core)} ELSE {})
  /\ IF MakesCore(found)
       THEN isLoaded' = TRUE /\ statics' = Sourced(Core) /\ memos' = {}
       ELSE UNCHANGED <<isLoaded, statics, memos>>
  /\ UNCHANGED <<defined, ready, lost, timer, toLoad, tried, plugins, attached, com>>

\* Excel has it open all the same.
OpenUnread(x) ==
  /\ LoaderCalm /\ x \in Xlls \ open /\ opens < MaxOpens
  /\ "unread" \in Found
  /\ open' = open \cup {x} /\ opens' = opens + 1
  /\ UNCHANGED <<defined, ready, running, contexts, isLoaded, queued, lost, timer, toLoad,
                 tried, plugins, attached, memos, statics, com>>

\* LoadBeforeCore is read through the pointer to the settings, even a null one.
OpenWithoutSettings(x) ==
  /\ LoaderCalm /\ x \in Xlls \ ({Xloil} \cup open) /\ opens < MaxOpens
  /\ "none" \in Found
  /\ Undefined

(***************************************************************************)
(* xlAutoClose: xlOilAddin's destructor and addinCloseXll.                 *)
(***************************************************************************)
\* Fault: the core's own entry is forgotten.
OnlyCoreLeftForgotten(left) == left = {}

\* Whether just one context is left, which is taken to be the core's.
OnlyCoreLeft(left) == Cardinality(left) = 1

CloseXll(x) ==
  /\ LoaderCalm /\ x \in running
  /\ open' = open \ {x} /\ running' = running \ {x}
  /\ IF OnlyCoreLeft(contexts \ {x})
       THEN /\ contexts' = {} /\ statics' = {}
            /\ plugins' = {} /\ attached' = {}
            /\ com' = FALSE
       ELSE /\ contexts' = contexts \ {x}
            /\ UNCHANGED <<statics, plugins, attached, com>>
  /\ UNCHANGED <<defined, ready, opens, isLoaded, queued, lost, timer, toLoad, tried, memos>>

\* One whose opening threw has nothing to close.
CloseUnread(x) ==
  /\ LoaderCalm /\ x \in open \ running
  /\ open' = open \ {x}
  /\ UNCHANGED <<defined, ready, running, opens, contexts, isLoaded, queued, lost, timer,
                 toLoad, tried, plugins, attached, memos, statics, com>>

-----------------------------------------------------------------------------
(***************************************************************************)
(* RetryAtStartup, run by the main thread's queue.                         *)
(***************************************************************************)
Excel ==
  /\ ready' = ~ready
  /\ UNCHANGED <<defined, open, running, opens, contexts, isLoaded, queued, lost, timer,
                 toLoad, tried, plugins, attached, memos, statics, com>>

Moved(s, to) == (queued \ {s}) \cup {[s EXCEPT !.at = to]}

\* Fault: a start-up whose connection fails is given up.
Abandoned(s) == queued \ {s}

\* It is tried again in a second.
Retried(s) == Moved(s, "wait")

\* For a job which is due later enqueue() sets the timer, unless another job is
\* first in the queue and due: then it posts a message, which comes too soon.
SetTimer == timer' \in {timer, TRUE}

Queue(q) ==
  /\ queued' = q
  /\ UNCHANGED <<defined, ready, open, running, opens, contexts, isLoaded, toLoad, tried,
                 plugins, attached, memos, statics>>

Connect(s) ==
  /\ LoaderCalm /\ s \in queued /\ s.at = "com" /\ ready
  /\ Queue(Moved(s, "xll"))
  /\ com' = TRUE
  /\ UNCHANGED <<lost, timer>>

\* Without a window or an event sink the connection fails with the exception
\* which is caught,
ConnectFails(s) ==
  /\ LoaderCalm /\ s \in queued /\ s.at = "com" /\ ~ready
  /\ Queue(Retried(s))
  /\ SetTimer
  /\ UNCHANGED <<lost, com>>

\* but if the window's Application is asked for and Excel rejects that call, the
\* error is another: it is only logged, or ends in the future of the start-up's
\* packaged task, which nobody reads. The start-up is lost.
ConnectRejected(s) ==
  /\ LoaderCalm /\ s \in queued /\ s.at = "com" /\ ~ready
  /\ Queue(queued \ {s})
  /\ lost' = lost \cup {s.loads}
  /\ UNCHANGED <<timer, com>>

\* An early start-up looks at a local variable of autoOpenHandler, which has
\* returned; the core's follows the pointer to its context.
Dangling(s) == s.loads # Core \/ Core \notin contexts

\* The queue runs it at once or later, when COM is available,
Available(s) == LoaderCalm /\ s \in queued /\ s.at = "xll" /\ com /\ ready

\* or puts it back.
Refused(s) ==
  /\ LoaderCalm /\ s \in queued /\ s.at = "xll" /\ ~(com /\ ready)
  /\ Queue(Moved(s, "refused"))
  /\ SetTimer
  /\ UNCHANGED <<lost, com>>

\* The queue comes to a job whose time has passed, by the timer or for another job.
Resumed(s) == IF s.at = "wait" THEN "com" ELSE "xll"

TimePasses(s) ==
  /\ LoaderCalm /\ s \in queued /\ s.at \in {"wait", "refused"}
  /\ Queue(Moved(s, Resumed(s)))
  /\ UNCHANGED <<lost, timer, com>>

LoadPlugins(s) ==
  /\ Available(s) /\ ~Dangling(s)
  /\ queued' = queued \ {s}
  /\ toLoad' = Plugins
  /\ tried' = (Plugins = <<>>)
  /\ UNCHANGED <<defined, ready, open, running, opens, contexts, isLoaded, lost, timer,
                 plugins, attached, memos, statics, com>>

LoadDangling(s) == Available(s) /\ Dangling(s) /\ Undefined

-----------------------------------------------------------------------------
(***************************************************************************)
(* loadPluginsForAddin, for the core's context.                            *)
(***************************************************************************)
Outcomes == {"loads"} \cup ({"missing", "refuses", "attach"} \cap Faults)

\* LoadLibrary runs the constructors which put the plugin's functions in the
\* queue; they stay there if the plugin has no entry point, or refuses to start
\* and is freed. The core does this once, so that no plugin is there before.
LoadPlugin(outcome) ==
  LET p == Head(toLoad)
      loads == outcome \in {"loads", "attach"}
  IN
  /\ defined /\ toLoad # <<>>
  /\ toLoad' = Tail(toLoad)
  /\ tried' = (Tail(toLoad) = <<>>)
  /\ CASE loads -> /\ plugins' = plugins \cup {p}
                   /\ statics' = Sourced(p) /\ memos' = {}
       [] outcome = "refuses" -> memos' = memos \cup {p} /\ UNCHANGED <<plugins, statics>>
       [] OTHER -> UNCHANGED <<plugins, statics, memos>>
  /\ attached' = attached \cup (IF outcome = "loads" THEN {<<Core, p>>} ELSE {})
  /\ UNCHANGED <<defined, ready, open, running, opens, contexts, isLoaded, queued, lost, timer,
                 com>>

-----------------------------------------------------------------------------
LoaderNext ==
  \/ \E x \in Xlls : \/ \E found \in Found : OpenXll(x, found)
                     \/ OpenUnread(x) \/ OpenWithoutSettings(x)
                     \/ CloseXll(x) \/ CloseUnread(x)
  \/ Excel
  \/ \E s \in Startup : \/ Connect(s) \/ ConnectFails(s) \/ ConnectRejected(s)
                        \/ Refused(s) \/ TimePasses(s)
                        \/ LoadPlugins(s) \/ LoadDangling(s)
  \/ \E outcome \in Outcomes : LoadPlugin(outcome)

LoaderSpec == LoaderInit /\ [][LoaderNext]_loaderVars

\* A job which is due has a message of its own, one which waits only the timer;
\* and loading plugins ends.
FairLoaderSpec ==
  /\ LoaderSpec
  /\ \A s \in Startup : WF_loaderVars(\/ Connect(s) \/ ConnectFails(s) \/ ConnectRejected(s)
                                      \/ Refused(s) \/ LoadPlugins(s) \/ LoadDangling(s)
                                      \/ timer /\ TimePasses(s))
  /\ WF_loaderVars(\E outcome \in Outcomes : LoadPlugin(outcome))
=============================================================================
