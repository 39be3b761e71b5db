---------------------------- MODULE LoadersProps ----------------------------
(***************************************************************************)
(* What opening and closing add-ins has to keep to.                        *)
(***************************************************************************)
EXTENDS Loaders

\* Once Excel has closed every add-in, xlOil keeps nothing: no context, no
\* plugin in memory and no function of one; nor a connection to COM, unless a
\* start-up which was still queued has brought it back, or the core was never
\* created (addinCloseXll).
NothingIsKept ==
  defined /\ open = {} =>
    /\ contexts = {} /\ plugins = {} /\ statics = {}
    /\ com => queued # {} \/ ~isLoaded

\* The core's start-up waits, and no timer was set.
Stranded == ~timer /\ \E s \in queued : s.loads = Core /\ s.at \in {"wait", "refused"}

\* A start-up which cannot connect, or which the queue refuses, is tried again: if
\* Excel answers COM calls in the end, then whilst an add-in holds the core its
\* plugins come to be gone through (RetryAtStartup). It is lost, or waits for ever,
\* only if Excel rejected a call for the window's Application (Connect.cpp:57-61),
\* or no timer was set because another job was first (ExcelThread.cpp:147-151).
PluginsAreTried ==
  <>[]ready =>
    ((Core \in contexts) ~>
       (tried \/ Core \notin contexts \/ ~defined \/ Core \in lost \/ Stranded))

-----------------------------------------------------------------------------
\* Statements which the code does not keep to.

\* "Could not connect COM: trying again in 1 second..." (ExcelThread.cpp:300): a
\* start-up is tried until it succeeds.
TriedInTheEnd ==
  <>[]ready => ((Core \in contexts) ~> (tried \/ Core \notin contexts \/ ~defined))

\* No connection to COM is kept without the core and its start-ups.
NoConnectionKept == defined /\ open = {} /\ queued = {} => ~com

\* A plugin is told of every open add-in, once nothing waits to be loaded:
\* myfuncs.xll, in docs/source/Core.rst, names the plugin with its functions.
AddinIsAttached ==
  defined /\ tried /\ queued = {}
    => \A x \in open \cap contexts : \A p \in plugins : <<x, p>> \in attached

\* Closing and opening xloil.xll again, as docs/source/Core.rst advises when
\* COM fails at start-up, has the plugins loaded.
ReloadLoads ==
  <>[]ready =>
    ((Xloil \in open) ~>
       (plugins # {} \/ Xloil \notin open \/ ~defined \/ Core \in lost \/ Stranded))

\* The core stays whilst an add-in is open.
CoreStays == defined /\ isLoaded /\ open # {} => Core \in contexts

\* A module's functions are registered as its own (PluginLoader.h).
OwnFunctions == \A f \in statics : f.code = f.source

\* No pointer to what has gone is followed.
StaysDefined == defined
=============================================================================
