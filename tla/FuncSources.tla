---------------------------- MODULE FuncSources -----------------------------
(***************************************************************************)
(* The sources of worksheet functions (FuncSource, FileSource and          *)
(* LinkedSource, Interface.cpp; RegisteredModule, PyFunctionRegister.cpp), *)
(* the add-in's list of them and the jobs they have queued for Excel's     *)
(* main thread.  A source is alive while the add-in lists it or a job      *)
(* holds it; when the last reference goes, a job to drop its functions is  *)
(* submitted.                                                              *)
(*                                                                         *)
(* A job submitted on the main thread while an API is available runs at    *)
(* once ("now"), before whatever is queued; any other waits in the queue.  *)
(* The jobs which run at once are the calls stacked up inside the current  *)
(* step: nothing else happens until they have returned.                    *)
(***************************************************************************)
EXTENDS FuncRegistry, Sequences, SequencesExt

CONSTANTS Sources,      \* memory for source objects
          Paths,        \* the paths of modules: the sources' names
          Anon,         \* the name of a source without a module
          SpecLists,    \* what one call registers: sequences of [name, info]
          FileEvents, WorkbookEvents, Removals, Appends,   \* which calls are made
          StrayIds,     \* whether an unwritten id may be that of a function
          MaxCalls,     \* bound: calls and events
          MaxRefusals,  \* bound: times Excel refuses
          MaxDefers     \* bound: times the COM API is found busy

NoPath == ""

ASSUME SourceConstants ==
  /\ IsFiniteSet(Sources)
  /\ NoPath \notin Paths /\ Anon \in Paths
  /\ \A specs \in SpecLists : specs \in Seq([name: Names, info: Infos])
  /\ FileEvents \subseteq {"reload", "delete"} /\ Appends \subseteq BOOLEAN
  /\ StrayIds \in BOOLEAN
  /\ MaxCalls \in Nat /\ MaxRefusals \in Nat /\ MaxDefers \in Nat

VARIABLES book,      \* functions and registrations (FuncRegistry)
          origin,    \* the path of each living source, NoPath for the others
          funcs,     \* _functions of each source: names to objects
          listed,    \* the add-in's _files: paths to sources
          jobs,      \* jobs waiting for the main thread
          stack,     \* jobs running at once, the innermost first
          loop,      \* the registration under way, if there is one
          up,        \* "astray" once a job has followed a dangling iterator,
                     \* "down" if it brought Excel down
          closed,    \* the add-in has been closed
          replaced,  \* ghost: registrations whose source forgot them in a call
          calls, refusals, defers   \* counts, for the bounds
vars == <<book, origin, funcs, listed, jobs, stack, loop, up, closed, replaced,
          calls, refusals, defers>>

RegisterJob(s, specs, append) ==
  [kind |-> "register", src |-> s, specs |-> specs, append |-> append]
RemoveJob(s, n) ==
  [kind |-> "remove", src |-> s, name |-> n, obj |-> funcs[s][n], stale |-> FALSE]
SourceJob(kind, s) == [kind |-> kind, src |-> s]   \* reload, delete or release

\* Fault: a registration job has only a raw pointer to its source.
HoldsNoSource(job) == job.kind \notin {"drop", "remove", "register"}
Holds(job) == job.kind \notin {"drop", "remove"}
Members(q) == {q[i] : i \in DOMAIN q}
ValuesOf(f) == {f[x] : x \in DOMAIN f}

\* The pending removals of a source hold an iterator into its map, and the map
\* is rebuilt or destroyed under them.
Stales(q, sources, names) ==
  [i \in DOMAIN q |->
     IF q[i].kind = "remove" /\ q[i].src \in sources /\ q[i].name \in names
     THEN [q[i] EXCEPT !.stale = TRUE] ELSE q[i]]

\* What a step makes of the state: it starts from this.
Now(q, st) == [book |-> book, origin |-> origin, funcs |-> funcs, listed |-> listed,
               jobs |-> q, stack |-> st, loop |-> loop]

Work(w) == Members(w.jobs) \cup Members(w.stack)
Holders(w) == ValuesOf(w.listed) \cup {j.src : j \in {k \in Work(w) : Holds(k)}}
                                \cup {l.src : l \in w.loop}
Dying(w) == {s \in Sources : w.origin[s] # NoPath /\ s \notin Holders(w)}

\* ~FuncSource moves the functions into a job which drops them.
DropOf(w, s) == [kind |-> "drop", path |-> w.origin[s], funcs |-> w.funcs[s]]
Drops(w) == SetToSeq({DropOf(w, s) : s \in {t \in Dying(w) : w.funcs[t] # Empty}})

\* The functions which a source, a drop job or the registration under way
\* refers to.
Refs(w) == (UNION {ValuesOf(w.funcs[s]) : s \in Sources})
           \cup (UNION {ValuesOf(j.funcs) : j \in {k \in Work(w) : k.kind = "drop"}})
           \cup (UNION {ValuesOf(l.new) : l \in w.loop})

\* The end of every step: sources without a reference are destroyed and submit
\* their drop jobs; functions without one are destroyed.  lost is the ids of
\* the functions which their source forgets.
Settle(w, refuses, lost) ==
  LET dying == Dying(w)
  IN /\ origin' = [s \in Sources |-> IF s \in dying THEN NoPath ELSE w.origin[s]]
     /\ funcs' = [s \in Sources |-> IF s \in dying THEN Empty ELSE w.funcs[s]]
     /\ listed' = w.listed /\ loop' = w.loop
     /\ book' = Sweep(w.book, Refs(w), refuses)
     /\ replaced' = (replaced \cup lost) \cap DOMAIN book'.regs
     /\ \E now \in BOOLEAN :
          /\ Drops(w) = <<>> => ~now
          /\ stack' = Stales(IF now THEN Drops(w) \o w.stack ELSE w.stack, dying, Names)
          /\ jobs' = Stales(IF now THEN w.jobs ELSE w.jobs \o Drops(w), dying, Names)

\* A job goes on the queue or runs at once.
Submit(now, job, q) == IF now THEN q ELSE Append(q, job)
Stacked(now, job, st) == IF now THEN <<job>> \o st ELSE st

\* Excel refuses something for each of the names.
Refuse(names) ==
  /\ refusals + Cardinality(names) <= MaxRefusals
  /\ refusals' = refusals + Cardinality(names)

\* The functions of os which Excel is asked to give up when they go.
Asked(os) == {o \in os : book.fn[o].id # NoId}
OutOfRegistry(os) == {o \in os : \A n \in DOMAIN book.registry : book.registry[n] # o}

Init ==
  /\ book = EmptyBook
  /\ origin = [s \in Sources |-> NoPath]
  /\ funcs = [s \in Sources |-> Empty]
  /\ listed = Empty
  /\ jobs = <<>> /\ stack = <<>> /\ loop = {}
  /\ up = "sound" /\ closed = FALSE
  /\ replaced = {}
  /\ calls = 0 /\ refusals = 0 /\ defers = 0

-----------------------------------------------------------------------------
(* The registration job (FuncSource::registerFuncs): specs are still to be  *)
(* registered, new is newFuncs; existingFuncs is the source's own map.      *)

DoRegister(job, q, st) ==
  /\ job.kind = "register"
  /\ loop' = {[src |-> job.src, specs |-> job.specs, append |-> job.append, new |-> Empty]}
  /\ jobs' = q /\ stack' = st
  /\ UNCHANGED <<book, origin, funcs, listed, up, replaced, refusals>>

Spec1(l) == Head(l.specs)
Known(l) == Spec1(l).name \in DOMAIN funcs[l.src]
Mine(l) == funcs[l.src][Spec1(l).name]
Rest(l) == [l EXCEPT !.specs = Tail(@)]

\* newFuncs.emplace keeps the first of two.
Kept(l, n, o) == [Rest(l) EXCEPT !.new = IF n \in DOMAIN @ THEN @ ELSE Put(@, n, o)]

\* The source has a function of the shape.
Patch(l, refuses) ==
  LET f == Spec1(l)
      same == Says(book, Mine(l), f.info)
  IN /\ Known(l) /\ CanPatch(book, Mine(l), f.info)
     /\ same => refuses = {}
     /\ Refuse(refuses)
     /\ Settle([Now(jobs, stack) EXCEPT
                  !.book = IF same THEN @ ELSE Reregister(@, Mine(l), f.info, refuses),
                  !.loop = {Kept(l, f.name, Mine(l))}], refuses, {})

\* An exception ends the loop; the functions it made are forgotten.
PatchFails(l, refuses) ==
  LET f == Spec1(l)
  IN /\ Known(l) /\ CanPatch(book, Mine(l), f.info) /\ ~Says(book, Mine(l), f.info)
     /\ Refuse({f.name})
     /\ Settle([Now(jobs, stack) EXCEPT
                  !.book = FailReregister(@, Mine(l), f.info, refuses),
                  !.loop = {}],
               refuses, IdsOf(book, ValuesOf(l.new) \ ValuesOf(funcs[l.src])))

\* The source has one of another shape, which does not go ...
Stays(l, refuses) ==
  /\ Known(l) /\ ~CanPatch(book, Mine(l), Spec1(l).info)
  /\ ~CanDeregister(book, Mine(l), refuses)
  /\ Refuse(refuses)
  /\ Settle([Now(jobs, stack) EXCEPT
               !.book = Deregister(@, {Mine(l)}, refuses),
               !.loop = {Kept(l, Spec1(l).name, Mine(l))}], refuses, {})

\* ... or which goes, or has none of the name: a function is made, if it can be.
Make(l, unable) ==
  LET f == Spec1(l)
      s == l.src
      b == IF Known(l) THEN Deregister(book, {Mine(l)}, {}) ELSE book
      After(c, m) ==
        Settle([Now(Stales(jobs, {s}, {f.name}), Stales(stack, {s}, {f.name})) EXCEPT
                  !.book = c, !.funcs[s] = Minus(@, {f.name}), !.loop = {m}], {}, {})
  IN /\ Known(l) => /\ ~CanPatch(book, Mine(l), f.info)
                    /\ CanDeregister(book, Mine(l), {})
     /\ Refuse(unable)
     /\ \/ CanAdd(b, f, unable) /\ After(Add(b, f), Kept(l, f.name, NewObj(b)))
        \/ /\ f.name \in DOMAIN b.registry /\ unable = {}
           /\ After(b, Rest(l))
        \/ /\ f.name \notin DOMAIN b.registry /\ f.name \in unable
           /\ \E i \in IF StrayIds THEN DOMAIN b.regs \cup {NoId} ELSE {NoId} :
                After(Stray(b, i), Rest(l))

RegisterOne(l) ==
  /\ Room(book)
  /\ \E names \in SUBSET {Spec1(l).name} :
       \/ Patch(l, names) \/ PatchFails(l, names) \/ Stays(l, names) \/ Make(l, names)

\* Without append the source keeps only what this call named.
MapAfter(l) ==
  LET old == funcs[l.src]
  IN [n \in DOMAIN l.new \cup (IF l.append THEN DOMAIN old ELSE {}) |->
        IF n \in DOMAIN l.new THEN l.new[n] ELSE old[n]]

RegisterEnd(l) ==
  LET after == MapAfter(l)
      forgotten == ValuesOf(funcs[l.src]) \ ValuesOf(after)
  IN \E refuses \in SUBSET NamesOf(book, Asked(OutOfRegistry(forgotten))) :
       /\ Refuse(refuses)
       /\ Settle([Now(Stales(jobs, {l.src}, Names), Stales(stack, {l.src}, Names)) EXCEPT
                     !.funcs[l.src] = after, !.loop = {}],
                 refuses, IdsOf(book, forgotten))

-----------------------------------------------------------------------------
(* The other jobs                                                           *)

\* Fault: the drop job only releases its references.
DropsOnly(job, q, st) ==
  /\ job.kind = "drop"
  /\ Settle(Now(q, st), {}, {})
  /\ UNCHANGED <<up, refusals>>

\* ~FuncSource's job: each function is deregistered, and the map goes.
DoDrop(job, q, st) ==
  /\ job.kind = "drop"
  /\ \E refuses \in SUBSET NamesOf(book, Asked(ValuesOf(job.funcs))) :
    /\ Refuse(refuses)
    /\ Settle([Now(q, st) EXCEPT !.book = Deregister(@, ValuesOf(job.funcs), refuses)], refuses, {})
  /\ UNCHANGED up

\* FuncSource::deregister's job: the function goes from the map unless Excel
\* refuses.  With an iterator that no longer points into the map it may also
\* do what it would have done, or bring Excel down.
DoRemove(job, q, st) ==
  /\ job.kind = "remove"
  /\ \/ /\ ~job.stale
        /\ \E refuses \in SUBSET {job.name} :
             LET gone == IF CanDeregister(book, job.obj, refuses) THEN {job.name} ELSE {}
             IN /\ Refuse(refuses)
                /\ Settle([Now(Stales(q, {job.src}, gone), Stales(st, {job.src}, gone)) EXCEPT
                              !.book = Deregister(@, {job.obj}, refuses),
                              !.funcs[job.src] = Minus(@, gone)], refuses, {})
        /\ UNCHANGED up
     \/ /\ job.stale /\ Live(book, job.obj)
        /\ Settle([Now(q, st) EXCEPT !.book = Deregister(@, {job.obj}, {})], {}, {})
        /\ up' = "astray"
        /\ UNCHANGED refusals
     \/ /\ job.stale
        /\ up' = "down"
        /\ jobs' = q /\ stack' = st
        /\ UNCHANGED <<book, origin, funcs, listed, loop, replaced, refusals>>

\* RegisteredModule::reload: the module is scanned again, unless another source
\* has the path by now; the scan registers what it finds, if it finds anything.
DoReload(job, q, st) ==
  /\ job.kind = "reload"
  /\ \/ /\ origin[job.src] \in DOMAIN listed /\ listed[origin[job.src]] = job.src
        /\ \E specs \in SpecLists, now \in BOOLEAN :
             LET r == RegisterJob(job.src, specs, FALSE)
             IN Settle(Now(Submit(now, r, q), Stacked(now, r, st)), {}, {})
     \/ Settle(Now(q, st), {}, {})
  /\ UNCHANGED <<up, refusals>>

\* AddinContext::deleteSource takes whatever is listed under the source's path.
Unlisted(s) == Minus(listed, {origin[s]})
DoDelete(job, q, st) ==
  /\ job.kind = "delete"
  /\ Settle([Now(q, st) EXCEPT !.listed = Unlisted(job.src)], {}, {})
  /\ UNCHANGED <<up, refusals>>

\* The handler which held the source returns.
DoRelease(job, q, st) ==
  /\ job.kind = "release"
  /\ Settle(Now(q, st), {}, {})
  /\ UNCHANGED <<up, refusals>>

Do(job, q, st) == \/ DoRegister(job, q, st) \/ DoDrop(job, q, st) \/ DoRemove(job, q, st)
                  \/ DoReload(job, q, st) \/ DoDelete(job, q, st) \/ DoRelease(job, q, st)

-----------------------------------------------------------------------------
Calm == up # "down" /\ stack = <<>> /\ loop = {}
Call == Calm /\ ~closed /\ calls < MaxCalls /\ calls' = calls + 1
NoCall == UNCHANGED <<closed, calls, defers>>
Quiet == UNCHANGED <<up, refusals, defers>>
NewSource == CHOOSE s \in Sources : origin[s] = NoPath

HasSource == {s \in Sources : origin[s] = NoPath} # {}   \* bound

\* registerFunctions of the Python module: the source of the path, or a new
\* one.  A source without a module is never found; the list keeps the first.
Register(p, specs, append) ==
  LET found == p # Anon /\ p \in DOMAIN listed
      s == IF found THEN listed[p] ELSE NewSource
      r == RegisterJob(s, specs, append)
  IN /\ Call /\ Quiet /\ UNCHANGED closed
     /\ found \/ HasSource
     /\ \E now \in BOOLEAN :
          Settle([Now(Submit(now, r, jobs), Stacked(now, r, stack)) EXCEPT
                    !.origin[s] = p,
                    !.listed = IF p \in DOMAIN @ THEN @ ELSE Put(@, p, s)], {}, {})

\* deregisterFunctions, for one name
RemoveFunc(p, n) ==
  /\ Call /\ Quiet /\ UNCHANGED closed
  /\ p \in DOMAIN listed /\ n \in DOMAIN funcs[listed[p]]
  /\ \E now \in BOOLEAN :
       LET r == RemoveJob(listed[p], n)
       IN Settle(Now(Submit(now, r, jobs), Stacked(now, r, stack)), {}, {})

\* handleDirChange: the module's file was modified or deleted.
FileEvent(p, kind) ==
  /\ Call /\ Quiet /\ UNCHANGED closed
  /\ p \in DOMAIN listed \ {Anon}
  /\ Settle(Now(Append(jobs, SourceJob(kind, listed[p])), stack), {}, {})

\* handleClose: the workbook linked to the source was closed.
WorkbookClose(p) ==
  /\ Call /\ Quiet /\ UNCHANGED closed
  /\ p \in DOMAIN listed \ {Anon}
  /\ Settle([Now(jobs, stack) EXCEPT !.listed = Unlisted(listed[p])], {}, {})

\* handleRename: some workbook other than the linked one was given a new name,
\* to which q belongs.  The source is deleted, its module copied to q, listed
\* and scanned; only then does the old source go.  Or the copy fails.
WorkbookRename(p, q) ==
  LET s == listed[p]
      left == Unlisted(s)
      found == q \in DOMAIN left
      t == IF found THEN left[q] ELSE NewSource
  IN /\ Call /\ Quiet /\ UNCHANGED closed
     /\ p \in DOMAIN listed \ {Anon} /\ q \notin {p, Anon}
     /\ \/ /\ found \/ HasSource
           /\ \E specs \in SpecLists, now \in BOOLEAN :
                LET r == RegisterJob(t, specs, FALSE)
                IN Settle([Now(Submit(now, r, jobs),
                               Stacked(now, r, <<SourceJob("release", s)>> \o stack)) EXCEPT
                             !.origin[t] = q, !.listed = Put(left, q, t)], {}, {})
        \/ Settle([Now(jobs, stack) EXCEPT !.listed = left], {}, {})

\* The add-in is closed, with every source it lists.
CloseAddin ==
  /\ Calm /\ ~closed /\ closed' = TRUE
  /\ Settle([Now(jobs, stack) EXCEPT !.listed = Empty], {}, {})
  /\ Quiet /\ UNCHANGED calls

\* The main thread's queue
RunJob ==
  /\ NoCall
  /\ Calm /\ jobs # <<>>
  /\ Do(Head(jobs), Tail(jobs), stack)

RunNow ==
  /\ NoCall
  /\ up # "down" /\ loop = {} /\ stack # <<>>
  /\ Do(Head(stack), jobs, Tail(stack))

RunLoop ==
  /\ NoCall /\ UNCHANGED up
  /\ up # "down"
  /\ \E l \in loop : IF l.specs = <<>> THEN RegisterEnd(l) ELSE RegisterOne(l)

\* The COM API is busy: a job that needs it is tried again later, when what
\* was submitted meanwhile has had its turn.
Defer ==
  /\ Calm /\ Len(jobs) > 1 /\ defers < MaxDefers
  /\ Head(jobs).kind \in {"register", "drop", "remove"}
  /\ jobs' = Append(Tail(jobs), Head(jobs))
  /\ defers' = defers + 1
  /\ UNCHANGED <<book, origin, funcs, listed, stack, loop, up, closed, replaced, calls, refusals>>

Next ==
  \/ \E p \in Paths, specs \in SpecLists, a \in Appends : Register(p, specs, a)
  \/ \E p \in Paths, n \in Removals : RemoveFunc(p, n)
  \/ \E p \in Paths, k \in FileEvents : FileEvent(p, k)
  \/ \E p \in WorkbookEvents : WorkbookClose(p)
  \/ \E p \in WorkbookEvents, q \in Paths : WorkbookRename(p, q)
  \/ CloseAddin
  \/ RunJob
  \/ RunNow
  \/ RunLoop
  \/ Defer

Spec == Init /\ [][Next]_vars

=============================================================================
