------------------------------ MODULE RtdFeed ------------------------------
(***************************************************************************)
(* What the RTD server promises its subscribers, without threads, queues,  *)
(* locks or publishers: every id subscribed to a topic when its value      *)
(* changes becomes dirty; a dirty id stays dirty until it is part of a     *)
(* posting; a posting is never altered and stays until Excel fetches it.   *)
(* RtdWorker implements this module.                                       *)
(***************************************************************************)
CONSTANTS Topics, Ids, Values, None

VARIABLES
  subs,     \* the ids subscribed to each topic
  value,    \* the value of each topic
  dirty,    \* ids whose topic has a value not yet posted
  posted    \* the ids posted for Excel to fetch

feedVars == <<subs, value, dirty, posted>>

Init ==
  /\ subs = [t \in Topics |-> {}]
  /\ value = [t \in Topics |-> None]
  /\ dirty = {}
  /\ posted = {}

\* The topics in S take new values: nobody subscribed to one is forgotten.
Update(S, w) ==
  /\ value' = [t \in Topics |-> IF t \in S THEN w[t] ELSE value[t]]
  /\ dirty' = dirty \union UNION {subs[t] : t \in S}
  /\ UNCHANGED <<subs, posted>>

Join(i, t) ==
  /\ subs' = [subs EXCEPT ![t] = @ \union {i}]
  /\ UNCHANGED <<value, dirty, posted>>

\* A subscriber leaves; a topic nobody subscribes to may lose its value.
Leave(i, t) ==
  /\ subs' = [subs EXCEPT ![t] = @ \ {i}]
  /\ value' \in {value, [value EXCEPT ![t] = None]}
  /\ value' # value => subs[t] \ {i} = {}
  /\ UNCHANGED <<dirty, posted>>

\* A topic is dropped, which must leave no subscriber behind.
Erase(t) ==
  /\ subs[t] = {}
  /\ value' = [value EXCEPT ![t] = None]
  /\ UNCHANGED <<subs, dirty, posted>>

\* All that is dirty is posted, once the last posting has been fetched.
Post ==
  /\ posted = {}
  /\ posted' = dirty
  /\ dirty' = {}
  /\ UNCHANGED <<subs, value>>

Fetch ==
  /\ posted' = {}
  /\ UNCHANGED <<subs, value, dirty>>

\* The server stops: all topics go, and what nobody subscribes to is forgotten.
Stop ==
  /\ subs' = [t \in Topics |-> {}]
  /\ value' = [t \in Topics |-> None]
  /\ dirty' \in {dirty, {}}
  /\ UNCHANGED posted

Next ==
  \/ \E S \in SUBSET Topics, w \in [Topics -> Values \union {None}] : Update(S, w)
  \/ \E i \in Ids, t \in Topics : Join(i, t) \/ Leave(i, t)
  \/ \E t \in Topics : Erase(t)
  \/ Post
  \/ Fetch
  \/ Stop

Spec == Init /\ [][Next]_feedVars
=============================================================================
