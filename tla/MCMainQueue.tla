---------------------------- MODULE MCMainQueue ----------------------------
EXTENDS MainQueueProps
CONSTANTS main, thread, start, func, first, second, now, later

\* On the main thread, the core's start-up and a COM job to be run at once, which is
\* not retried; on another, two COM jobs in turn, the first of which shows a dialog.
Programs == [h \in Threads |-> IF h = main THEN <<start, now>> ELSE <<first, second>>]
\* Without that job; with MixedApis, the second job needs no API.
Mixed == [h \in Threads |-> IF h = main THEN <<start>> ELSE <<first, second>>]
\* With a delayed job besides.
Six == [h \in Threads |-> IF h = main THEN <<start, now>> ELSE <<first, second, later>>]

Apis == [j \in Jobs |->
           CASE j = start -> "none" [] j = func -> "xll" [] OTHER -> "com"]
MixedApis == [j \in Jobs |-> IF j = second THEN "none" ELSE Apis[j]]
NoWaits == [j \in Jobs |-> 0]
WaitsOne == [j \in Jobs |-> IF j = later THEN 1 ELSE 0]
Retries == [j \in Jobs |-> 1]
Functions == [j \in {start} |-> func]
=============================================================================
