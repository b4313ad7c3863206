-------------------------------- MODULE Napi --------------------------------
(***************************************************************************)
(* The kernel's NAPI state word, as nic_irq.c relies on it.  External: the *)
(* kernel is not part of the repository.  A NAPI instance is the set of    *)
(* flags that are set:                                                     *)
(*   SCHED    a poll is scheduled or running (or NAPI is disabled),        *)
(*   MISSED   somebody asked for a poll while SCHED was set,               *)
(*   DISABLE  napi_disable() is waiting for SCHED to clear.                *)
(* Every operator is one atomic compare-and-exchange of that word.         *)
(***************************************************************************)

NapiFlags == {"SCHED", "MISSED", "DISABLE"}

\* The value napi_schedule_prep() returns: the caller may queue the poll.
napi_schedule_prep(n) == "SCHED" \notin n /\ "DISABLE" \notin n

\* The word napi_schedule_prep() leaves behind.  While napi_disable() waits the
\* request is refused and forgotten; while a poll runs it is remembered.
AfterSchedulePrep(n) ==
  IF "DISABLE" \in n THEN n
  ELSE IF "SCHED" \in n THEN n \cup {"MISSED"} ELSE n \cup {"SCHED"}

\* The value napi_complete_done() returns: no request arrived during the poll.
napi_complete_done(n) == "MISSED" \notin n

\* The word napi_complete_done() leaves behind: a missed request keeps SCHED and
\* the poll is queued again.
AfterCompleteDone(n) ==
  IF "MISSED" \in n THEN n \ {"MISSED"} ELSE n \ {"SCHED"}

\* napi_disable() in two steps: announce, then take SCHED once it is free.
NapiDisableBegin(n) == n \cup {"DISABLE"}
NapiDisableReady(n) == "SCHED" \notin n
NapiDisableEnd(n)   == (n \ {"DISABLE"}) \cup {"SCHED"}

\* napi_enable() releases SCHED; a stale MISSED survives it.
AfterEnable(n) == n \ {"SCHED"}
=============================================================================
