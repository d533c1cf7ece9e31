---------------------------- MODULE AtomicPublish ----------------------------
(***************************************************************************)
(* What a caller of runPipeline may rely on, whatever the run does inside: *)
(* the store changes as a whole, or not at all, or the report says that    *)
(* nothing is known, and then every old part can still be found.           *)
(***************************************************************************)
EXTENDS Naturals

CONSTANTS Parts, Content, Nothing

VARIABLES
  store,   \* the content of each published part, as seen between runs
  saved,   \* copies kept aside, <<part, content>>
  scope,   \* the parts the run is to replace
  report   \* what the caller of the last run was told

storeVars == <<store, saved, scope, report>>

\* A run that also publishes the site keeps a way back for the index.
Scopes == {Parts, Parts \ {"site"}}
Guarded == IF scope = Parts THEN Parts ELSE Parts \ {"index"}

Init ==
  /\ store \in [Parts -> Content]
  /\ saved = {}
  /\ scope \in Scopes
  /\ report = "none"

Start ==
  /\ report # "running"
  /\ report' = "running"
  /\ scope' \in Scopes
  /\ UNCHANGED <<store, saved>>

\* The guarded parts are as they were.
Unharmed == \A p \in Guarded : store'[p] = store[p]

\* All the parts in scope come from the same run v.
Replace(v) == store' = [p \in Parts |-> IF p \in scope THEN v ELSE store[p]]

Commit(v) ==
  /\ report = "running"
  /\ Replace(v)
  /\ report' = "ok"
  /\ UNCHANGED <<saved, scope>>

Fail ==
  /\ report = "running"
  /\ store' \in [Parts -> Content]
  /\ Unharmed
  /\ report' = "failed"
  /\ UNCHANGED <<saved, scope>>

\* The run was killed, or its rollback or its cleanup failed: it committed
\* after all, or every guarded part is in place or was kept aside.
Break ==
  /\ report = "running"
  /\ saved \subseteq saved'
  /\ store' \in [Parts -> Content]
  /\ \/ \E v \in Content : Replace(v)
     \/ \A p \in Guarded :
          store[p] \in {store'[p], Nothing} \/ <<p, store[p]>> \in saved'
  /\ report' = "unknown"
  /\ UNCHANGED scope

Next == Start \/ Fail \/ Break \/ \E v \in Content : Commit(v)

Spec == Init /\ [][Next]_storeVars
=============================================================================
