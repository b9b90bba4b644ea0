------------------------------ MODULE Notifier ------------------------------
(***************************************************************************)
(* What Handler promises: each batch is given once, in a single step, to   *)
(* the listeners of that moment.  A synchronous call returns after its     *)
(* batch was given; an asynchronous one leaves at most Size batches of     *)
(* calls that have returned behind.                                        *)
(***************************************************************************)
EXTENDS Integers, Sequences, FiniteSets

CONSTANTS Callers, Size, MaxBatches, MaxId

Ids   == 1..MaxId
Batch == 1..MaxBatches

VARIABLES
  listeners,   \* registered listeners
  ever,        \* ids ever given to one
  pending,     \* batches not yet given
  call,        \* the batch each caller is handling, or 0
  log          \* what each listener was given

vars == <<listeners, ever, pending, call, log>>

Init ==
  /\ listeners = {}
  /\ ever = {}
  /\ pending = {}
  /\ call = [c \in Callers |-> 0]
  /\ log = [i \in Ids |-> <<>>]

Add(i) ==
  /\ i \notin ever
  /\ ever' = ever \union {i}
  /\ listeners' = listeners \union {i}
  /\ UNCHANGED <<pending, call, log>>

Remove(i) ==
  /\ listeners' = listeners \ {i}
  /\ UNCHANGED <<ever, pending, call, log>>

Handle(c, b) ==
  /\ call[c] = 0
  /\ b \notin pending
  /\ pending' = pending \union {b}
  /\ call' = [call EXCEPT ![c] = b]
  /\ UNCHANGED <<listeners, ever, log>>

Deliver(b) ==
  /\ b \in pending
  /\ pending' = pending \ {b}
  /\ log' = [i \in Ids |-> IF i \in listeners THEN Append(log[i], b) ELSE log[i]]
  /\ UNCHANGED <<listeners, ever, call>>

LeftBehind == pending \ {call[c] : c \in Callers}

Return(c) ==
  /\ call[c] # 0
  /\ call' = [call EXCEPT ![c] = 0]
  /\ Cardinality(LeftBehind') <= IF Size <= 1 THEN 0 ELSE Size
  /\ UNCHANGED <<listeners, ever, pending, log>>

Next ==
  \/ \E i \in Ids : Add(i) \/ Remove(i)
  \/ \E b \in Batch : Deliver(b) \/ \E c \in Callers : Handle(c, b)
  \/ \E c \in Callers : Return(c)

Spec == Init /\ [][Next]_vars
=============================================================================
