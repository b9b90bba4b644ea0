------------------------- MODULE HandlerProperties -------------------------
(***************************************************************************)
(* What the listeners of a Handler and its callers may rely on.            *)
(***************************************************************************)
EXTENDS Handler

\* After remove() has returned, a listener is not called any more, and one
\* that a callback removes is not called for the batch being delivered.
NoCallAfterRemove ==
  [][\A i \in 1..lastId : i \notin main \union low => got'[i] = got[i]]_vars

\* How far a batch may run ahead of those before it.
Lag == IF Synchronous THEN 0 ELSE Size

\* No listener gets a batch twice, and of the batches of one caller it gets
\* at most Size later ones before an earlier one: the ring bounds how far
\* they overtake each other, and a synchronous handler keeps their order.
BoundedOvertaking ==
  \A i \in Ids, c \in Callers :
    \A p, q \in 1..Len(got[i]) : p < q =>
      /\ got[i][p] # got[i][q]
      /\ \A x, y \in 1..Len(own[c]) :
           own[c][x] = got[i][p] /\ own[c][y] = got[i][q] => x - y <= Lag

\* Every call of handle() returns, and every batch is delivered, whatever
\* other callers and the listeners' own calls are doing.
HandleReturns ==
  /\ \A c \in Callers : call[c] # "idle" ~> call[c] = "idle"
  /\ \A b \in Batch : status[b] = "spawned" ~> status[b] = "done"

-----------------------------------------------------------------------------
\* The handler implements Notifier: although listeners are called one after
\* another while others come and go, a batch reaches exactly the listeners
\* that are registered when its thread takes the mutex. Those it has still to
\* call count as called.
ToCall ==
  IF owner = None THEN {}
  ELSE todo \union IF status[owner] = "main" THEN low ELSE {}

Promised == INSTANCE Notifier WITH
  listeners <- main \union low,
  ever      <- 1..lastId,
  pending   <- {b \in Batch : status[b] = "spawned"},
  call      <- [c \in Callers |-> IF call[c] = "idle" THEN 0 ELSE Own(c)],
  log       <- [i \in Ids |-> IF i \in ToCall THEN Append(got[i], owner) ELSE got[i]]

ImplementsNotifier == Promised!Spec
=============================================================================
