------------------------ MODULE DXEndpointProperties ------------------------
(***************************************************************************)
(* What users of endpoints and of their C API may rely on.                 *)
(***************************************************************************)
EXTENDS DXEndpoint

\* However many threads call getInstance() at once, a role has one instance,
\* and it is the one that everybody gets.
OneInstancePerRole ==
  \A e \in DOMAIN endpoints : endpoints[e].singleton => instances[endpoints[e].role] = e

\* Every listener that a live handle has at its endpoint is the one its
\* table names for that callback: none is there twice, and each can be removed.
StillRemovable ==
  \A e \in 1..MaxEndpoints : \A l \in listeners[e] :
    handles[l.handle].live =>
      handles[l.handle].endpoint = e /\ handles[l.handle].table[l.callback] = l.id

\* The callbacks of a live handle that are called are those its user has
\* installed, also while others add and remove theirs at the same endpoint.
OnlyInstalledCalled ==
  [][\A l \in Listener : called' = l /\ called # l /\ handles[l.handle].live =>
       l.callback \in handles[l.handle].installed]_vars
=============================================================================
