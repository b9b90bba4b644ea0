----------------------------- MODULE MCHandler -----------------------------
(***************************************************************************)
(* Small instances of Handler.                                             *)
(***************************************************************************)
EXTENDS HandlerProperties, TLC

CallerSymmetry == Permutations(Callers)

(* All callers but one handle at most one batch: enough for one to wait    *)
(* while another goes round the ring.                                      *)
OneIsBusy == \E c \in Callers : \A d \in Callers \ {c} : Len(own[d]') <= 1

RingNext == (\E c \in Callers : Handle(c) /\ OneIsBusy) \/ OtherStep

RingSpec == Init /\ [][RingNext]_vars /\ Fairness
=============================================================================
