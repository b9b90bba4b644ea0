------------------------ MODULE MCInstrumentProfiles ------------------------
(***************************************************************************)
(* A small instance of the collectors and of a connection.                 *)
(***************************************************************************)
EXTENDS InstrumentProfileConnection

(* The listeners of a collector and a connection share no state, and every *)
(* property is about one of them: it is enough to see one of them at work  *)
(* in each behaviour.                                                      *)
Apart == connection = "none" \/ (lastId = 0 /\ updates = 0)

MCSpec ==
  /\ AllInit /\ [][AllNext /\ Apart']_allVars
  /\ Fairness /\ ConnectionFairness
=============================================================================
