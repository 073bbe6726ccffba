------------------------------ MODULE MCWgconf -------------------------------
(* Model checking of the server file and of a client configuration in one run. *)
(* The two share nothing, so each is explored with the other at rest.          *)
EXTENDS ConfText, ClientText

MCDraws == [jc : {2, 7}, jmin : {8, 48}, delta : {16, 96}]

NoClient == stored = Nothing /\ original = Nothing /\ handed = Nothing /\ junk = Nothing

NoEdits ==
  /\ lastKey = 0
  /\ text = Written(<<>>, "script")
  /\ edits = [e \in Editors |-> NoEdit]
  /\ spliced = FALSE

MCInit == (Init /\ NoClient) \/ (NoEdits /\ ClientInit)

\* No property says anything of the file after the first splice: a run ends there.
Ended == spliced /\ UNCHANGED <<vars, clientVars>>

MCNext ==
  \/ ~spliced /\ Next /\ NoClient /\ UNCHANGED clientVars
  \/ Ended
  \/ ~NoClient /\ ClientNext /\ NoEdits /\ UNCHANGED vars

MCSpec == MCInit /\ [][MCNext]_<<vars, clientVars>>

Symmetry == Permutations(Names) \cup Permutations(Editors)
=============================================================================
