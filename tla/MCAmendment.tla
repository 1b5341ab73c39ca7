----------------------------- MODULE MCAmendment -----------------------------
(* Two movements: an interview that may propose, and work that reads the repository. *)
EXTENDS Amendment

MCNeeds == [m \in {"interview", "work"} |-> {}]

Content == [field |-> <<"content", "work">>, to |-> 1]
Grants == [field |-> <<"grants", "work">>, to |-> 0]
Budget == [field |-> <<"budget">>, to |-> 0]
Paths == [field |-> <<"paths">>, to |-> 0]
Policy == [field |-> <<"auto">>, to |-> 0]
Status == [field |-> <<"status">>, to |-> 1]
Invalid == [field |-> <<"invalid">>, to |-> 1]

MCCliPatches == {Content, Grants, Budget, Paths, Policy, Status, Invalid}
MCRaisedPatches == {Content}
=============================================================================
