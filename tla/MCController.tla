---------------------------- MODULE MCController ----------------------------
(* Instances of ActionSetController for TLC. *)
EXTENDS ActionSetController

A(ps, d) == [phases |-> ps, defer |-> d]

\* Two actions with a phase name in common, one of them with a deferPhase; an
\* action with a repeated phase name; one without phases; no action at all.
AllShapes ==
    {<<A(<<"p", "q">>, "d"), A(<<"p">>, "")>>,
     <<A(<<"p", "p">>, "d")>>,
     <<A(<<>>, "d")>>,
     <<>>}

\* Two actions, one of them with a deferPhase.
TwoActions == {<<A(<<"p">>, "d"), A(<<"q">>, "")>>}

=============================================================================
