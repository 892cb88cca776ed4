-------------------------- MODULE MCToolPermission ---------------------------
(* ToolPermission with a small catalogue and a choice of permission strings. *)
EXTENDS ToolPermission

\* The scenario "review" also names an agent that was deleted.
MCSceneAgents == [review |-> {"reviewer", "gone"}, write |-> {"writer", "reviewer"}]

MCSceneTools ==
  [review |-> [reviewer |-> {"search", "calc"}, gone |-> {"calc"}],
   write |-> [reviewer |-> {"search"}, writer |-> {"calc"}]]

\* Exact, open, broad, unrelated and malformed permissions.
MCGrantable ==
  {<<"*">>, <<"*", "*">>, <<"*", "*", "*">>, <<"use", "*", "*">>,
   <<"use", "tool", "*">>, <<"*", "tool", "search">>, <<"use", "tool", "calc">>,
   <<"use", "agent", "*">>, <<"*", "agent", "reviewer">>,
   <<"use", "scene", "*">>, <<"use", "scene", "review">>, <<"manage", "tool", "*">>}
=============================================================================
