--------------------------- MODULE MCProxyRequest ----------------------------
(***************************************************************************)
(* A small instance of ProxyRequest: three models, the first free of       *)
(* charge and without reasoning, the third a 1M variant of the second.     *)
(***************************************************************************)
EXTENDS ProxyRequest

MCModels == {1, 2, 3}
MCInfo == <<[free |-> TRUE,  reasons |-> FALSE, levels |-> {}],
            [free |-> FALSE, reasons |-> TRUE,  levels |-> {0, 1, 3}],
            [free |-> FALSE, reasons |-> TRUE,  levels |-> {0, 2}]>>
MCBase  == <<1, 2, 2>>
MCLists == {{1, 2, 3}, {1}, {2}}

Plain == [level |-> [m \in MCModels |-> "unset"], long |-> {}, hidden |-> {}]
MCListPrefs ==
  {Plain,
   [level |-> [m \in MCModels |-> IF m = 2 THEN "max" ELSE "unset"], long |-> {3},
    hidden |-> {1}]}

Unset == [f \in Family |-> None]
MCMappings ==
  {[family |-> Unset, all |-> None],
   [family |-> [Unset EXCEPT !["sonnet"] = 2], all |-> 1]}

\* Names that are not the menu's: none, one of Claude's own, an id, an id in
\* brackets, and one that nobody knows.
Other == [empty |-> FALSE, family |-> "none", alias |-> NoAlias, long |-> FALSE,
          id |-> None, inner |-> None, numbered |-> FALSE]
OtherNames ==
  {[Other EXCEPT !.empty = TRUE], [Other EXCEPT !.family = "opus", !.numbered = TRUE],
   [Other EXCEPT !.id = 2], [Other EXCEPT !.inner = 3], Other}

Silent == [off |-> FALSE, effort |-> {}, budget |-> {}]
Asking(c, s, t) == [class |-> c, stream |-> s, thinking |-> t]
MCBodies ==
  {Asking("plain", TRUE,  [Silent EXCEPT !.effort = {4}, !.budget = {1024}]),
   Asking("plain", FALSE, [Silent EXCEPT !.budget = {2049}])}
MCStrays ==
  [name : {[Other EXCEPT !.id = 2]},
   body : {Asking(c, FALSE, Silent) : c \in {"local", "probe", "short", "broken"}}
            \cup {Asking("plain", FALSE, [Silent EXCEPT !.off = TRUE])}]
  \cup [name : OtherNames, body : {Asking("plain", FALSE, [Silent EXCEPT !.effort = {3}])}]
=============================================================================
