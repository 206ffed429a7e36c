---------------------------- MODULE MCHostAgent ----------------------------
EXTENDS HostAgent
\* A sound configuration for each kind of roster, and one that differs from it in each part.
Sound(r) == [default |-> FALSE, routed |-> FALSE, bound |-> {"operator"}, dmOpen |-> FALSE,
             shared |-> FALSE, blocked |-> FALSE, roster |-> [a \in Others |-> r]]
McDrift ==
  {Sound(r) : r \in Roster}
    \cup {[Sound("contained") EXCEPT !.bound = b] : b \in SUBSET {"operator", "stranger"}}
    \cup {[Sound("contained") EXCEPT !.default = TRUE], [Sound("contained") EXCEPT !.routed = TRUE],
          [Sound("contained") EXCEPT !.dmOpen = TRUE], [Sound("contained") EXCEPT !.shared = TRUE],
          [Sound("open") EXCEPT !.blocked = TRUE]}
McOperators == {"laptop", "desktop"}
\* What the file says and what the configuration is touch in a call that is allowed: once there is a
\* line, the configuration is a sound one, and edits away from it are not followed.
McSettled == file # <<>> => config = Sound("contained")
McSkews == {[laptop |-> -1, desktop |-> 1]}
=============================================================================
