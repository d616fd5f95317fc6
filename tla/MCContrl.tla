------------------------------ MODULE MCContrl ------------------------------
(* Two messages, side by side or in two groups, all named or not.          *)
EXTENDS Contrl

M(named, group) == [named |-> named, group |-> group]

MCShapes ==
  {[messages |-> <<M(TRUE, 0), M(named, 0)>>, groups |-> <<>>] : named \in BOOLEAN}
    \cup {[messages |-> <<M(TRUE, 1), M(TRUE, g)>>, groups |-> <<TRUE, named>>] :
            g \in {1, 2}, named \in BOOLEAN}
    \cup {[messages |-> <<M(TRUE, 0)>>, groups |-> <<TRUE>>]}
=============================================================================
