---------------------------- MODULE MCFizzServer ----------------------------
EXTENDS FizzServer

MCLeaves == {11, 12, 13, 14}
MCBoundaries == {1, 2}

Page(root, content, fallback, size, pipeOn) ==
  [root |-> root, content |-> content, fallback |-> fallback, size |-> size, pipeOn |-> pipeOn]

\* A boundary in a boundary, and two side by side.
Nested(size, pipeOn) ==
  Page(<<1>>, <<<<2, 11>>, <<12>>>>, <<<<14>>, <<13>>>>, size, pipeOn)
Siblings(size, pipeOn) ==
  Page(<<1, 2>>, <<<<11, 12>>, <<13>>>>, <<<<14>>, <<>>>>, size, pipeOn)

All(size) == [b \in MCBoundaries |-> size]

MCPages ==
  {Nested(All(size), "shellReady") : size \in {"small", "outlined"}}
    \cup {Siblings(All(size), "shellReady") : size \in {"small", "outlined"}}
    \cup {Nested(<<"small", "outlined">>, "later"), Nested(All("eligible"), "allReady")}
=============================================================================
