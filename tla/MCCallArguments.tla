--------------------------- MODULE MCCallArguments ---------------------------
(* Instances of CallArguments for TLC: lists of one kind and of two kinds   *)
(* in turn, up to more than there are registers, or than may be passed.     *)
EXTENDS CallArguments

Tagged(tag, kinds) == [i \in DOMAIN kinds |-> [kind |-> kinds[i], value |-> <<tag, i>>]]
Alternating(n, first, second) == [i \in 1..n |-> IF i % 2 = 1 THEN first ELSE second]

OuterLists ==
  {Tagged("outer", Alternating(n, "integer", "integer")) : n \in 0..17} \cup
  {Tagged("outer", Alternating(n, k[1], k[2])) : n \in 1..8, k \in Kinds \X Kinds}

NestedLists ==
  {Tagged("nested", kinds) :
     kinds \in {<<>>, <<"other", "vector2", "two_integers">>, Alternating(8, "integer", "float")}}

BoundLists == {Tagged("bound", kinds) : kinds \in {<<>>, <<"other">>, <<"integer", "float">>}}
=============================================================================
