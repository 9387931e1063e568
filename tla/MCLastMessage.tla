--------------------------- MODULE MCLastMessage ---------------------------
(* Instance of LastMessage for TLC: a service with a value, a list of two  *)
(* in the order 1, 0 and a list of any length; its second version has      *)
(* another value in an element, its third no element 0.                    *)
EXTENDS LastMessage

CONSTANTS m1, m2

Variable(name, type, subs) == [name |-> name, type |-> type, subs |-> subs]
Value(name) == Variable(name, "leaf", <<>>)
AnyList == Variable("any", "list", <<Value("*")>>)
Element(name) == Variable("1", "structure", <<Value(name)>>)
Root(subs) == Variable("metrics", "structure", subs)

MCService ==
    <<Root(<<Value("level"), Variable("fixed", "list", <<Element("a"), Value("0")>>), AnyList>>),
      Root(<<Value("level"), Variable("fixed", "list", <<Element("b"), Value("0")>>)>>),
      Root(<<Value("level"), Variable("fixed", "list", <<Element("a")>>)>>)>>

\* messages of the first version: whole, with a short list, without a level
Element0 == Leaf("zero")
Element1 == Structure([a |-> Leaf("one")])
Metrics(sub) == [version |-> 1, value |-> Structure([metrics |-> Structure(sub)])]
MCMessage ==
    {Metrics([level |-> Leaf("level"), fixed |-> List(<<Element0, Element1>>), any |-> List(<<>>)]),
     Metrics([level |-> Leaf("level"), fixed |-> List(<<Element0>>), any |-> List(<<Leaf("x")>>)]),
     Metrics([fixed |-> List(<<Element0, Element1>>)])}

\* in both versions, in one of them, in a list
MCColumn == {<<"metrics", "level">>, <<"metrics", "fixed", "1", "a">>}
=============================================================================
