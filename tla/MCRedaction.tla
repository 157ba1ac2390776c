----------------------------- MODULE MCRedaction -----------------------------
(* Small object graphs: a record r, errors outer and inner, an object x, a list l, a
   function and a Buffer. *)
EXTENDS RedactionWalk, TLC

CONSTANTS r, outer, inner, x, l, fn, buf

MC_Names   == STRING
MC_Indexes == <<"0", "1", "2", "3">>

Texts(ks) == [k \in ks |-> {Text}]
ErrorHead == Texts({"name", "message", "stack"})

Error(keys, field)   == Node("error", keys, field @@ ErrorHead)
Object(keys, field)  == Node("object", keys, field)
ToJson(node, via, form) == [node EXCEPT !.via = via, !.form = form]
List(answers) ==
  Node("array", SubSeq(Indexes, 1, Len(answers)),
       [k \in {Indexes[i] : i \in 1..Len(answers)} |->
          answers[CHOOSE i \in 1..Len(answers) : Indexes[i] = k]])

\* What a graph does not describe is plain.
Plain ==
  (r :> Object(<<"note", "err", "meta">>, ("err" :> {outer}) @@ ("meta" :> {inner}) @@ Texts({"note"})))
  @@ (outer :> Error(<<>>, <<>>)) @@ (inner :> Error(<<>>, <<>>))
  @@ (x :> Object(<<"secret">>, Texts({"secret"})))
  @@ (l :> List(<<{outer}>>))
  @@ (fn :> Node("function", <<>>, <<>>))
  @@ (buf :> ToJson(Node("buffer", <<>>, <<>>), "buffer", {Text}))

\* Chains: what the links of an error answer, which of its reads fail, what its
\* list holds, and a list the walk had already capped.
ChainGraphs ==
  {(outer :> Error(<<"code", "secret">>,
               ("cause" :> {cause}) @@ ("errors" :> {errs[1]}) @@ ("stack" :> stack_)
                 @@ ("secret" :> {x}) @@ Texts({"code"})))
   @@ (inner :> Error(<<"args", "note">>,
                  ("cause" :> back) @@ ("name" :> name)
                    @@ ("toString" :> {Undefined, Throws}) @@ Texts({"args", "note"})))
   @@ (l :> errs[2]) @@ Plain :
     cause \in {Undefined, outer, inner},
     back  \in {{Undefined}, {outer, x, l, Throws}},
     errs  \in {<<Undefined, Plain[l]>>, <<Throws, Plain[l]>>,
                <<l, List(<<{inner}, {outer, Throws}, {Text}>>)>>,
                <<l, [List(<<{inner}, {x}, {WidthMarker(4)}>>) EXCEPT !.size = 6]>>,
                <<l, List(<<{inner}, {Text, Throws}>>)>>,
                <<l, List(<<{inner}, {Text}, {Throws}>>)>>},
     stack_ \in {{Text}, {Throws}, {x, Undefined}},
     name  \in {{Text, Throws}, {Undefined}}}

\* Own fields: cycles, sharing, getters that throw or change their answer, what a
\* driver leaves on its errors.
OwnFieldGraphs ==
  {(outer :> [Error(<<"meta", "detail", "command">>,
                ("meta" :> {own}) @@ ("command" :> {command}) @@ ("stack" :> stack_)
                  @@ ("detail" :> {Text, Throws}))
          EXCEPT !.sqlState = own = x])
   @@ (x :> Object(<<"secret", "back", "name">>, ("back" :> back) @@ Texts({"secret", "name"})))
   @@ (l :> List(<<{x}, {x}>>))
   @@ (r :> Object(<<"meta", "err">>, ("err" :> {outer}) @@ ("meta" :> {l})))
   @@ Plain :
     own     \in {outer, inner, x, buf},
     command \in {x, inner},
     back    \in {{Text}, {Throws}, {outer}, {Undefined, Throws}, {buf}},
     stack_  \in {{Text}, {Throws}}}

\* toJSON: methods, accessors and Buffer's own, on objects, lists and errors, and
\* what they return.
ToJsonGraphs ==
  {(x :> ToJson(Object(keys, ("note" :> {fn, Text}) @@ Texts({"secret"})), via, form))
   @@ (inner :> ToJson(Error(<<"note">>, "note" :> {buf}), ofF[1], ofF[2]))
   @@ (outer :> Error(<<"meta">>, ("meta" :> {x}) @@ ("cause" :> {inner}) @@ ("errors" :> {l})))
   @@ (l :> ToJson(List(ofL[1]), ofL[2], {Text}))
   @@ (r :> Object(<<"meta", "err">>, ("err" :> {outer}) @@ ("meta" :> {x})))
   @@ Plain :
     keys  \in {<<"note">>, <<"note", "secret">>},
     via   \in {"none", "method", "accessor", "throwing", "buffer"},
     form  \in {{x}, {inner, Throws}},
     ofF   \in {<<"none", {}>>, <<"method", {x}>>, <<"method", {Throws}>>},
     ofL   \in {<<<<{inner}, {x}>>, "throwing">>, <<<<{inner}, {Text}, {x}>>, "throwing">>,
                <<<<{inner}, {Text}, {x}>>, "method">>}}

\* An error whose own enumerable toJSON throws, beside a readable note.
OwnToJsonGraph ==
  {(outer :> ToJson(Error(<<"toJSON">>, "toJSON" :> {fn}), "method", {Throws})) @@ Plain}

MC_Heaps == ChainGraphs \cup OwnFieldGraphs \cup ToJsonGraphs

MC_Policies ==
  {[sensitive |-> s, safe |-> b, names |-> {"code"}, serialized |-> {"err"}] :
     s \in {{"secret"}, {"secret", "message"}}, b \in BOOLEAN}
=============================================================================
