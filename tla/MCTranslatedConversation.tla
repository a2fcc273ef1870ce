----------------------- MODULE MCTranslatedConversation -----------------------
(* Every route; two functions, or for a Responses client also a custom tool  *)
(* and namespaces: with equal names, with one that a plain tool already has, *)
(* with one twice.                                                           *)
EXTENDS TranslatedConversation

Tool(name, kind)      == [space |-> None, name |-> <<name>>, kind |-> kind]
Plain(tool)           == [type |-> "tool", tool |-> tool]
Namespace(name, list) == [type |-> "namespace", name |-> name, tools |-> list]

f == Tool("f", "function")
g == Tool("g", "function")
k == Tool("k", "custom")

MCNames == {<<"f">>, <<"g">>, <<"k">>, NamespacedName(1, 1, f.name)}

MCRoutes ==
    {[api |-> r[1], via |-> r[2], stream |-> s] :
        r \in {<<"messages", "responses">>, <<"messages", "chat">>, <<"chat", "responses">>,
               <<"responses", "chat">>},
        s \in BOOLEAN}

MCToolLists ==
    [messages  |-> {<<Plain(f), Plain(g)>>},
     chat      |-> {<<Plain(f), Plain(g)>>},
     responses |-> {<<Plain(f), Namespace("ns", <<f, k>>)>>,
                    <<Namespace("ns", <<f>>), Namespace("more", <<f>>)>>,
                    <<Namespace("ns", <<f, f>>)>>,
                    <<Namespace("ns", <<f>>), Plain([f EXCEPT !.name = NamespacedName(1, 1, f.name)])>>}]
=============================================================================
