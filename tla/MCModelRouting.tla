---------------------------- MODULE MCModelRouting ----------------------------
(***************************************************************************)
(* A few models of each kind.  "sol" is known without a list and has an    *)
(* alias and an override that lead to it; "opus" stands for a family; "gem"*)
(* has only chat, in one of the lists by name and in the other not at all. *)
(* "opus-5" is overridden although it may be listed, and the override for  *)
(* "default" is one the code never looks at.                               *)
(***************************************************************************)
EXTENDS ModelRouting

Entry(endpoints, efforts) == [endpoints |-> endpoints, efforts |-> efforts]

MCStatic == [id \in {"sol"} |-> Entry({"responses", "ws"}, {0, 1, 2})]

MCEarlier == [id \in {"opus-4.8", "gem", "sol"} |->
    CASE id = "opus-4.8" -> Entry({"messages", "chat"}, {1, 2})
      [] id = "gem"      -> Entry({"chat"}, {})
      [] id = "sol"      -> Entry({}, {})]

MCLater == [id \in {"opus-4.8", "opus-5", "gem"} |->
    CASE id = "opus-4.8" -> Entry({"chat"}, {1})
      [] id = "opus-5"   -> Entry({"messages"}, {0, 3, 4})
      [] id = "gem"      -> Entry({}, {2})]

MCLists     == {MCEarlier, MCLater}
MCAliases   == [n \in {"opus-4-8", "sol-dash"} |-> IF n = "sol-dash" THEN "sol" ELSE "opus-4.8"]
MCOverrides == [n \in {"mine", "opus-5", "default"} |->
                  CASE n = "mine" -> "sol" [] n = "opus-5" -> "opus-4.8" [] n = "default" -> "gem"]
MCLocal     == {"qwen"}
MCClaude    == {"opus-4.8", "opus-5", "opus-4-8"}
MCFamily    == [n \in {"opus"} |-> "opus"]
MCVersion   == [id \in {"opus-4.8", "opus-5"} |->
                  [family |-> "opus", number |-> IF id = "opus-5" THEN 50 ELSE 48]]

Names == {"opus", "opus-4-8", "opus-5", "sol-dash", "mine", "gem", "qwen", "default"}
Ask(api, name) == [api |-> api, name |-> name]

\* One client asks for anything, the other only for the list.
MCAsks == [c \in {1, 2} |->
    IF c = 1 THEN {Ask(api, name) : api \in {"chat", "messages", "responses", "ws", "search"}, name \in Names}
    ELSE {Ask("list", "")}]
=============================================================================
