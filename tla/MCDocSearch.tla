---------------------------- MODULE MCDocSearch ----------------------------
EXTENDS DocSearch, TLC

MCWords == {"io", "i o", " i o", " "}
MCSqueezed == [t \in Texts |-> CASE t = " " -> "" [] t \in MCWords \ {" "} -> "io" [] OTHER -> t]
MCTrimmed == [t \in Texts |-> CASE t = " i o" -> "i o" [] t = " " -> "" [] OTHER -> t]
MCHits == [t \in Texts |-> CASE t = "io" -> {1, 2} [] t = Label -> {0}
                              [] t = "" -> {0, 1, 2} [] OTHER -> {}]
MCIndexed == {<<0, "io">>, <<0, "i o">>, <<0, Label>>, <<0, "">>, <<1, "io">>, <<1, "">>}
MCChildren == (0 :> 2) @@ (1 :> 2) @@ (2 :> 0)
=============================================================================
