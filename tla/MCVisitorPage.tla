--------------------------- MODULE MCVisitorPage ---------------------------
(* Three messages: two share a verse and a topic, which one of them has in  *)
(* two spellings, as it has a verse; this one is of two books. A video, a   *)
(* Short and an article.                                                    *)
EXTENDS VisitorPage, TLC

CONSTANTS w1, w2, i1, i2, i3

MCLabels ==
  i1 :> [speaker |-> {}, topic |-> {"Hope"}, messageType |-> {}, series |-> {},
         verse |-> {"Psalm 23:1"}] @@
  i2 :> [speaker |-> {}, topic |-> {"Hope", "hope", "Faith"}, messageType |-> {}, series |-> {},
         verse |-> {"Psalm 23:1", "psalm 23:1", "Romans 8:28"}] @@
  i3 :> [speaker |-> {"Ann"}, topic |-> {}, messageType |-> {}, series |-> {},
         verse |-> {"Psalm 1"}]

MCFacts ==
  i1 :> [type |-> "VIDEO", youtube |-> TRUE, saysShort |-> FALSE, livestream |-> FALSE,
         seconds |-> 2400] @@
  i2 :> [type |-> "VIDEO", youtube |-> TRUE, saysShort |-> FALSE, livestream |-> FALSE,
         seconds |-> 180] @@
  i3 :> [type |-> "ARTICLE", youtube |-> FALSE, saysShort |-> FALSE, livestream |-> FALSE,
         seconds |-> 0]

Texts == {"Ann", "Hope", "hope", "Faith", "Psalm 23:1", "psalm 23:1", "Psalm 1",
          "Romans 8:28", "Psalm", "Romans", "VIDEO", "SHORT", "ARTICLE"}

MCKey    == [t \in Texts |-> CASE t = "Hope" -> "hope" [] t = "Psalm 23:1" -> "psalm 23:1"
                                   [] OTHER -> t]
MCBookOf == "Psalm 23:1" :> "Psalm" @@ "psalm 23:1" :> "Psalm" @@ "Psalm 1" :> "Psalm" @@ "Romans 8:28" :> "Romans"
MCQueries == {Items, {i2, i3}}
MCEnabled == {"topic", "book", "type"}

=============================================================================
