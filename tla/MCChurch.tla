------------------------------ MODULE MCChurch ------------------------------
(* Three people on a team of two; two organizations over two months; an     *)
(* hourly and a daily key; two of the staff and three links; one request;   *)
(* a conversation on each of two campuses; two widgets; three resources,    *)
(* one of a type without a tab; four spellings of three message types.      *)
EXTENDS Church

CONSTANTS p1, p2, p3, o1, o2, r1, a1, s1, s2, c1, c2, w1, w2, v1, v2, v3

MCLimit  == "hour" :> 1 @@ "day" :> 2
MCWindow == "hour" :> 1 @@ "day" :> 3

MCCampusOf == c1 :> w1 @@ c2 :> w2
MCNewestFirst == <<v1, v2, v3>>
MCTypeOf == [v \in {v1, v2, v3} |-> IF v = v3 THEN "OTHER" ELSE "VIDEOS"]
MCTopicsOf == "series" :> {"hope", "grief"}

MCAlphabetical == <<"guest", "kids", "youth", "Youth">>
MCKeyOf == [s \in {"guest", "kids", "youth"} |-> s] @@ "Youth" :> "youth"
MCTyped == {<<>>, <<"youth">>, <<"kids", "Youth">>}
MCElsewhere == {<<"Youth">>, <<"kids", "guest">>}

=============================================================================
