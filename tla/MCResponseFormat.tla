-------------------------- MODULE MCResponseFormat --------------------------
(* Instance of ResponseFormat for TLC: windows over ten halves, of which   *)
(* up to four in a row have no rows; tables of three series.               *)
EXTENDS ResponseFormat

MCLimits == {NoLimit} \cup 0 .. 6
MCGap == {{}, Half} \cup {i .. j : i \in Half, j \in Half}
MCTableContents == {Half \ gap : gap \in {g \in MCGap : Cardinality(g) \in {0, 1, 2, 4} \/ g = Half}}
MCNullPoint == {<<1, 1>>, <<2, 2>>}
MCColumns == {<<"difference">>, <<"difference", "difference">>,
              <<"difference", "plain">>, <<"last", "difference">>}
MCElement ==
    {e \in [columns : MCColumns, form : {"absolute", "last", "ahead"},
            unit : {NoUnit, 2, 4}, second : {1, 2, 4}, group : {2, 4},
            start : {4, 5}, end : {8, 9, 10}, limit : {NoLimit, 2}] :
        /\ e.unit = NoUnit \/ e.limit # NoLimit => e.start = 4
        /\ e.second = 4 => e.unit = 2
        /\ e.form = "absolute" => e.unit = NoUnit \/ e.group % e.unit = 0
        /\ e.form # "absolute" =>
            e.unit # NoUnit /\ e.second = 1 /\ (e.end - e.start) % e.unit = 0}
=============================================================================
