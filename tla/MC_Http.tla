------------------------------ MODULE MC_Http -------------------------------
(* Small instances of Http for TLC. *)
EXTENDS Http, TLC
CONSTANTS r1, r2, s1, s2

Query(p, v) == [x \in {p} |-> v]
Message(props) == Object([id |-> Text("plain", 4), role |-> Text("user", 4)] ++ props)
PartsOf(s) == [parts |-> Array(s)]
OnePart == Object([type |-> Text("plain", 4), text |-> Text("plain", 4)])
Chat1(m) == [messages |-> Array(<<m>>)]
MCQueries ==
    {NoProps, Query("page", Numeral(0)), Query("page", Text("plain", 4)), Query("limit", Empty),
     Query("limit", Numeral(-2)), [page |-> Numeral(2), limit |-> Numeral(3)],
     Query("page", Array(<<Numeral(1), Numeral(2)>>)), Query("sort", Text("plain", 4))}
MCBodies ==
    {NoProps, Query("messages", Null), Chat1(Message(PartsOf(<<OnePart>>))),
     Chat1(Message(Query("content", Text("plain", 4)))),
     Query("messages", Text("plain", 4)), Chat1(Message(PartsOf(<<Text("plain", 4)>>))),
     Chat1(Null), Chat1(Array(<<Message(PartsOf(<<Null>>))>>)), Chat1(Array(<<Text("plain", 4)>>)),
     Chat1(Message(PartsOf(<<OnePart>>))) ++ [temperature |-> Number(9)]}
MCUploads == {<<>>, <<"small">>, <<"large">>, <<"small", "small">>, <<"small", "small", "small">>}
Deployment(local, prod, trust, throttled) ==
    [localUpload |-> local, production |-> prod, trustProxy |-> trust, throttled |-> throttled,
     limit |-> 1, basicUser |-> prod, sentry |-> prod]
MCDeployments == {Deployment(TRUE, FALSE, FALSE, FALSE), Deployment(FALSE, TRUE, TRUE, TRUE)}
=============================================================================
