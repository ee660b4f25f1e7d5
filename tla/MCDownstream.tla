---------------------------- MODULE MCDownstream ----------------------------
(* The inputs of Downstream, for TLC.                                      *)
EXTENDS DownstreamCookies

\* A value with "=" in it and every attribute, a plain cookie of another name,
\* one that withdraws the first, and an empty one.
Session == [NewCookie(<<"SID">>, <<"uuid">>) EXCEPT !.path = <<"/">>, !.domain = <<"a">>,
              !.http_only = TRUE, !.secure = TRUE, !.expires = "later"]
Other == NewCookie(<<"a", ".", "b">>, <<"=", "1">>)
Gone == getInvalidationCookie(<<"SID">>)
Blank == NewCookie(<<"SID">>, <<>>)

AllLists == {<<>>, <<Session>>, <<Other>>, <<Gone>>, <<Other, Session>>, <<Blank, Session>>}

\* Two cookies in one response.
TwoLists == {<<>>, <<Other, Session>>}

AllSymbols == Written \cup {"SID", "uuid", "/", "a", ".", "b", "1", "#", "DELETED",
                         "never", "later", "epoch"}

\* Both sides of every change in the coding of a length and of a byte.
AllLengths == {0, 1, 125, 126, 127, 255, 256, 65535, 65536, 65537, 16777216}
=============================================================================
