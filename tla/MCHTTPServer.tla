---------------------------- MODULE MCHTTPServer ----------------------------
(* HTTPServer for TLC: one or two requests with up to two headers.         *)
EXTENDS HTTPServer

MCRequests ==
  LET first == {<<"GET11">>, <<"GET10", "keep">>, <<"GET11", "other", "close">>,
                <<"junk">>, <<"GET10">>}
      second == {<<"GET11", "close", "keep">>, <<"junk">>}
  IN  {<<r>> : r \in first} \cup (first \X second)
=============================================================================
