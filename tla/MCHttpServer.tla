---------------------------- MODULE MCHttpServer ----------------------------
(* TLC instance of HttpServer: the conversations.                          *)
EXTENDS HttpServer

Req(line, headers, body) == [line |-> line, headers |-> headers, body |-> body]
Get == Req("get", <<"host">>, <<>>)
GetClose == Req("get", <<"close", "host">>, <<>>)
Get10 == Req("get10", <<>>, <<>>)
Get10Keep == Req("get10", <<"keep">>, <<>>)
Post == Req("post", <<>>, <<"text", "text">>)
Bad == Req("bad", <<>>, <<>>)

Talks ==
    {<<Get, Get10Keep, Get10>>, <<GetClose, Get>>, <<Post, Get>>,
     <<Get10Keep, Post>>, <<Get, Bad, Get>>}

\* The hypothesis of the theorem about the answers.
ASSUME TalksAssumption == OnlyPostsHaveBodies
=============================================================================
