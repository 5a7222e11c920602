----------------------------- MODULE HttpServer -----------------------------
(***************************************************************************)
(* HttpServer over one connection: the parser of net/HttpContext.cc, which *)
(* takes requests out of the input Buffer as they arrive, and the answers  *)
(* of net/HttpServer.cc.  The client sends a conversation, the requests    *)
(* one after the other, and the network cuts it anywhere: handleread gets  *)
(* whatever has come.                                                      *)
(*                                                                         *)
(* A symbol stands for a piece of a request that the parser's regular      *)
(* expressions take as one: a request line, a header, some text of a body, *)
(* and the two characters that end a line.  What the user's httpcallback_  *)
(* makes of a request is left out, and so is the sending of its answer,    *)
(* but that some of it may wait in outbuffer_ (module TcpConnect).         *)
(*                                                                         *)
(* A read that fills the vector and needs temp for the rest appends bytes  *)
(* nobody sent (module Buffer); the connection is not followed past it.    *)
(***************************************************************************)
EXTENDS Buffer

CONSTANTS Conversations, \* what the client may send, a sequence of requests
          InputSize      \* the size inbuffer_ starts with

RequestLines == {"get", "get10", "post"} \* "bad" is a line that matches none
Headers == {"host", "close", "keep"}     \* the last two of them Connection's
Requests == [line : RequestLines \cup {"bad"}, headers : Seq(Headers), body : Seq({"text"})]

ASSUME HttpServerAssumption ==
    /\ Conversations \subseteq Seq(Requests)
    /\ InputSize \in Nat
    /\ Junk \notin RequestLines \cup Headers \cup {"bad", "text", "CR", "LF"}

VARIABLES
    conversation, \* what this client sends
    stream,       \* the symbols of it
    ends,         \* how many of them there are up to the end of each request
    sent,         \* symbols the client has sent
    taken,        \* symbols read from the socket
    consumed,     \* symbols the parser has retrieved
    inbuffer_,    \* a Buffer
    messagepc,    \* where onMessage is: "idle" between two events
    parsestate_,  \* the parser's state_
    request_,     \* the request it is at
    connected,    \* TcpConnect's state_ is kconnected
    inputshut,    \* the socket: SHUT_RD
    deleted,      \* whether handledel was called
    replies,      \* history: the answers, with the request each is for
    garbled,      \* history: a read has appended bytes nobody sent
    pipelined,    \* history: a request was begun before the last was answered
    torn          \* history: a body was not taken as it was sent

client == <<conversation, stream, ends, sent, pipelined>>
parser == <<parsestate_, request_, consumed>>
socket == <<taken, deleted, garbled>>
output == <<connected, inputshut, replies>>
httpvars == <<client, parser, socket, output, inbuffer_, messagepc, torn>>

-----------------------------------------------------------------------------
(* What is sent.                                                           *)

Line(s) == s \o <<"CR", "LF">>
Encode(r) ==
    Line(<<r.line>>) \o FlattenSeq([i \in DOMAIN r.headers |-> Line(<<r.headers[i]>>)])
    \o Line(<<>>) \o r.body

EncodeAll(requests) == FlattenSeq([i \in DOMAIN requests |-> Encode(requests[i])])

\* Where the n-th request ends, or the last.
EndOf(n) == IF n > Len(ends) THEN Len(stream) ELSE ends[n]

-----------------------------------------------------------------------------
(* What is understood.                                                     *)

\* setMethod and setVersion: kUnknown is the same number as kHttp10.
Method(line) ==
    IF Len(line) > 1 THEN "kInvalid"
    ELSE IF line = <<"post">> THEN "kPost" ELSE "kGet"
Version(line) == IF Last(line) = "get10" THEN "kHttp10" ELSE "kHttp11"

NewRequest == [method |-> "kInvalid", version |-> "kHttp10", connection |-> "none",
               body |-> <<>>]

\* processRequestLine: text before a request line, from the body of another
\* request, is taken for a part of the method.
IsRequestLine(line) ==
    /\ line # <<>> /\ Last(line) \in RequestLines
    /\ \A i \in 1..(Len(line) - 1) : line[i] = "text"

\* addHeader, for a line with a colon in it.
IsHeader(line) == \E i \in DOMAIN line : line[i] \in Headers
AddHeader(r, line) ==
    IF Last(line) = "host" THEN r ELSE [r EXCEPT !.connection = Last(line)]

\* onRequest's test of the options.
Closes(r) ==
    r.connection = "close" \/ (r.version = "kHttp10" /\ r.connection # "keep")

\* The position after the first CRLF, or 0 (findCRLF).
findCRLF(b) ==
    LET s == readable(b)
        crlfs == {i \in 2..Len(s) : s[i - 1] = "CR" /\ s[i] = "LF"}
    IN  IF crlfs = {} THEN 0 ELSE Min(crlfs)

FirstLine(b) == SubSeq(readable(b), 1, findCRLF(b) - 2)

HttpInit ==
    /\ conversation \in Conversations
    /\ stream = EncodeAll(conversation)
    /\ ends = [n \in DOMAIN conversation |-> Len(EncodeAll(SubSeq(conversation, 1, n)))]
    /\ sent = 0 /\ taken = 0 /\ consumed = 0
    /\ inbuffer_ = NewBuffer(InputSize)
    /\ messagepc = "idle"
    /\ parsestate_ = "kExpectRequestLine" /\ request_ = NewRequest
    /\ connected = TRUE /\ inputshut = FALSE /\ deleted = FALSE
    /\ replies = <<>>
    /\ garbled = FALSE /\ pipelined = FALSE /\ torn = FALSE

-----------------------------------------------------------------------------
ClientSends ==
    /\ ~garbled
    /\ sent < Len(stream)
    /\ sent' = sent + 1
    /\ pipelined' = (pipelined \/ sent' > EndOf(Len(replies) + 1))
    /\ UNCHANGED <<conversation, stream, ends, parser, socket, output, inbuffer_,
                   messagepc, torn>>

At(pc) == ~garbled /\ messagepc = pc

\* handleread, with all that has come, and at the end of the input.
Read ==
    /\ At("idle") /\ ~deleted
    /\ sent > taken
    /\ LET n == sent - taken IN
          /\ inbuffer_' = ReadV(inbuffer_, SubSeq(stream, taken + 1, sent))
          /\ garbled' = (writesize(inbuffer_) \in 1..(n - 1))
    /\ taken' = sent
    /\ messagepc' = "parse"
    /\ UNCHANGED <<client, parser, output, deleted, torn>>

ReadEof ==
    /\ At("idle") /\ ~deleted
    /\ sent = taken /\ inputshut
    /\ deleted' = TRUE
    /\ UNCHANGED <<client, parser, output, taken, garbled, inbuffer_, messagepc, torn>>

-----------------------------------------------------------------------------
(* parseRequest: one turn of its loop each.                                *)

Retrieve(n) ==
    /\ inbuffer_' = Retrieved(inbuffer_, n)
    /\ consumed' = consumed + n

Parsing(state) == At("parse") /\ parsestate_ = state

\* No whole line is there.
NeedMore ==
    /\ At("parse") /\ parsestate_ \in {"kExpectRequestLine", "kExpectHeaders"}
    /\ findCRLF(inbuffer_) = 0
    /\ messagepc' = "parsed"
    /\ UNCHANGED <<client, parser, socket, output, inbuffer_, torn>>

ParseRequestLine ==
    /\ Parsing("kExpectRequestLine")
    /\ findCRLF(inbuffer_) # 0
    /\ LET line == FirstLine(inbuffer_) IN
          /\ IsRequestLine(line)
          /\ request_' = [request_ EXCEPT !.method = Method(line), !.version = Version(line)]
    /\ Retrieve(findCRLF(inbuffer_))
    /\ parsestate_' = "kExpectHeaders"
    /\ UNCHANGED <<client, socket, output, messagepc, torn>>

\* shutdown, which leaves the socket as it is while there is output pending.
HttpShutdown ==
    /\ connected' = FALSE
    /\ inputshut' \in IF connected THEN {FALSE, TRUE} ELSE {inputshut}

\* The line stays in the buffer, and the parser where it is.
BadRequest ==
    /\ Parsing("kExpectRequestLine")
    /\ findCRLF(inbuffer_) # 0
    /\ ~IsRequestLine(FirstLine(inbuffer_))
    /\ replies' = Append(replies, [status |-> "400"])
    /\ HttpShutdown
    /\ messagepc' = "idle"
    /\ UNCHANGED <<client, parser, socket, inbuffer_, torn>>

ParseHeader ==
    /\ Parsing("kExpectHeaders")
    /\ findCRLF(inbuffer_) # 0
    /\ IsHeader(FirstLine(inbuffer_))
    /\ request_' = AddHeader(request_, FirstLine(inbuffer_))
    /\ Retrieve(findCRLF(inbuffer_))
    /\ UNCHANGED <<client, socket, output, messagepc, parsestate_, torn>>

ParseEmptyLine ==
    /\ Parsing("kExpectHeaders")
    /\ findCRLF(inbuffer_) # 0
    /\ ~IsHeader(FirstLine(inbuffer_))
    /\ Retrieve(findCRLF(inbuffer_))
    /\ IF request_.method = "kPost"
         THEN parsestate_' = "kExpectBody" /\ UNCHANGED messagepc
         ELSE parsestate_' = "kGotAll" /\ messagepc' = "parsed"
    /\ UNCHANGED <<client, socket, output, request_, torn>>

\* The body is what the buffer holds, be it nothing or the next request too.
ParseBody ==
    /\ Parsing("kExpectBody")
    /\ request_' = [request_ EXCEPT !.body = readable(inbuffer_)]
    /\ Retrieve(readsize(inbuffer_))
    /\ parsestate_' = "kGotAll"
    /\ messagepc' = "parsed"
    /\ torn' = (torn \/ consumed' # EndOf(Len(replies) + 1))
    /\ UNCHANGED <<client, socket, output>>

-----------------------------------------------------------------------------
(* onRequest and reset, which swaps all of the request but its body.       *)

\* Mutants: the context stays where it is; the headers are kept as well.
ResetNothing == UNCHANGED <<parsestate_, request_>>
ResetKeepsHeaders ==
    /\ parsestate_' = "kExpectRequestLine"
    /\ request_' = [NewRequest EXCEPT !.body = request_.body,
                                      !.connection = request_.connection]

reset ==
    /\ parsestate_' = "kExpectRequestLine"
    /\ request_' = [NewRequest EXCEPT !.body = request_.body]

Answer ==
    /\ At("parsed") /\ parsestate_ = "kGotAll"
    /\ replies' = Append(replies, [status |-> "200", request |-> request_])
    /\ IF Closes(request_) THEN HttpShutdown ELSE UNCHANGED <<connected, inputshut>>
    /\ reset
    /\ messagepc' = "idle"
    /\ UNCHANGED <<client, socket, consumed, inbuffer_, torn>>

NotAll ==
    /\ At("parsed") /\ parsestate_ # "kGotAll"
    /\ messagepc' = "idle"
    /\ UNCHANGED <<client, parser, socket, output, inbuffer_, torn>>

-----------------------------------------------------------------------------
onMessage ==
    \/ NeedMore \/ ParseRequestLine \/ BadRequest
    \/ ParseHeader \/ ParseEmptyLine \/ ParseBody
    \/ Answer \/ NotAll

HttpLoop == Read \/ ReadEof \/ onMessage

HttpNext == ClientSends \/ HttpLoop

HttpSpec == HttpInit /\ [][HttpNext]_httpvars

\* Fairness: the loop handles what its descriptor reports, to the end.
HttpFairSpec == HttpSpec /\ WF_httpvars(HttpLoop)

-----------------------------------------------------------------------------
(* Properties.                                                             *)

\* What waits to be parsed is what was received and not yet retrieved, in
\* order, wherever the input was cut and however the vector was moved or has
\* grown in between (buffer.cc:58-77, 86-91, buffer.h:66-85).
InputIntact ==
    /\ ~garbled => readable(inbuffer_) = SubSeq(stream, consumed + 1, taken)
    /\ inbuffer_.readindex_ \in 0..inbuffer_.writeindex_
    /\ inbuffer_.writeindex_ \in 0..Len(inbuffer_.data)
    /\ consumed <= taken /\ taken <= sent

\* The last of the first j headers that is about the connection.
Option(headers, j) ==
    LET options == {i \in 1..j : headers[i] # "host"} IN
       IF options = {} THEN "none" ELSE headers[Max(options)]

\* A client that sends bodies with POST only: the parser takes no other, and
\* reads the body of another request as the beginning of the next.
OnlyPostsHaveBodies ==
    \A c \in Conversations : \A n \in 1..Len(c) :
       c[n].line # "post" => Len(c[n].body) = 0

\* What a request says, and the answer it is due.
Meaning(r) ==
    [method |-> Method(<<r.line>>), version |-> Version(<<r.line>>),
     connection |-> Option(r.headers, Len(r.headers))]

AnswerTo(reply, r) ==
    IF r.line = "bad" THEN reply.status = "400"
    ELSE /\ reply.status = "200"
         /\ \A f \in {"method", "version", "connection"} :
               reply.request[f] = Meaning(r)[f]
         /\ r.line = "post" => reply.request.body = r.body

\* As long as every body was taken whole, the requests are answered in the
\* order they came, once each and for what they said, and not before they are
\* complete, up to the first that is refused; and the input is shut only
\* after an answer that ends the connection.  The parser keeps its place from
\* one event to the next in the context of the connection
\* (HttpContext.cc:21-88, HttpServer.cc:30-63).
AnsweredAsSent ==
    /\ ~torn => \A n \in DOMAIN replies :
          \/ \E k \in 1..(n - 1) : replies[k].status = "400"
          \/ /\ n <= Len(conversation)
             /\ AnswerTo(replies[n], conversation[n])
             /\ taken >= EndOf(n) \/ replies[n].status = "400"
    /\ inputshut => \E n \in DOMAIN replies :
          replies[n].status = "400" \/ Closes(replies[n].request)

\* A request that was sent is answered, unless the client did not wait for
\* the answer before it (parseRequest stops after each request, and what is
\* left waits for the next event), a body was cut, a read overran the vector,
\* or the connection was closed.
RequestAnswered ==
    \A n \in 1..3 :
       (n <= Len(conversation) /\ sent >= EndOf(n))
          ~> (Len(replies) >= n \/ pipelined \/ torn \/ garbled \/ deleted)
=============================================================================
