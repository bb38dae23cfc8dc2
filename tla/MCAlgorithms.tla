---------------------------- MODULE MCAlgorithms ----------------------------
(* HttpMessages with a few messages of every kind, whose bodies hold what  *)
(* ends lines, and chunks and parts of every size; or GostEc with three    *)
(* curves of prime order and, as the real ones, with a = -3; or Gost28147  *)
(* with blocks of three bytes and a new key after two blocks.              *)
EXTENDS HttpMessages, GostEc, Gost28147

X(n) == <<"byte", n>>
Slash == <<"/", 0>>
Post == << <<"word", "POST">> >>
Path == <<Slash, X(1), Query, X(2)>>
Absolute == Scheme \o << <<"host", "upstream.">>, <<"host", "ru">>, Slash, X(1) >>
Header(name, value) == [name |-> Name(name), value |-> value]
Digits(n) == IF n < 10 THEN << <<"digit", n>> >> ELSE << <<"digit", n \div 10>>, <<"digit", n % 10>> >>
Length(n) == Header("content-length", Digits(n))

\* What a browser sends for a request, and what may follow it.
Request(target, headers, body, more) ==
  LET lines == [i \in DOMAIN headers |-> HeaderLine(headers[i].name, headers[i].value)]
      head == Ended(<<Post \o <<SP>> \o target \o <<SP, <<"word", "HTTP/1.1">>>>>> \o lines \o <<<<>>>>)
  IN  [kind |-> "request", bytes |-> head \o body \o more,
       of |-> [method |-> Post, target |-> target, headers |-> headers, body |-> body, head |-> Len(head)]]

Others == <<Header("cookie", <<Lead, Continuation>>), Header("host", << <<"word", "bridge">> >>)>>

\* Some have headers beyond the limit; the body of one has a length of two digits.
Requests ==
  {Request(Path, <<Length(Len(body))>>, body, more) :
     body \in {<<>>, <<X(1), X(2)>>, CRLF \o CRLF \o <<X(1)>>}, more \in {<<>>, CRLF \o <<X(3)>>}}
  \cup {Request(Absolute, Others, <<>>, <<>>), Request(<<Slash>>, Others \o <<Length(2)>>, <<X(1), X(2)>>, <<>>),
        Request(<<Slash>>, <<Length(10)>>, [i \in 1 .. 10 |-> X(i)], <<>>)}

\* A body in chunks of the given sizes.
Chunks(body, sizes) ==
  LET Before(i) == FoldLeft(+, 0, SubSeq(sizes, 1, i - 1))
  IN  FlattenSeq([i \in DOMAIN sizes |-> << <<"size", sizes[i]>> >> \o CRLF
                                         \o SubSeq(body, Before(i) + 1, Before(i) + sizes[i]) \o CRLF])
      \o << <<"size", 0>> >> \o CRLF \o CRLF

Response(headers, sent, body) ==
  LET status == << <<"word", "HTTP/1.1">>, SP, <<"word", "200">> >>
      lines == [i \in DOMAIN headers |-> HeaderLine(headers[i].name, headers[i].value)]
  IN  [kind |-> "response", bytes |-> Ended(<<status>> \o lines \o <<<<>>>>) \o sent,
       of |-> [status |-> status, body |-> body]]

Nalog == Scheme \o << <<"host", "lk.">>, <<"host", "nalog.">>, <<"host", "ru">> >>
Type(type) == Header("content-type", << <<type, 0>> >>)
Location == Header("location", Nalog)

\* With a head; with an address of another whose name begins like one of the service, and a character;
\* with a port, and bytes that are no UTF-8.
Bodies == {<< <<"<head", 0>>, <<">", 0>> >> \o Nalog \o <<CR, LF>>,
           Nalog \o << <<"host", "s">>, Lead, Continuation>>,
           Nalog \o <<Colon, <<"host", "8080">>, Continuation, Lead, CR, LF>>}

Responses ==
  {Response(<<Type(type), Length(Len(body))>>, body, body) : type \in {"text/html", "image/png"}, body \in Bodies}
  \cup UNION {{Response(<<Type("text/html"), Location, Header("transfer-encoding", << <<"chunked", 0>> >>)>>,
                        Chunks(body, sizes), body) :
                 sizes \in {z \in UNION {[1 .. n -> 1 .. Len(body)] : n \in 1 .. 3} : FoldLeft(+, 0, z) = Len(body)}} :
              body \in Bodies}

Form(fields) == [kind |-> "form", bytes |-> build_multipart_form(fields), of |-> fields]

Forms == {Form(<<[name |-> "inn", value |-> a], [name |-> "signature", value |-> b]>>) :
            a, b \in {<<>>, <<X(1)>>, CRLF, CRLF \o CRLF, <<X(1), CR, LF>>, <<Boundary[1]>>}}

MCCurve == <<[p |-> 13, a |-> 10, b |-> 1, q |-> 19, gx |-> 0, gy |-> 1],
             [p |-> 11, a |-> 8, b |-> 1, q |-> 17, gx |-> 0, gy |-> 1],
             [p |-> 7, a |-> 4, b |-> 6, q |-> 11, gx |-> 1, gy |-> 2]>>

MCStream == Requests \cup Responses \cup Forms

NoStream == [kind |-> "none", bytes |-> <<>>, of |-> <<>>]

NoMessage == stream = NoStream /\ pieces = <<>>
NoCurve == curve = None /\ k = 0 /\ sum = Infinity
NoBytes == Init /\ ~meshing

\* One of the three.
MCInit == \/ HttpInit /\ NoCurve /\ NoBytes
          \/ EcInit /\ NoMessage /\ NoBytes
          \/ Init /\ NoMessage /\ NoCurve

MCNext == \/ HttpNext /\ UNCHANGED <<ec, vars>>
          \/ Walk /\ UNCHANGED <<http, vars>>
          \/ NoMessage /\ NoCurve /\ Next /\ UNCHANGED <<http, ec>>

MCSpec == MCInit /\ [][MCNext]_<<http, ec, vars>>
=============================================================================
