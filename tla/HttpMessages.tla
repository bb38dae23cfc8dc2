---------------------------- MODULE HttpMessages ----------------------------
(***************************************************************************)
(* The HTTP messages that the bridges read and write: requests of the      *)
(* browser, which come in pieces and may end early, responses of the       *)
(* service, forms. HttpRequest::read_from of src/src/lib.rs is the reader  *)
(* of the Gosuslugi bridge, read_request of src/src/gost_bridge.rs that of *)
(* the GOST bridge.                                                        *)
(*                                                                         *)
(* A message is a sequence of tokens, each a pair. A token stands for      *)
(* bytes that a cut cannot part, or that make no difference when it does:  *)
(* CR and LF, a header's name, a digit, either byte of a two-byte          *)
(* character, half a boundary, a label of a host's name. Only what the     *)
(* code looks for is told apart.                                           *)
(***************************************************************************)
EXTENDS Naturals, Sequences, FiniteSets, SequencesExt

CONSTANTS
  Stream,      \* the messages: [kind, bytes, of], what bytes are the encoding of
  Refused,     \* an error in place of a message
  MaxHeaders,  \* the limit of read_from for what comes before the end of the headers
  MaxPieces    \* bound on the pieces a message comes in

ASSUME HttpAssumption == MaxHeaders \in Nat /\ MaxPieces \in Nat \ {0}

VARIABLES
  stream,  \* the message on its way
  pieces   \* what each read has returned so far

http == <<stream, pieces>>

CR == <<"CR", 0>>
LF == <<"LF", 0>>
SP == <<"SP", 0>>
Query == <<"?", 0>>
Colon == <<":", 0>>
CRLF == <<CR, LF>>

\* The two bytes of a character, and the three that stand for what is no UTF-8.
Lead == <<"lead", 0>>
Continuation == <<"continuation", 0>>
Replacement == << <<"U+FFFD", 1>>, <<"U+FFFD", 2>>, <<"U+FFFD", 3>> >>

-----------------------------------------------------------------------------
(* Parts of messages *)

From(s, i) == SubSeq(s, i, Len(s))

\* The position of the first needle, 0 if there is none.
find_subslice(s, needle) ==
  LET at == {i \in 1 .. Len(s) + 1 - Len(needle) : SubSeq(s, i, i + Len(needle) - 1) = needle}
  IN  IF at = {} THEN 0 ELSE Min(at)

header_end(s) == find_subslice(s, CRLF \o CRLF)

Split(s, at) ==
  LET add(parts, t) == IF t = at THEN Append(parts, <<>>) ELSE [parts EXCEPT ![Len(parts)] = Append(@, t)]
  IN  FoldLeft(add, << <<>> >>, s)

strip_cr(line) == IF line # <<>> /\ Last(line) = CR THEN Front(line) ELSE line

Lines(s) == LET split == Split(s, LF) IN [i \in DOMAIN split |-> strip_cr(split[i])]

\* The last line of s is not ended, or is empty.
trim_end(line) == SubSeq(line, 1, Max({0} \cup {i \in DOMAIN line : line[i] # CR}))

Words(line) == SelectSeq(Split(line, SP), LAMBDA w : w # <<>>)

trim(s) == LET kept == {i \in DOMAIN s : s[i] # SP}
           IN  IF kept = {} THEN <<>> ELSE SubSeq(s, Min(kept), Max(kept))

\* One U+FFFD for each byte that does not belong to a character.
from_utf8_lossy(s) ==
  LET Alone(i) == \/ s[i] = Lead /\ (i = Len(s) \/ s[i + 1] # Continuation)
                  \/ s[i] = Continuation /\ (i = 1 \/ s[i - 1] # Lead)
  IN  FlattenSeq([i \in DOMAIN s |-> IF Alone(i) THEN Replacement ELSE <<s[i]>>])

HeaderLine(name, value) == name \o <<Colon, SP>> \o value

\* A line without a colon is no header.
Headers(lines) ==
  LET At(line) == find_subslice(line, <<Colon>>)
      found == SelectSeq(lines, LAMBDA line : At(line) # 0)
  IN  [i \in DOMAIN found |-> [name |-> trim(SubSeq(found[i], 1, At(found[i]) - 1)),
                               value |-> trim(From(found[i], At(found[i]) + 1))]]

Name(name) == << <<"name", name>> >>

Named(headers, name) == SelectSeq(headers, LAMBDA h : h.name = Name(name))

\* The first Content-Length, 0 if there is none or it is no number.
content_length(headers) ==
  LET found == Named(headers, "content-length")
      value == Head(found).value
  IN  IF found = <<>> \/ value = <<>> \/ \E i \in DOMAIN value : value[i][1] # "digit" THEN 0
      ELSE FoldLeft(LAMBDA n, t : 10 * n + t[2], 0, value)

-----------------------------------------------------------------------------
(* Requests *)

\* Mutant: Of what has been read with the headers, the body is forgotten.
read_from_Forgets(reads) ==
  LET After(i) == FlattenSeq(SubSeq(reads, 1, i))
      stops == {i \in DOMAIN reads : header_end(After(i)) # 0 \/ Len(After(i)) > MaxHeaders}
      first == IF stops = {} THEN Len(reads) ELSE Min(stops)
      end == header_end(After(first))
      lines == Lines(from_utf8_lossy(SubSeq(After(first), 1, end - 1)))
      length == content_length(Headers(Tail(lines)))
      body == FlattenSeq(SubSeq(reads, first + 1, Len(reads)))
  IN  IF end = 0 THEN Refused
      ELSE IF Len(Words(lines[1])) < 2 THEN Refused
      ELSE [method |-> Words(lines[1])[1], path |-> Split(Words(lines[1])[2], Query)[1],
            body |-> SubSeq(body, 1, Min({length, Len(body)}))]

\* Reads up to the end of the headers, then up to that of the body. The end of the stream ends both.
read_from(reads) ==
  LET After(i) == FlattenSeq(SubSeq(reads, 1, i))
      stops == {i \in DOMAIN reads : header_end(After(i)) # 0 \/ Len(After(i)) > MaxHeaders}
      first == IF stops = {} THEN Len(reads) ELSE Min(stops)
      end == header_end(After(first))
      lines == Lines(from_utf8_lossy(SubSeq(After(first), 1, end - 1)))
      needed == end + 3 + content_length(Headers(Tail(lines)))
      enough == {i \in first .. Len(reads) : Len(After(i)) >= needed}
      buffer == After(IF enough = {} THEN Len(reads) ELSE Min(enough))
  IN  IF end = 0 THEN Refused
      ELSE IF Len(Words(lines[1])) < 2 THEN Refused
      ELSE [method |-> Words(lines[1])[1], path |-> Split(Words(lines[1])[2], Query)[1],
            body |-> SubSeq(buffer, end + 4, Min({needed, Len(buffer)}))]

\* Line by line, each in UTF-8, then as many bytes as the header says. The end of the stream ends a line
\* and the headers as well. A stream without a byte is no request, here refused as well.
read_request(s) ==
  LET split == Split(s, LF)
      lines == [i \in DOMAIN split |-> trim_end(split[i])]
      blank == {i \in 2 .. Len(lines) : lines[i] = <<>>}
      end == IF blank = {} THEN Len(lines) ELSE Min(blank)
      body == From(s, Len(FlattenSeq(SubSeq(split, 1, end))) + end + 1)
      headers == Headers(SubSeq(lines, 2, end))
      length == content_length(headers)
      words == Words(lines[1])
      utf8 == \A i \in 1 .. end : from_utf8_lossy(split[i]) = split[i]
  IN  IF ~utf8 \/ Len(words) < 2 \/ Len(body) < length THEN Refused
      ELSE [method |-> words[1], target |-> words[2], headers |-> headers, body |-> SubSeq(body, 1, length)]

HopByHop == {Name(n) : n \in {"host", "connection", "cookie", "transfer-encoding"}}

Scheme == << <<"http", 1>>, <<"http", 2>> >>

\* Of an absolute target, what comes from the first slash behind the scheme.
origin_form_target(target) ==
  LET slash == find_subslice(target, << <<"/", 0>> >>)
  IN  IF ~IsPrefix(Scheme, target) THEN target ELSE IF slash = 0 THEN << <<"/", 0>> >> ELSE From(target, slash)

Ended(lines) == FlattenSeq([i \in DOMAIN lines |-> lines[i] \o CRLF])

build_upstream_request(request, jar) ==
  LET kept == SelectSeq(request.headers, LAMBDA h : h.name \notin HopByHop)
      cookies == IF jar = <<>> THEN <<>> ELSE <<HeaderLine(Name("cookie"), jar)>>
  IN  Ended(<<request.method \o <<SP>> \o origin_form_target(request.target) \o <<SP, <<"word", "HTTP/1.1">>>>,
              HeaderLine(Name("host"), << <<"word", "upstream">> >>)>>
            \o [i \in DOMAIN kept |-> HeaderLine(kept[i].name, kept[i].value)] \o cookies
            \o <<HeaderLine(Name("connection"), << <<"word", "close">> >>), <<>> >>)
      \o request.body

-----------------------------------------------------------------------------
(* Responses *)

split_response(raw) ==
  LET at == IF header_end(raw) # 0 THEN header_end(raw) ELSE find_subslice(raw, <<LF, LF>>)
      width == IF header_end(raw) # 0 THEN 4 ELSE 2
      lines == Lines(SubSeq(raw, 1, at - 1))
  IN  IF at = 0 THEN Refused
      ELSE [status |-> lines[1], headers |-> SelectSeq(Tail(lines), LAMBDA h : h # <<>>),
            body |-> From(raw, at + width)]

\* The size in the first line of a chunk, 0 if there is none; what follows a ";" is left out.
chunk_size(line) == LET hex == Split(line, <<";", 0>>)[1]
                    IN  IF Len(hex) = 1 /\ hex[1][1] = "size" THEN hex[1][2] ELSE 0

\* One chunk after the other, up to the last one, to one without a size, or to the end of the input.
decode_chunked(input) ==
  LET decoded[at \in 1 .. Len(input) + 1] ==
        LET nl == find_subslice(From(input, at), CRLF)
            size == chunk_size(SubSeq(input, at, at + nl - 2))
            data == at + nl + 1
            next == data + size + 2
        IN  IF nl = 0 \/ size = 0 THEN <<>>
            ELSE IF data + size > Len(input) + 1 THEN From(input, data)
            ELSE SubSeq(input, data, data + size - 1) \o IF next > Len(input) + 1 THEN <<>> ELSE decoded[next]
  IN  decoded[1]

Lined(lines, name) == SelectSeq(lines, LAMBDA line : IsPrefix(Name(name), line))

Chunked(response) == Lined(response.headers, "transfer-encoding") # <<>>

Decoded(response) == IF Chunked(response) THEN decode_chunked(response.body) ELSE response.body

ContentTypes(response) == {Last(line)[1] : line \in ToSet(Lined(response.headers, "content-type"))}

IsText(response) == ContentTypes(response) \cap {"text/html", "application/json"} # {}
IsHtml(response) == "text/html" \in ContentTypes(response)

\* Whether a host is the service's, or one below it.
IsNalog(host) == IsSuffix(<< <<"host", "nalog.">>, <<"host", "ru">> >>, host)

\* An address of the service, without its port, goes by way of the bridge.
rewrite_nalog_abs_urls(s) ==
  LET rewritten[i \in 1 .. Len(s) + 1] ==
        LET ends == {j \in i + 2 .. Len(s) : s[j][1] # "host" /\ s[j] # Colon}
            end == Min(ends \cup {Len(s) + 1})
            host == Split(SubSeq(s, i + 2, end - 1), Colon)[1]
        IN  IF i > Len(s) THEN <<>>
            ELSE IF ~IsPrefix(Scheme, From(s, i)) THEN <<s[i]>> \o rewritten[i + 1]
            ELSE (IF IsNalog(host) THEN << <<"/__up/", 0>> >> \o host ELSE SubSeq(s, i, end - 1)) \o rewritten[end]
  IN  rewritten[1]

\* Where tag ends in s, 0 if it does not.
TagEnd(s, tag) == LET at == find_subslice(s, << <<tag, 0>> >>)
                      end == find_subslice(From(s, at), << <<">", 0>> >>)
                  IN  IF at = 0 \/ end = 0 THEN 0 ELSE at + end - 1

\* The script goes behind the first head, or body if there is no head; JSON that is called HTML is left.
Shimmed(s) == LET at == IF TagEnd(s, "<head") # 0 THEN TagEnd(s, "<head") ELSE TagEnd(s, "<body")
              IN  IF at = 0 THEN s ELSE InsertAt(s, at + 1, <<"shim", 0>>)

rewritten_body(response) ==
  LET text == rewrite_nalog_abs_urls(from_utf8_lossy(Decoded(response)))
  IN  IF ~IsText(response) THEN Decoded(response) ELSE IF IsHtml(response) THEN Shimmed(text) ELSE text

Dropped == {"connection", "transfer-encoding", "content-length", "content-security-policy"}

\* The headers that the browser gets.
kept_headers(response) ==
  LET kept == SelectSeq(response.headers, LAMBDA line : \A name \in Dropped : ~IsPrefix(Name(name), line))
  IN  [i \in DOMAIN kept |-> IF IsPrefix(Name("location"), kept[i]) THEN rewrite_nalog_abs_urls(kept[i]) ELSE kept[i]]

\* The response that goes to the browser. The length is one number here.
BrowserResponse(response, body) ==
  Ended(<<response.status>> \o kept_headers(response)
        \o <<HeaderLine(Name("content-length"), << <<"digit", Len(body)>> >>),
              HeaderLine(Name("connection"), << <<"word", "close">> >>), <<>> >>)
  \o body

rewrite_response(raw) ==
  IF split_response(raw) = Refused THEN raw
  ELSE BrowserResponse(split_response(raw), rewritten_body(split_response(raw)))

-----------------------------------------------------------------------------
(* Forms *)

Boundary == << <<"--boundary", 1>>, <<"--boundary", 2>> >>

build_multipart_form(fields) ==
  FlattenSeq([i \in DOMAIN fields |-> Boundary \o CRLF \o << <<"name=", fields[i].name>> >> \o CRLF \o CRLF
                                      \o fields[i].value \o CRLF])
  \o Boundary \o << <<"--", 0>> >> \o CRLF

\* The field in what stands between two boundaries.
FieldOf(between) ==
  LET part == IF IsPrefix(CRLF, between) THEN From(between, 3) ELSE between
      end == header_end(part)
      value == From(part, end + 4)
      named == SelectSeq(SubSeq(part, 1, end - 1), LAMBDA t : t[1] = "name=")
  IN  IF end = 0 \/ named = <<>> THEN <<>>
      ELSE << [name |-> named[1][2],
               value |-> IF IsSuffix(CRLF, value) THEN SubSeq(value, 1, Len(value) - 2) ELSE value] >>

\* Between each boundary and the next, or the end.
parse_multipart_fields(body) ==
  LET fields[pos \in 1 .. Len(body) + 1] ==
        LET at == find_subslice(From(body, pos), Boundary)
            start == pos + at + 1
            next == find_subslice(From(body, start), Boundary)
        IN  IF at = 0 THEN <<>>
            ELSE IF next = 0 THEN FieldOf(From(body, start))
            ELSE FieldOf(SubSeq(body, start, start + next - 2)) \o fields[start + next - 1]
  IN  fields[1]

-----------------------------------------------------------------------------
(* A message comes in, piece by piece *)

received == FlattenSeq(pieces)

HttpInit == stream \in Stream /\ pieces = <<>>

\* Only the reads of a request are told apart: all others collect what comes before they look at it.
Arrive(n) == /\ Len(pieces) < IF stream.kind = "request" THEN MaxPieces ELSE 1
             /\ Len(received) + n <= Len(stream.bytes)
             /\ pieces' = Append(pieces, SubSeq(stream.bytes, Len(received) + 1, Len(received) + n))
             /\ UNCHANGED stream

HttpNext == \E n \in 1 .. Len(stream.bytes) : Arrive(n)

-----------------------------------------------------------------------------
(* Properties *)

\* What read_from makes of the first n tokens of a request.
Taken(of, n) ==
  {IF n < of.head THEN Refused
   ELSE [method |-> of.method, path |-> Split(of.target, Query)[1],
         body |-> SubSeq(of.body, 1, Min({n - of.head, Len(of.body)}))]}
  \cup IF of.head > MaxHeaders THEN {Refused} ELSE {}

\* What read_request makes of them: a body that is cut short is refused, and of cut headers the last may
\* have lost the end of its value, but not half a character.
ReadAs(read, of, n) ==
  LET sent == [method |-> of.method, target |-> of.target, headers |-> of.headers, body |-> of.body]
  IN  /\ n >= of.head + Len(of.body) => read = sent
      /\ (n >= of.head /\ n < of.head + Len(of.body)) => read = Refused
      /\ (n < of.head /\ read # Refused) =>
           LET m == Len(read.headers)
           IN  /\ read.method = of.method /\ IsPrefix(read.target, of.target)
               /\ m <= Len(of.headers)
               /\ \A i \in 1 .. m : /\ read.headers[i].name = of.headers[i].name
                                    /\ IsPrefix(read.headers[i].value, of.headers[i].value)
                                    /\ from_utf8_lossy(read.headers[i].value) = read.headers[i].value
                                    /\ i < m => read.headers[i] = of.headers[i]
               /\ read.body = <<>>

\* A request as the service reads it, and as it was read here.
SentOnAs(upstream, read) ==
  /\ upstream.method = read.method /\ upstream.target = origin_form_target(read.target)
  /\ upstream.body = read.body
  /\ Len(Named(upstream.headers, "cookie")) = 1

\* A request that is cut off, or followed by more, is read as what was sent: the readers agree with the
\* browser on a whole one however it is cut into pieces. read_from refuses one without its headers' end,
\* and takes a body that is cut short as it is; only beyond its limit do the pieces decide. read_request
\* refuses a body that is cut short, and takes cut headers, without a body and with half of the last
\* value, as a request, unless that ends in half a character. What it takes is sent on such that it reads the same.
RequestRead ==
  stream.kind = "request" =>
    LET read == read_request(received)
    IN  /\ read_from(pieces) \in Taken(stream.of, Len(received))
        /\ ReadAs(read, stream.of, Len(received))
        /\ read # Refused => SentOnAs(read_request(build_upstream_request(read, << <<"jar", 0>> >>)), read)

\* What a text may end with that is not the service's: half a character, or half an address.
CutEnd(end) == end \in {<<>>, Replacement} \/ \A t \in ToSet(end) : t[1] \in {"http", "host", ":", "/__up/"}

\* out is of, or the part of it that came.
RewrittenAs(out, of, whole) ==
  LET service == IF IsText(out) THEN rewrite_nalog_abs_urls(from_utf8_lossy(of.body)) ELSE of.body
      sent == SelectSeq(out.body, LAMBDA t : t # <<"shim", 0>>)
  IN  /\ out.status = of.status
      /\ Lined(out.headers, "content-length")
         = <<HeaderLine(Name("content-length"), << <<"digit", Len(out.body)>> >>)>>
      /\ ~Chunked(out)
      /\ whole => sent = service
      /\ IF IsText(out)
         THEN \E n \in 0 .. Len(sent) : IsPrefix(SubSeq(sent, 1, n), service) /\ CutEnd(From(sent, n + 1))
         ELSE IsPrefix(sent, service)
      /\ \A s \in (IF IsText(out) THEN {sent} ELSE {}) \cup ToSet(Lined(out.headers, "location")) :
           rewrite_nalog_abs_urls(s) = s
      /\ Len(out.body) - Len(sent) = IF IsHtml(out) /\ Shimmed(sent) # sent THEN 1 ELSE 0

\* A response reaches the browser as one it can read, wherever it breaks off: one Content-Length, that of
\* the body, no chunks, and the body the service sent as far as it came, all of it if all of it came. In a
\* text or a Location no address of the service is left. In a text, bytes that are no UTF-8 are replaced;
\* one that is cut may end with the replacement for half a character, or with half an address, which need
\* not be the beginning of what the whole one becomes.
ResponseRewritten ==
  stream.kind = "response" =>
    IF split_response(received) = Refused THEN rewrite_response(received) = received
    ELSE RewrittenAs(split_response(rewrite_response(received)), stream.of, received = stream.bytes)

\* The fields of a form are read as they were put in, whatever line ends or halves of a boundary their
\* values hold. Of a form that is cut off, only the last value that is read may be cut as well, or have with
\* it the line end and half of the boundary that follow.
FormsReadBack ==
  LET fields == parse_multipart_fields(received)
      n == Len(fields)
  IN  stream.kind = "form" =>
        /\ received = stream.bytes => fields = stream.of
        /\ n <= Len(stream.of)
        /\ \A i \in 1 .. n : /\ fields[i].name = stream.of[i].name
                             /\ IsPrefix(fields[i].value, stream.of[i].value \o CRLF \o <<Boundary[1]>>)
                             /\ i < n => fields[i] = stream.of[i]

\* Messages survive their readers and writers (read_from, read_request, build_upstream_request,
\* rewrite_response, parse_multipart_fields): whole as what was sent, cut off as a part of it but for what
\* the parts above say of its end.
HttpReadsBack == RequestRead /\ ResponseRewritten /\ FormsReadBack

=============================================================================
