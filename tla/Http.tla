---------------------------------- MODULE Http ---------------------------------
(* One connection of the HTTP server of http_t: serviceIO takes what a read     *)
(* returns for one request, Get answers it with a file.  TCP may cut a request  *)
(* anywhere and join what was sent apart.                                       *)
EXTENDS Naturals, Sequences

CONSTANTS MaxRequests \* bound: requests the client sends

HttpAssumption == MaxRequests \in Nat
ASSUME HttpAssumption

\* What a request can name: "/" and a page, a picture, a directory without its slash
\* (which opens like a file but has no text), and what is not there.
Urls == {"home", "page", "picture", "directory", "missing"}

\* The files, as sequences of lines; a line break counts for a byte on disk.
File == [home |-> <<"index", "html">>, page |-> <<"a">>, picture |-> <<"ff", "d8", "ff">>,
         directory |-> <<>>, notfound |-> <<"404", "html">>]

VARIABLES link,      \* "off", "open" or "closed"
          asked,     \* the requests sent
          stream,    \* bytes under way: <<url, part>>, parts 1 and 2 the first line, 3 the headers
          whole,     \* every read until now returned one whole request (history)
          answers    \* the responses written

httpVars == <<link, asked, stream, whole, answers>>

HttpInit == link = "off" /\ asked = <<>> /\ stream = <<>> /\ whole = TRUE /\ answers = <<>>

HttpConnect == link = "off" /\ link' = "open" /\ UNCHANGED <<asked, stream, whole, answers>>

HttpAsk(url) == /\ link = "open" /\ Len(asked) < MaxRequests
                /\ asked' = Append(asked, url)
                /\ stream' = stream \o << <<url, 1>>, <<url, 2>>, <<url, 3>> >>
                /\ UNCHANGED <<link, whole, answers>>

-------------------------------------------------------------------------------
\* getoneline: the bytes before the first line break, or nothing when there is none.
GetOneLine(in) ==
  LET ends == { i \in DOMAIN in : in[i][2] >= 2 }
  IN  IF ends = {} THEN <<>> ELSE SubSeq(in, 1, CHOOSE i \in ends : \A j \in ends : i <= j)

\* parse: the second word of the line is the url.  A line that is the rest of one has no
\* second word, and the path is the root directory; a header's second word is no file.
Parse(in) == LET line == GetOneLine(in)
                 first == IF line = <<>> THEN 2 ELSE line[1][2]
             IN  CASE first = 1 -> line[1][1] [] first = 2 -> "directory" [] first = 3 -> "missing"

\* The text after the last dot of the path, which always has one: "./wwwroot".
Suffix(url) == CASE url \in {"home", "page"} -> ".html" [] url = "picture" -> ".jpg" [] OTHER -> "./wwwroot"
SuffToDesc(suffix) == CASE suffix = ".html" -> "text/html" [] suffix = ".jpg" -> "image/jpeg" [] OTHER -> ""

\* loadsource: the lines without their line breaks.
LoadSource(path) == File[path]

\* Get: 200 with the file, or with the page that says 404.
Get(url) == LET body == LoadSource(IF url \in DOMAIN File THEN url ELSE "notfound")
            IN  [type |-> SuffToDesc(Suffix(url)), body |-> body, length |-> Len(body)]

\* Mutant of ServiceIO: resp is declared before the loop and keeps the answer before.
ServiceIOKeeps ==
  /\ link = "open"
  /\ \E n \in 1 .. Len(stream) :
       LET r == Get(Parse(SubSeq(stream, 1, n)))
           kept == IF answers = <<>> THEN <<>> ELSE answers[Len(answers)].body
       IN  /\ answers' = Append(answers, [r EXCEPT !.body = kept \o @])
           /\ stream' = SubSeq(stream, n + 1, Len(stream))
           /\ whole' = (whole /\ n = 3)
  /\ UNCHANGED <<link, asked>>

\* One turn of serviceIO: a read, the request, the answer.
ServiceIO ==
  /\ link = "open"
  /\ \E n \in 1 .. Len(stream) :
       /\ answers' = Append(answers, Get(Parse(SubSeq(stream, 1, n))))
       /\ stream' = SubSeq(stream, n + 1, Len(stream))
       /\ whole' = (whole /\ n = 3)
  /\ UNCHANGED <<link, asked>>

HttpQuit == link = "open" /\ link' = "closed" /\ UNCHANGED <<asked, stream, whole, answers>>

HttpNext == HttpConnect \/ HttpQuit \/ ServiceIO \/ \E url \in Urls : HttpAsk(url)

HttpSpec == HttpInit /\ [][HttpNext]_httpVars

-------------------------------------------------------------------------------
\* Every variable has its type.
HttpTypeOK == /\ link \in {"off", "open", "closed"}
              /\ asked \in Seq(Urls) /\ Len(asked) <= MaxRequests
              /\ stream \in Seq(Urls \X (1 .. 3)) /\ whole \in BOOLEAN
              /\ Len(stream) + Len(answers) <= 3 * Len(asked)

\* A client whose requests are not cut gets one answer for each, in order: the lines of the
\* file it named, or of the 404 page; and whatever was read, the length says where the
\* next answer begins, line breaks being left out of both (server_tcp.hpp:99-133,
\* server_tcp.cc:36-44).
AnswersEachRequest ==
  \A k \in DOMAIN answers :
    /\ whole => answers[k].body = File[IF asked[k] = "missing" THEN "notfound" ELSE asked[k]]
    /\ answers[k].length = Len(answers[k].body)

\* The safety of the page server (http_t/server_tcp.hpp:99-133).
HttpSafe == HttpTypeOK /\ AnswersEachRequest
===============================================================================
