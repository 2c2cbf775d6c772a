----------------------------- MODULE HttpTransfer -----------------------------
(***************************************************************************)
(* One HTTP GET: read_url with the two callbacks that libcurl makes while  *)
(* it receives responses, and the rest of writeResourceToFile.  This is    *)
(* the inside of the step "fetch" of RemoteHttpResource (FetchService).    *)
(*                                                                         *)
(* The server (and any proxy, and the network) answers as it likes: any    *)
(* status, any header lines, redirects, a body in chunks of any size, an   *)
(* end of the connection at any time.  libcurl is not in this repository;  *)
(* it is modelled as the options of init() set it: redirects are followed, *)
(* at most MaxRedirs of them, and only the body of the last response goes  *)
(* to the write callback.                                                  *)
(***************************************************************************)
EXTENDS TypeDetection

CONSTANTS
    HeaderLines,    \* the header lines a server may send
    Urls,           \* the URLs of resources
    Status,         \* the HTTP status codes a server may send
    MaxRedirs,      \* CURLOPT_MAXREDIRS
    MaxLines,       \* bound: header lines of one response
    MaxBytes        \* bound: units of data of a body

Redirects == 301..308

ASSUME TransferAssumption ==
    /\ HeaderLines \subseteq
            [name : {"content-disposition"}, value : Dispositions, http : BOOLEAN]
       \cup [name : Names \ {"content-disposition"}, value : Texts, http : BOOLEAN]
    /\ Urls \subseteq Texts
    /\ Status \subseteq 200..599
    /\ MaxRedirs \in Nat /\ MaxLines \in Nat /\ MaxBytes \in Nat

VARIABLES
    url,        \* d_remoteResourceUrl
    phase,      \* where the transfer stands
    status,     \* the status of the response that is coming in
    redirs,     \* redirects followed so far
    headers,    \* d_response_headers
    heard,      \* the header lines of the response that is coming in
    sent,       \* units of the body that the server has sent
    written,    \* units of data that are in the file
    type        \* d_type

vars == <<url, phase, status, redirs, headers, heard, sent, written, type>>

\* "failed": read_url throws, or the status is an error; "thrown": what comes
\* after a good response throws; "crashed": the process has ended.
Ended == {"done", "failed", "thrown", "crashed"}
Phases == Ended \cup {"start", "headers", "body", "short", "received"}

(* Types, and that a retrieved resource has some type: "since we have to   *)
(* have a type", setType falls back on "unknown".                          *)
TypeOK ==
    /\ url \in Urls
    /\ phase \in Phases
    /\ status \in Status \cup {0}
    /\ redirs \in 0..MaxRedirs
    /\ headers \in Seq(HeaderLines) /\ heard \in Seq(HeaderLines)
    /\ sent \in 0..MaxBytes
    /\ written \in 0..sent
    /\ type \in Types \cup {"", "unknown"}
    /\ phase = "done" => type # ""

Init ==
    /\ url \in Urls
    /\ phase = "start"
    /\ status = 0 /\ redirs = 0
    /\ headers = <<>> /\ heard = <<>>
    /\ sent = 0 /\ written = 0
    /\ type = Get_type_from_url(url) /\ type # Throws

-----------------------------------------------------------------------------
\* The status line, which save_raw_http_headers leaves out.
Begin ==
    /\ phase = "start"
    /\ phase' = "headers"
    /\ status' \in Status
    /\ heard' = <<>>
    /\ UNCHANGED <<url, redirs, headers, sent, written, type>>

(* save_raw_http_headers: any line with "HTTP" in it is taken for a status *)
(* line.  The vector is never cleared between the responses of a transfer. *)
Saved(hdrs, l) == IF l.http THEN hdrs ELSE Append(hdrs, l)

Header ==
    /\ phase = "headers"
    /\ Len(heard) < MaxLines
    /\ \E l \in HeaderLines :
         /\ heard' = Append(heard, l)
         /\ headers' = Saved(headers, l)
    /\ UNCHANGED <<url, phase, status, redirs, sent, written, type>>

\* The empty line after the last header, there being no location to follow.
BodyBegins ==
    /\ phase = "headers"
    /\ phase' = "body"
    /\ UNCHANGED <<url, status, redirs, headers, heard, sent, written, type>>

\* Slip: the number of redirects is not limited.
Redirect_Unlimited ==
    /\ phase = "headers"
    /\ status \in Redirects
    /\ phase' = "start"
    /\ UNCHANGED <<url, status, redirs, headers, heard, sent, written, type>>

\* A redirect that has a location: libcurl turns to it, or gives up.
Redirect ==
    /\ phase = "headers"
    /\ status \in Redirects
    /\ \/ redirs < MaxRedirs /\ redirs' = redirs + 1 /\ phase' = "start"
       \/ redirs = MaxRedirs /\ UNCHANGED redirs /\ phase' = "failed"
    /\ UNCHANGED <<url, status, headers, heard, sent, written, type>>

-----------------------------------------------------------------------------
\* Slip: the callback reports every byte as written.
Chunk_IgnoresWrite(n) ==
    /\ phase = "body"
    /\ sent + n <= MaxBytes
    /\ sent' = sent + n
    /\ \E wrote \in 0..n : written' = written + wrote
    /\ UNCHANGED <<url, phase, status, redirs, headers, heard, type>>

(* writeToOpenfileDescriptor: n units come, write() takes some of them or  *)
(* fails, and the callback returns what it took.                           *)
Chunk(n) ==
    /\ phase = "body"
    /\ sent + n <= MaxBytes
    /\ sent' = sent + n
    /\ \E wrote \in 0..n :
         /\ written' = written + wrote
         /\ phase' = IF wrote = n THEN "body" ELSE "short"
    /\ UNCHANGED <<url, status, redirs, headers, heard, type>>

\* curl_easy_perform returns without an error, and read_url the status.
BodyEnds ==
    /\ phase = "body"
    /\ phase' = "received"
    /\ UNCHANGED <<url, status, redirs, headers, heard, sent, written, type>>

(* curl_easy_perform returns an error, and read_url throws: a connection   *)
(* is lost, or the write callback did not take every unit of a chunk.      *)
Breaks ==
    /\ phase \in {"start", "headers", "body", "short"}
    /\ phase' = "failed"
    /\ UNCHANGED <<url, status, redirs, headers, heard, sent, written, type>>

\* Slip: 400, the first error status, is let through.
Finish_Over400 ==
    /\ phase = "received"
    /\ LET t == SetType(headers, url) IN
       \/ status > 400 /\ phase' = "failed" /\ UNCHANGED type
       \/ status <= 400 /\ t # Throws /\ phase' = "done" /\ type' = t
       \/ status <= 400 /\ phase' = "thrown" /\ UNCHANGED type
    /\ UNCHANGED <<url, status, redirs, headers, heard, sent, written>>

(* The end of writeResourceToFile: an error status is an exception, and so *)
(* is a failure of lseek; setType may throw, too.                          *)
Finish ==
    /\ phase = "received"
    /\ LET t == SetType(headers, url) IN
       \/ status >= 400 /\ phase' = "failed" /\ UNCHANGED type
       \/ status < 400 /\ t # Throws /\ phase' = "done" /\ type' = t
       \/ status < 400 /\ phase' = "thrown" /\ UNCHANGED type
    /\ UNCHANGED <<url, status, redirs, headers, heard, sent, written>>

\* Undefined behaviour in setType that ends the process.
Crashes ==
    /\ phase = "received"
    /\ status < 400
    /\ MayAbort(headers)
    /\ phase' = "crashed"
    /\ UNCHANGED <<url, status, redirs, headers, heard, sent, written, type>>

Next ==
    \/ Begin \/ Header \/ BodyBegins \/ Redirect
    \/ \E n \in 1..MaxBytes : Chunk(n)
    \/ BodyEnds \/ Breaks \/ Finish \/ Crashes

Spec == Init /\ [][Next]_vars

(* init() sets no timeout, so a silent server is waited for; that it says  *)
(* something, or that the connection breaks, is assumed of the network.    *)
Fairness == WF_vars(Next)

FairSpec == Spec /\ Fairness

-----------------------------------------------------------------------------
(* A transfer that succeeds has put every unit of the body of a response   *)
(* without an error status into the file, and nothing else: short writes,  *)
(* lost connections, redirects and error pages all end in an exception.    *)
SuccessIsWhole == phase = "done" => written = sent /\ status < 400

(* What the comments of setType say of the headers of a single response:   *)
(* the file name of the disposition tells the type; without one that does, *)
(* the content type, if it is not empty; without one, the URL; and only    *)
(* then is it "unknown".                                                   *)
(* Left out are responses with a line that is taken for another header     *)
(* (X-Content-Type-Options) or for a status line, repeated headers, and    *)
(* redirected transfers, where headers of the redirects count, too.        *)
OneOfEach == \A i, j \in DOMAIN heard : heard[i].name = heard[j].name => i = j

Unambiguous ==
    /\ redirs = 0
    /\ OneOfEach
    /\ \A i \in DOMAIN heard : ~heard[i].http /\ heard[i].name # "x-content-type-options"

DispositionTypes ==
    {TypeOfDisposition(heard[i]) :
        i \in {j \in DOMAIN heard : heard[j].name = "content-disposition"}} \ {""}

ContentTypes ==
    {Get_type_from_content_type(Lower[heard[i].value]) :
        i \in {j \in DOMAIN heard :
                 heard[j].name = "content-type" /\ Lower[heard[j].value] # NoText}} \ {""}

URLTypes == {Get_type_from_url(url)} \ {""}

TypeByPriority ==
    phase = "done" /\ Unambiguous =>
        IF DispositionTypes # {} THEN type \in DispositionTypes
        ELSE IF ContentTypes # {} THEN type \in ContentTypes
        ELSE IF URLTypes # {} THEN type \in URLTypes
        ELSE type = "unknown"

\* The lines of the last response that are in the vector, and, in the vector,
\* the lines before them: those of redirects.
Kept == {i \in DOMAIN heard : ~heard[i].http}
Earlier == 1..(Len(headers) - Cardinality(Kept))

Superseded(Is(_)) ==
    (\E i \in Earlier : Is(headers[i])) => \E j \in Kept : Is(heard[j])

\* The last response by itself; a line that the vector lacks says nothing.
NoHeader == [name |-> "date", value |-> NoText, http |-> TRUE]
LastResponse == [i \in DOMAIN heard |-> IF i \in Kept THEN heard[i] ELSE NoHeader]

(* How far a redirect reaches: the vector of headers is not cleared, but a *)
(* header of a redirect has no say in the type once the last response has  *)
(* one that is taken for the same header.                                  *)
LastResponseDecides ==
    phase = "done" /\ Superseded(IsDisposition) /\ Superseded(IsContentType)
        => type = SetType(LastResponse, url)

\* How many steps a transfer may still take, if no response goes on for ever.
ResponseSteps == MaxLines + MaxBytes + 4

StepsOfThis ==
    IF phase = "start" THEN ResponseSteps
    ELSE IF phase = "headers" THEN MaxLines - Len(heard) + MaxBytes + 3
    ELSE IF phase = "body" THEN MaxBytes - sent + 2
    ELSE IF phase \in {"short", "received"} THEN 1
    ELSE 0

StepsLeft == (MaxRedirs - redirs) * ResponseSteps + StepsOfThis

(* Nothing in a transfer goes back or round in a circle: whatever comes    *)
(* from the server, every step leaves fewer of them, down to none.  So a   *)
(* transfer of finite responses ends, unless it comes to a standstill.     *)
StepsRunOut == [][StepsLeft' \in 0..(StepsLeft - 1)]_vars

(* Every transfer ends, however often the server redirects it.             *)
TransferEnds == <>(phase \in Ended)

-----------------------------------------------------------------------------
(* "Looks at HTTP headers, and failing that compares the basename in the   *)
(* resource URL" (setType): a content type that is configured decides when *)
(* no disposition does.                                                    *)
HeadersComeFirst ==
    phase = "done" /\ redirs = 0 /\ OneOfEach /\ DispositionTypes = {} /\ ContentTypes # {}
        => type \in ContentTypes
=============================================================================
