---------------------------- MODULE TypeDetection ----------------------------
(***************************************************************************)
(* How RemoteHttpResource::setType tells the type (the BES module that     *)
(* will read the data) of a response from its headers and its URL.         *)
(*                                                                         *)
(* A header line is a record: the name and the value are abstract, the     *)
(* value of a Content-Disposition is the way the file name is written and  *)
(* the name; "http" tells that the four letters HTTP occur in the line.    *)
(***************************************************************************)
EXTENDS SequencesExt

CONSTANTS
    Texts,          \* file names, URLs and content types, as they are sent
    Lower,          \* Lower[s]: s in lower case
    WithTail,       \* WithTail[s]: the file name s and what comes after it
    Cut,            \* Cut[s]: s after its first "#", if any, up to the next blank
    NoText,         \* the empty string, which names no file
    TypeMatch,      \* BES.Catalog.catalog.TypeMatch: a sequence of entries
    MimeTypes,      \* Gateway.MimeTypes: a sequence of <<module, content type>>
    ModuleOrder,    \* the modules of MimeTypes in alphabetical order
    Types           \* the names of the modules

Forms == {"inline", "plain", "quoted", "more"}
Dispositions == [form : Forms, file : Texts]
Names == {"content-disposition", "content-type", "x-content-type-options", "date"}

\* The types that no module has: not found, and an exception thrown.
Found(t) == t # ""
Throws == "throws"

ASSUME TypeAssumption ==
    /\ NoText \in Texts
    /\ Lower \in [Texts -> Texts] /\ WithTail \in [Texts -> Texts] /\ Cut \in [Texts -> Texts]
    /\ TypeMatch \in Seq([matches : SUBSET Texts, malformed : BOOLEAN, type : Types])
    /\ MimeTypes \in Seq(Types \X Texts)
    /\ ModuleOrder \in Seq(Types)
    /\ {"", "unknown", Throws} \cap Types = {}

-----------------------------------------------------------------------------
(* Get_type_from_url, and the same loop in Get_type_from_disposition: the  *)
(* first entry that matches the whole of s; a malformed regular expression *)
(* throws when the loop comes to it.                                       *)
Get_type_from_url(s) ==
    LET i == SelectInSeq(TypeMatch, LAMBDA e : e.malformed \/ s \in e.matches)
    IN  IF i = 0 THEN "" ELSE IF TypeMatch[i].malformed THEN Throws ELSE TypeMatch[i].type

(* Initialize fills a map, so a module keeps the last content type that is *)
(* configured for it; the map is searched in the order of its keys.        *)
MimeOf(m) ==
    LET i == SelectLastInSeq(MimeTypes, LAMBDA e : e[1] = m)
    IN  IF i = 0 THEN NoText ELSE MimeTypes[i][2]

Get_type_from_content_type(ctype) ==
    LET i == SelectInSeq(ModuleOrder, LAMBDA m : MimeOf(m) = ctype)
    IN  IF i = 0 THEN "" ELSE ModuleOrder[i]

(* What is between the first "#" after "filename", or else the "=", and    *)
(* the next blank, without a quote at either end.  A quoted name is cut at *)
(* a blank like any other; what follows a name stays with it up to a blank *)
(* and has its "#" found, too.                                             *)
FileName(d) ==
    Cut[IF d.form = "more" THEN WithTail[d.file] ELSE d.file]

(* The character at length() - 1 is read after a quote at the start is     *)
(* gone.  When nothing is left then, that is before the string.  A build   *)
(* that checks the index ends the process; in another the name stays empty *)
(* whatever is read.  Of a pair of quotes, the second is still there.      *)
NoLastCharacter(d) ==
    /\ d.form # "inline"
    /\ FileName(d) = NoText
    /\ ~(d.form = "quoted" /\ d.file = NoText)

Get_type_from_disposition(d) ==
    IF d.form = "inline" THEN "" ELSE Get_type_from_url(FileName(d))

-----------------------------------------------------------------------------
\* hdr_name.find("content-type") finds the longer name, too.
IsContentType(l) == l.name \in {"content-type", "x-content-type-options"}
IsDisposition(l) == l.name = "content-disposition"

LowerDisposition(d) == [d EXCEPT !.file = Lower[@]]

\* What a header says of the type; an empty content type says nothing, even
\* if a module is configured for it.
TypeOfDisposition(l) == Get_type_from_disposition(LowerDisposition(l.value))
TypeOfContentType(l) ==
    IF Lower[l.value] = NoText THEN "" ELSE Get_type_from_content_type(Lower[l.value])

Otherwise(t, next) == IF Found(t) THEN t ELSE next

\* Slip: the content type is asked before the disposition.
SetType_ContentTypeFirst(hdrs, url) ==
    LET d == SelectLastInSeq(hdrs, IsDisposition)
        c == SelectLastInSeq(hdrs, IsContentType)
        byDisposition == IF d = 0 THEN "" ELSE TypeOfDisposition(hdrs[d])
        byContentType == IF c = 0 THEN "" ELSE TypeOfContentType(hdrs[c])
    IN  Otherwise(byContentType,
          Otherwise(byDisposition,
            Otherwise(Get_type_from_url(url), "unknown")))

\* Slip: the first header of each kind counts.
SetType_FirstHeader(hdrs, url) ==
    LET d == SelectInSeq(hdrs, IsDisposition)
        c == SelectInSeq(hdrs, IsContentType)
        byDisposition == IF d = 0 THEN "" ELSE TypeOfDisposition(hdrs[d])
        byContentType == IF c = 0 THEN "" ELSE TypeOfContentType(hdrs[c])
    IN  Otherwise(byDisposition,
          Otherwise(byContentType,
            Otherwise(Get_type_from_url(url), "unknown")))

\* Slip: nothing is done about a type that is still not found.
SetType_NoUnknown(hdrs, url) ==
    LET d == SelectLastInSeq(hdrs, IsDisposition)
        c == SelectLastInSeq(hdrs, IsContentType)
        byDisposition == IF d = 0 THEN "" ELSE TypeOfDisposition(hdrs[d])
        byContentType == IF c = 0 THEN "" ELSE TypeOfContentType(hdrs[c])
    IN  Otherwise(byDisposition, Otherwise(byContentType, Get_type_from_url(url)))

(* setType: the last header of each kind counts, a disposition before a    *)
(* content type before the URL.  The header lines are put in lower case,   *)
(* the URL is not.                                                         *)
SetType(hdrs, url) ==
    LET d == SelectLastInSeq(hdrs, IsDisposition)
        c == SelectLastInSeq(hdrs, IsContentType)
        byDisposition == IF d = 0 THEN "" ELSE TypeOfDisposition(hdrs[d])
        byContentType == IF c = 0 THEN "" ELSE TypeOfContentType(hdrs[c])
    IN  Otherwise(byDisposition,
          Otherwise(byContentType,
            Otherwise(Get_type_from_url(url), "unknown")))

\* setType has the file name of a disposition that leaves nothing of it.
MayAbort(hdrs) ==
    LET d == SelectLastInSeq(hdrs, IsDisposition)
    IN  d # 0 /\ NoLastCharacter(LowerDisposition(hdrs[d].value))
=============================================================================
