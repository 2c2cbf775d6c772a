-------------------------- MODULE HttpTransfer_proofs --------------------------
(***************************************************************************)
(* Proofs about HttpTransfer, for any header lines, status codes, limits   *)
(* and type configuration.                                                 *)
(***************************************************************************)
EXTENDS FetchService, FiniteSetTheorems, WellFoundedInduction, TLAPS

-----------------------------------------------------------------------------
(* The first and the last index with a property: where they are found.     *)
LEMMA LeastNatural ==
    ASSUME NEW S \in SUBSET Nat, S # {}
    PROVE  \E x \in S : \A y \in S : x <= y
<1>1. PICK x \in S : \A y \in S : <<y, x>> \notin OpToRel(<, Nat)
  BY WFMin, NatLessThanWellFounded
<1>2. \A y \in S : ~(y < x)
  BY <1>1 DEF OpToRel
<1> QED
  BY <1>2

LEMMA GreatestBelow ==
    ASSUME NEW n \in Nat, NEW S \in SUBSET (1..n), S # {}
    PROVE  \E x \in S : \A y \in S : x >= y
<1> DEFINE D == {m \in Nat : \E x \in S : m = n - x}
<1>1. \A x \in S : x \in Nat /\ n - x \in Nat
  OBVIOUS
<1>2. D \in SUBSET Nat /\ D # {}
  BY <1>1
<1>3. PICK m \in D : \A k \in D : m <= k
  <2> HIDE DEF D
  <2> QED
    BY <1>2, LeastNatural
<1>4. PICK x \in S : m = n - x
  BY <1>3
<1>5. ASSUME NEW y \in S
      PROVE  x >= y
  <2>1. n - y \in D
    BY <1>1
  <2>2. n - x <= n - y
    BY <1>3, <1>4, <2>1
  <2> QED
    BY <1>1, <2>2
<1> QED
  BY <1>5

LEMMA FirstIndex ==
    ASSUME NEW n \in Nat, NEW I \in SUBSET (1..n)
    PROVE  (IF I # {} THEN Min(I) ELSE 0) \in I \cup {0}
<1>1. I \in SUBSET Nat
  OBVIOUS
<1> QED
  BY <1>1, LeastNatural DEF Min

LEMMA LastIndex ==
    ASSUME NEW n \in Nat, NEW I \in SUBSET (1..n)
    PROVE  /\ I # {} => Max(I) \in I
           /\ (IF I # {} THEN Max(I) ELSE 0) = 0 <=> I = {}
<1>1. I # {} => Max(I) \in I
  BY GreatestBelow DEF Max
<1>2. CASE I # {}
  <2>1. Max(I) # 0
    BY <1>1, <1>2
  <2> QED
    BY <1>1, <1>2, <2>1
<1>3. CASE I = {}
  BY <1>3
<1> QED
  BY <1>2, <1>3

-----------------------------------------------------------------------------
(* What a search for the first match finds is an element of the sequence.  *)
LEMMA FirstElement ==
    ASSUME NEW T, NEW ss \in Seq(T), NEW I \in SUBSET (1..Len(ss))
    PROVE  LET first == IF I # {} THEN Min(I) ELSE 0
           IN  first = 0 \/ ss[first] \in T
<1>1. Len(ss) \in Nat /\ \A i \in 1..Len(ss) : ss[i] \in T
  OBVIOUS
<1> QED
  BY <1>1, FirstIndex

(* The functions that tell a type give a module's name or what stands for  *)
(* none, whatever they are asked.                                          *)
LEMMA UrlTyped ==
    ASSUME NEW s
    PROVE  Get_type_from_url(s) \in Types \cup {"", Throws}
<1> DEFINE I == {i \in 1..Len(TypeMatch) : TypeMatch[i].malformed \/ s \in TypeMatch[i].matches}
           first == IF I # {} THEN Min(I) ELSE 0
<1>1. SelectInSeq(TypeMatch, LAMBDA e : e.malformed \/ s \in e.matches) = first
  BY Zenon DEF SelectInSeq
<1>2. first = 0 \/ TypeMatch[first] \in [matches : SUBSET Texts, malformed : BOOLEAN, type : Types]
  <2>1. I \in SUBSET (1..Len(TypeMatch))
    OBVIOUS
  <2> HIDE DEF I
  <2> QED
    BY <2>1, FirstElement, TypeAssumption
<1>3. first = 0 \/ TypeMatch[first].type \in Types
  <2> HIDE DEF first
  <2> QED
    BY <1>2
<1>4. Get_type_from_url(s) =
        IF first = 0 THEN "" ELSE IF TypeMatch[first].malformed THEN Throws ELSE TypeMatch[first].type
  BY <1>1, Zenon DEF Get_type_from_url
<1> HIDE DEF first
<1> QED
  BY <1>3, <1>4

LEMMA ContentTyped ==
    ASSUME NEW c
    PROVE  Get_type_from_content_type(c) \in Types \cup {""}
<1> DEFINE I == {i \in 1..Len(ModuleOrder) : MimeOf(ModuleOrder[i]) = c}
           first == IF I # {} THEN Min(I) ELSE 0
<1>1. SelectInSeq(ModuleOrder, LAMBDA m : MimeOf(m) = c) = first
  BY Zenon DEF SelectInSeq
<1>3. first = 0 \/ ModuleOrder[first] \in Types
  <2>1. I \in SUBSET (1..Len(ModuleOrder))
    OBVIOUS
  <2> HIDE DEF I
  <2> QED
    BY <2>1, FirstElement, TypeAssumption
<1>4. Get_type_from_content_type(c) = IF first = 0 THEN "" ELSE ModuleOrder[first]
  BY <1>1, Zenon DEF Get_type_from_content_type
<1> HIDE DEF first
<1> QED
  BY <1>3, <1>4

LEMMA HeadersTyped ==
    ASSUME NEW l
    PROVE  /\ TypeOfDisposition(l) \in Types \cup {"", Throws}
           /\ TypeOfContentType(l) \in Types \cup {""}
<1>1. TypeOfDisposition(l) \in Types \cup {"", Throws}
  BY UrlTyped DEF TypeOfDisposition, Get_type_from_disposition
<1>2. TypeOfContentType(l) \in Types \cup {""}
  BY ContentTyped DEF TypeOfContentType
<1> QED
  BY <1>1, <1>2

(* A type that setType finds comes from the headers or from the URL.       *)
LEMMA SetTypeCases ==
    ASSUME NEW hdrs, NEW u, SetType(hdrs, u) # Throws
    PROVE  \E t \in Types \cup {""} :
              SetType(hdrs, u) = IF t # "" THEN t
                                 ELSE IF Get_type_from_url(u) # "" THEN Get_type_from_url(u)
                                 ELSE "unknown"
<1> DEFINE d == SelectLastInSeq(hdrs, IsDisposition)
           c == SelectLastInSeq(hdrs, IsContentType)
           byDisposition == IF d = 0 THEN "" ELSE TypeOfDisposition(hdrs[d])
           byContentType == IF c = 0 THEN "" ELSE TypeOfContentType(hdrs[c])
<1>1. SetType(hdrs, u) =
        Otherwise(byDisposition,
          Otherwise(byContentType, Otherwise(Get_type_from_url(u), "unknown")))
  BY DEF SetType
<1>2. byDisposition \in Types \cup {"", Throws} /\ byContentType \in Types \cup {""}
  BY HeadersTyped
<1>3. Throws # ""
  BY DEF Throws
<1> HIDE DEF byDisposition, byContentType
<1>4. Otherwise(byDisposition, byContentType) \in Types \cup {""}
  BY <1>1, <1>2, <1>3 DEF Otherwise, Found
<1> QED
  BY <1>1, <1>2, <1>3, <1>4 DEF Otherwise, Found

-----------------------------------------------------------------------------
(* While responses come in, the file is level with what the server sent    *)
(* of a body; only a transfer that fails may leave it behind.              *)
BodyInv ==
    /\ sent \in Nat /\ written \in Nat
    /\ phase \in Phases
    /\ phase \notin {"failed", "short"} => written = sent
    /\ phase \in {"done", "thrown"} => status < 400

LEMMA BodyInit == Init => BodyInv
BY DEF Init, BodyInv, Phases, Ended

LEMMA BodyNext == BodyInv /\ [Next]_vars => BodyInv'
<1> SUFFICES ASSUME BodyInv, [Next]_vars
             PROVE  BodyInv'
  OBVIOUS
<1> USE DEF BodyInv, Phases, Ended
<1>1. CASE Begin
  BY <1>1 DEF Begin
<1>2. CASE Header
  BY <1>2 DEF Header
<1>3. CASE BodyBegins
  BY <1>3 DEF BodyBegins
<1>4. CASE Redirect
  BY <1>4 DEF Redirect
<1>5. ASSUME NEW n \in 1..MaxBytes, Chunk(n)
      PROVE  BodyInv'
  <2>1. PICK wrote \in 0..n :
           /\ written' = written + wrote
           /\ phase' = IF wrote = n THEN "body" ELSE "short"
    BY <1>5 DEF Chunk
  <2>2. n \in Nat /\ wrote \in Nat
    BY TransferAssumption
  <2>3. phase = "body" /\ sent' = sent + n
    BY <1>5 DEF Chunk
  <2> QED
    BY <2>1, <2>2, <2>3
<1>6. CASE BodyEnds
  BY <1>6 DEF BodyEnds
<1>7. CASE Breaks
  BY <1>7 DEF Breaks
<1>8. CASE Finish
  <2>1. CASE phase' \in {"done", "thrown"}
    <3>1. status < 400 /\ phase = "received" /\ UNCHANGED <<status, sent, written>>
      BY <1>8, <2>1 DEF Finish
    <3> QED
      BY <2>1, <3>1
  <2>2. CASE phase' = "failed"
    <3>1. phase = "received" /\ UNCHANGED <<sent, written>>
      BY <1>8 DEF Finish
    <3> QED
      BY <2>2, <3>1
  <2> QED
    BY <1>8, <2>1, <2>2 DEF Finish
<1>9. CASE Crashes
  BY <1>9 DEF Crashes
<1>10. CASE UNCHANGED vars
  BY <1>10 DEF vars
<1> QED
  BY <1>1, <1>2, <1>3, <1>4, <1>5, <1>6, <1>7, <1>8, <1>9, <1>10 DEF Next

(* However the server, the network and the file system behave, a transfer  *)
(* that succeeds has the whole body of a response without an error status. *)
THEOREM OnlyWholeBodies == Spec => []SuccessIsWhole
<1>1. BodyInv => SuccessIsWhole
  BY DEF BodyInv, SuccessIsWhole
<1> QED
  BY BodyInit, BodyNext, <1>1, PTL DEF Spec

-----------------------------------------------------------------------------
(* Types.  What setType finds is a module's name, "unknown" or Throws, the *)
(* vectors grow by header lines only, and the file has no more than came.  *)
TypeInv ==
    /\ TypeOK
    /\ url \in TypedUrls

LEMMA SetTypeTyped ==
    ASSUME NEW hdrs, NEW u, SetType(hdrs, u) # Throws
    PROVE  SetType(hdrs, u) \in Types \cup {"unknown"} /\ SetType(hdrs, u) # ""
<1>1. Get_type_from_url(u) \in Types \cup {"", Throws}
  BY UrlTyped
<1>2. "" \notin Types
  BY TypeAssumption
<1> QED
  BY <1>1, <1>2, SetTypeCases DEF Throws

LEMMA Bounds == MaxRedirs \in Nat /\ MaxBytes \in Nat
BY TransferAssumption

LEMMA VectorsTyped ==
    /\ <<>> \in Seq(HeaderLines)
    /\ \A hdrs \in Seq(HeaderLines), l \in HeaderLines :
          Append(hdrs, l) \in Seq(HeaderLines) /\ Saved(hdrs, l) \in Seq(HeaderLines)
<1>1. \A hdrs \in Seq(HeaderLines), l \in HeaderLines : Append(hdrs, l) \in Seq(HeaderLines)
  OBVIOUS
<1> QED
  BY <1>1 DEF Saved

LEMMA TypeInit == Init => TypeInv
<1> SUFFICES ASSUME Init
             PROVE  TypeInv
  OBVIOUS
<1>1. type \in Types \cup {"", "unknown"} /\ url \in TypedUrls
  BY UrlTyped DEF Init, TypedUrls
<1>2. /\ url \in Urls /\ phase \in Phases /\ phase # "done"
      /\ status \in Status \cup {0}
      /\ headers \in Seq(HeaderLines) /\ heard \in Seq(HeaderLines)
  BY DEF Init, Phases, Ended
<1>3. redirs \in 0..MaxRedirs /\ sent \in 0..MaxBytes /\ written \in 0..sent
  BY TransferAssumption DEF Init
<1> QED
  BY <1>1, <1>2, <1>3 DEF TypeInv, TypeOK

LEMMA TypeNext == TypeInv /\ [Next]_vars => TypeInv'
<1> SUFFICES ASSUME TypeInv, [Next]_vars
             PROVE  TypeInv'
  OBVIOUS
<1> USE DEF TypeInv, TypeOK, Phases, Ended
<1>b. redirs \in 0..MaxRedirs /\ sent \in 0..MaxBytes /\ written \in 0..sent
  OBVIOUS
<1>1. CASE Begin
  <2>1. heard' \in Seq(HeaderLines)
    BY <1>1, VectorsTyped DEF Begin
  <2> QED
    BY <1>1, <2>1 DEF Begin
<1>2. CASE Header
  <2>1. heard' \in Seq(HeaderLines) /\ headers' \in Seq(HeaderLines)
    BY <1>2, VectorsTyped, Zenon DEF Header
  <2> QED
    BY <1>2, <2>1 DEF Header
<1>3. CASE BodyBegins
  BY <1>3 DEF BodyBegins
<1>4. CASE Redirect
  <2>1. redirs' \in 0..MaxRedirs
    <3> HIDE DEF TypeInv, TypeOK
    <3> QED
      BY <1>4, <1>b, Bounds DEF Redirect
  <2> QED
    BY <1>4, <2>1 DEF Redirect
<1>5. ASSUME NEW n \in 1..MaxBytes, Chunk(n)
      PROVE  TypeInv'
  <2>1. PICK wrote \in 0..n :
           /\ written' = written + wrote
           /\ phase' = IF wrote = n THEN "body" ELSE "short"
    BY <1>5 DEF Chunk
  <2>2. n \in Nat /\ wrote \in 0..n /\ sent \in Nat /\ written \in 0..sent
    <3> HIDE DEF TypeInv, TypeOK
    <3> QED
      BY <1>b, Bounds
  <2>3. sent' = sent + n /\ sent + n <= MaxBytes
    BY <1>5 DEF Chunk
  <2>4. sent' \in 0..MaxBytes /\ written' \in 0..sent'
    <3> HIDE DEF TypeInv, TypeOK
    <3> QED
      BY <2>1, <2>2, <2>3, Bounds
  <2>5. phase' \in Phases /\ phase' # "done"
    BY <2>1
  <2> QED
    BY <1>5, <2>4, <2>5 DEF Chunk
<1>6. CASE BodyEnds
  BY <1>6 DEF BodyEnds
<1>7. CASE Breaks
  BY <1>7 DEF Breaks
<1>8. CASE Finish
  <2> DEFINE t == SetType(headers, url)
  <2>1. \/ phase' \in {"failed", "thrown"} /\ UNCHANGED type
        \/ phase' = "done" /\ t # Throws /\ type' = t
    BY <1>8 DEF Finish
  <2>2. t # Throws => t \in Types \cup {"unknown"} /\ t # ""
    BY SetTypeTyped
  <2>3. type' \in Types \cup {"", "unknown"} /\ (phase' = "done" => type' # "") /\ phase' \in Phases
    <3> HIDE DEF t
    <3> QED
      BY <2>1, <2>2
  <2>4. UNCHANGED <<url, status, redirs, headers, heard, sent, written>>
    BY <1>8 DEF Finish
  <2> HIDE DEF t
  <2> QED
    BY <2>3, <2>4
<1>9. CASE Crashes
  BY <1>9 DEF Crashes
<1>10. CASE UNCHANGED vars
  BY <1>10 DEF vars
<1> QED
  BY <1>1, <1>2, <1>3, <1>4, <1>5, <1>6, <1>7, <1>8, <1>9, <1>10 DEF Next

(* A resource that was retrieved has a type, and it is a module's name or  *)
(* "unknown", whatever headers came and however it is configured.          *)
THEOREM TransferTypeCorrect == Spec => []TypeOK
<1>1. TypeInv => TypeOK
  BY DEF TypeInv
<1> QED
  BY TypeInit, TypeNext, <1>1, PTL DEF Spec

-----------------------------------------------------------------------------
(* The transfer is the step "fetch" of RemoteHttpResource.                 *)
LEMMA OneValue == \A k, v : One(k, v)[k] = v
BY DEF One

LEMMA OneUpdate == \A k, v, w : [One(k, v) EXCEPT ![k] = w] = One(k, w)
BY DEF One

LEMMA FetchInit == Init => FetchBegins
BY DEF Init, FetchBegins, NextCall, FileContent, Ended

(* What a step inside the GET does not show.                               *)
LEMMA UnseenStep ==
    ASSUME phase \notin Ended, phase' \notin Ended, UNCHANGED <<url, written, type>>
    PROVE  UNCHANGED Fetching!vars
<1>1. FileContent' = FileContent /\ NextCall' = NextCall
  BY DEF FileContent, NextCall
<1>2. /\ Alive /\ Alive'
      /\ Faults' = Faults
  BY DEF Alive, Faults, Ended
<1> QED
  BY <1>1, <1>2 DEF Fetching!vars, Fetching!cacheVars, Fetching!resVars, One

(* Data comes: the file grows.                                             *)
LEMMA ChunkStep ==
    ASSUME BodyInv, phase \notin Ended, phase' \notin Ended, UNCHANGED <<url, type>>,
           NEW n \in 1..MaxBytes, written' = written + n, written + n <= MaxBytes
    PROVE  Fetching!WriteChunk(Resource)
<1>1. /\ FileContent' = FileContent /\ NextCall' = NextCall /\ NextCall = "fetch"
      /\ Alive /\ Alive' /\ Faults' = Faults
  BY DEF FileContent, NextCall, Alive, Faults, Ended
<1>2. One(CacheFile, written)' = [One(CacheFile, written) EXCEPT ![CacheFile] = @ + n]
  BY OneValue, OneUpdate
<1>3. One(CacheFile, written)[CacheFile] + n <= MaxBytes
  BY OneValue
<1>4. /\ One(Resource, IF Alive THEN CacheFile ELSE Nobody)[Resource] = CacheFile
      /\ One(Resource, NextCall)[Resource] = "fetch"
  BY <1>1, OneValue
<1>5. UNCHANGED <<One(CacheFile, FileContent),
                  One(CacheFile, One(Process, IF Alive THEN "exclusive" ELSE "none")),
                  0, Nobody, Fetching!resVars>>
  BY <1>1 DEF One, Fetching!resVars
<1> QED
  BY <1>2, <1>3, <1>4, <1>5 DEF Fetching!WriteChunk

(* The GET is over: the content of the file is decided.                    *)
LEMMA EndStep ==
    ASSUME phase \notin Ended, phase' \in Ended, Alive', UNCHANGED <<url, written>>
    PROVE  Fetching!BodyEnds(Resource, FileContent')
<1>1. NextCall = "fetch" /\ Alive
  BY DEF NextCall, Alive, Ended
<1>2. /\ One(Resource, IF Alive THEN CacheFile ELSE Nobody)[Resource] = CacheFile
      /\ One(Resource, NextCall)[Resource] = "fetch"
  BY <1>1, OneValue
<1>3. One(CacheFile, FileContent)' = [One(CacheFile, FileContent) EXCEPT ![CacheFile] = FileContent']
  BY OneUpdate
<1>4. UNCHANGED <<One(CacheFile, written), One(Resource, IF Alive THEN url ELSE Nobody),
                  One(CacheFile, One(Process, IF Alive THEN "exclusive" ELSE "none")),
                  One(Resource, IF Alive THEN CacheFile ELSE Nobody)>>
  BY <1>1 DEF One
<1> QED
  BY <1>2, <1>3, <1>4 DEF Fetching!BodyEnds

LEMMA GotoStep ==
    ASSUME NEW call, NextCall' = call
    PROVE  Fetching!Goto(Resource, call)
<1>1. One(Resource, NextCall)' = [One(Resource, NextCall) EXCEPT ![Resource] = call]
  BY OneUpdate
<1> QED
  BY <1>1 DEF Fetching!Goto

LEMMA FailStep ==
    ASSUME phase \notin Ended, phase' = "failed", UNCHANGED <<url, written, type>>
    PROVE  Fetching!FetchError(Resource)
<1>1. FileContent' = "aborted" /\ NextCall' = "unwind" /\ Alive /\ Alive'
  BY DEF FileContent, NextCall, Alive, Ended
<1>2. UNCHANGED <<One(Resource, IF Alive THEN type ELSE ""), Faults>>
  BY <1>1 DEF One, Faults, Ended
<1>3. Fetching!BodyEnds(Resource, "aborted")
  BY EndStep, <1>1 DEF Ended
<1> QED
  BY <1>1, <1>2, <1>3, GotoStep DEF Fetching!FetchError

LEMMA ThrowStep ==
    ASSUME BodyInv, BodyInv', phase \notin Ended, phase' = "thrown", UNCHANGED <<url, written, type>>
    PROVE  Fetching!FetchThrows(Resource)
<1>1. Whole'
  BY DEF BodyInv, Whole
<1>2. FileContent' = "complete" /\ NextCall' = "unwind" /\ Alive /\ Alive'
  BY <1>1 DEF FileContent, NextCall, Alive, Ended
<1>3. UNCHANGED One(Resource, IF Alive THEN type ELSE "")
  BY <1>2 DEF One
<1>4. Fetching!BodyEnds(Resource, "complete")
  BY EndStep, <1>2 DEF Ended
<1>5. Fetching!Fault
  BY DEF Fetching!Fault, Faults, Ended
<1> QED
  BY <1>2, <1>3, <1>4, <1>5, GotoStep DEF Fetching!FetchThrows

LEMMA DoneStep ==
    ASSUME TypeInv, BodyInv, BodyInv', phase \notin Ended, phase' = "done", UNCHANGED <<url, written>>,
           SetType(headers, url) # Throws, type' = SetType(headers, url)
    PROVE  Fetching!FetchOK(Resource)
<1>1. Whole'
  BY DEF BodyInv, Whole
<1>2. FileContent' = "complete" /\ NextCall' = "toShared" /\ Alive /\ Alive'
  BY <1>1 DEF FileContent, NextCall, Alive, Ended
<1>3. UNCHANGED Faults
  BY DEF Faults, Ended
<1>4. Fetching!BodyEnds(Resource, "complete")
  BY EndStep, <1>2 DEF Ended
<1>5. url \in TypedUrls
  BY DEF TypeInv
<1>6. PICK t \in Types \cup {""} :
         type' = IF t # "" THEN t
                 ELSE IF Get_type_from_url(url) # "" THEN Get_type_from_url(url) ELSE "unknown"
  BY SetTypeCases
<1>7. type' = Fetching!SetType(url, t)
  BY <1>5, <1>6 DEF Fetching!SetType
<1>8. One(Resource, IF Alive THEN type ELSE "")' =
        [One(Resource, IF Alive THEN type ELSE "") EXCEPT ![Resource] = Fetching!SetType(url, t)]
  <2>1. (IF Alive THEN type ELSE "")' = Fetching!SetType(url, t)
    BY <1>2, <1>7
  <2> QED
    BY <2>1 DEF One
<1>9. /\ One(Resource, IF Alive THEN url ELSE Nobody)[Resource] = url
      /\ t \in [u \in TypedUrls |-> Types \cup {""}][url]
  BY <1>2, <1>5, OneValue
<1> QED
  BY <1>2, <1>3, <1>4, <1>8, <1>9, GotoStep DEF Fetching!FetchOK

(* The process ends: the object and its lock are gone, the file is not.    *)
LEMMA CrashStep ==
    ASSUME Crashes
    PROVE  Fetching!Crash(Process)
<1>1. /\ phase \notin Ended /\ Alive /\ NextCall = "fetch"
      /\ ~Alive' /\ NextCall' = "none" /\ FileContent' = "aborted"
      /\ Faults = 0 /\ Faults' = 1 /\ written' = written
  BY DEF Crashes, Ended, Alive, NextCall, FileContent, Faults
<1> DEFINE mine == {r \in {Resource} : One(Resource, Process)[r] = Process}
           writes == {One(Resource, IF Alive THEN CacheFile ELSE Nobody)[r] :
                        r \in {s \in mine : One(Resource, NextCall)[s] = "fetch"}}
<1>2. mine = {Resource} /\ writes = {CacheFile}
  BY <1>1, OneValue
<1>3. \E r \in mine : One(Resource, NextCall)[r] # "none"
  BY <1>1, <1>2, OneValue
<1>4. Fetching!Fault
  BY <1>1 DEF Fetching!Fault
<1>5. Fetching!ProcessEnds(Process, writes)
  <2>1. One(CacheFile, FileContent)' =
          [f \in {CacheFile} |-> IF f \in writes THEN "aborted" ELSE One(CacheFile, FileContent)[f]]
    BY <1>1, <1>2 DEF One
  <2>2. One(CacheFile, One(Process, IF Alive THEN "exclusive" ELSE "none"))' =
          [f \in {CacheFile} |->
            [One(CacheFile, One(Process, IF Alive THEN "exclusive" ELSE "none"))[f]
               EXCEPT ![Process] = "none"]]
    BY <1>1, OneValue, OneUpdate DEF One
  <2>3. UNCHANGED One(CacheFile, written)
    BY <1>1 DEF One
  <2> HIDE DEF writes
  <2> QED
    BY <2>1, <2>2, <2>3 DEF Fetching!ProcessEnds
<1>6. Fetching!Forget(mine)
  BY <1>1, <1>2 DEF Fetching!Forget, One
<1> QED
  BY <1>3, <1>4, <1>5, <1>6 DEF Fetching!Crash

LEMMA FetchNext ==
    TypeInv /\ BodyInv /\ BodyInv' /\ [Next]_vars =>
        [Fetching!Fetch(Resource) \/ Fetching!Crash(Process)]_(Fetching!vars)
<1> SUFFICES ASSUME TypeInv, BodyInv, BodyInv', [Next]_vars
             PROVE  \/ Fetching!Fetch(Resource) \/ Fetching!Crash(Process)
                    \/ UNCHANGED Fetching!vars
  OBVIOUS
<1> USE DEF Ended
<1>1. CASE Begin
  BY <1>1, UnseenStep DEF Begin
<1>2. CASE Header
  BY <1>2, UnseenStep DEF Header
<1>3. CASE BodyBegins
  BY <1>3, UnseenStep DEF BodyBegins
<1>4. CASE Redirect
  BY <1>4, UnseenStep, FailStep DEF Redirect, Fetching!Fetch
<1>5. ASSUME NEW n \in 1..MaxBytes, Chunk(n)
      PROVE  Fetching!Fetch(Resource) \/ UNCHANGED Fetching!vars
  <2>1. PICK wrote \in 0..n :
           /\ written' = written + wrote
           /\ phase' = IF wrote = n THEN "body" ELSE "short"
    BY <1>5 DEF Chunk
  <2>2. /\ phase = "body" /\ sent + n <= MaxBytes
        /\ UNCHANGED <<url, type>>
    BY <1>5 DEF Chunk
  <2>3. written = sent /\ written \in Nat
    BY <2>2 DEF BodyInv
  <2>4. phase \notin Ended /\ phase' \notin Ended
    BY <2>1, <2>2
  <2>5. CASE wrote = 0
    <3>1. written' = written
      BY <2>1, <2>3, <2>5
    <3> QED
      BY <2>2, <2>4, <3>1, UnseenStep
  <2>6. CASE wrote # 0
    <3>1. wrote \in 1..MaxBytes /\ written + wrote <= MaxBytes
      BY <2>1, <2>2, <2>3, <2>6, Bounds
    <3> QED
      BY <2>1, <2>2, <2>4, <3>1, ChunkStep DEF Fetching!Fetch
  <2> QED
    BY <2>5, <2>6
<1>6. CASE BodyEnds
  BY <1>6, UnseenStep DEF BodyEnds
<1>7. CASE Breaks
  BY <1>7, FailStep DEF Breaks, Fetching!Fetch
<1>8. CASE Finish
  <2>1. phase \notin Ended /\ UNCHANGED <<url, written>>
    BY <1>8 DEF Finish
  <2>2. \/ phase' = "failed" /\ UNCHANGED type
        \/ phase' = "thrown" /\ UNCHANGED type
        \/ phase' = "done" /\ SetType(headers, url) # Throws /\ type' = SetType(headers, url)
    BY <1>8 DEF Finish
  <2> QED
    BY <2>1, <2>2, FailStep, ThrowStep, DoneStep DEF Fetching!Fetch
<1>9. CASE Crashes
  BY <1>9, CrashStep
<1>10. CASE UNCHANGED vars
  BY <1>10 DEF vars, Fetching!vars, Fetching!cacheVars, Fetching!resVars, One, FileContent, NextCall,
               Whole, Alive, Faults
<1> QED
  BY <1>1, <1>2, <1>3, <1>4, <1>5, <1>6, <1>7, <1>8, <1>9, <1>10 DEF Next

(* Whatever comes from the server, the network and the file system: seen   *)
(* from the retrieval, the GET is its step "fetch", and a transfer that    *)
(* breaks, is cut short or ends in an error page leaves what is aborted,   *)
(* and so does one whose headers end the process.                          *)
THEOREM TransferIsFetch == Spec => ImplementsFetch
<1>1. Spec => [](TypeInv /\ BodyInv)
  BY TypeInit, TypeNext, BodyInit, BodyNext, PTL DEF Spec
<1>2. Spec => [][Fetching!Fetch(Resource) \/ Fetching!Crash(Process)]_(Fetching!vars)
  BY <1>1, BodyInit, BodyNext, FetchNext, PTL DEF Spec
<1> QED
  BY FetchInit, <1>2, PTL DEF Spec, ImplementsFetch

-----------------------------------------------------------------------------
(* Without redirects and without lines that look like a status line, the   *)
(* vector holds the headers of the response, and setType sees just those.  *)
NoneDropped == \A i \in DOMAIN heard : ~heard[i].http

VectorInv ==
    /\ redirs = 0 /\ phase = "start" => headers = <<>> /\ heard = <<>>
    /\ redirs = 0 /\ phase # "start" /\ NoneDropped => headers = heard
    /\ phase = "done" => type # Throws /\ type = SetType(headers, url)

LEMMA LineAdded ==
    ASSUME NEW hdrs \in Seq(HeaderLines), NEW l \in HeaderLines
    PROVE  /\ \A i \in DOMAIN hdrs : i \in DOMAIN Append(hdrs, l) /\ Append(hdrs, l)[i] = hdrs[i]
           /\ Len(hdrs) + 1 \in DOMAIN Append(hdrs, l) /\ Append(hdrs, l)[Len(hdrs) + 1] = l
OBVIOUS

LEMMA VectorInit == Init => VectorInv
BY DEF Init, VectorInv, Ended

LEMMA VectorNext == TypeInv /\ VectorInv /\ [Next]_vars => VectorInv'
<1> SUFFICES ASSUME TypeInv, VectorInv, [Next]_vars
             PROVE  VectorInv'
  OBVIOUS
<1>0. redirs \in Nat /\ headers \in Seq(HeaderLines) /\ heard \in Seq(HeaderLines)
  <2>1. redirs \in 0..MaxRedirs /\ headers \in Seq(HeaderLines) /\ heard \in Seq(HeaderLines)
    BY DEF TypeInv, TypeOK
  <2>2. redirs \in Nat
    BY <2>1, Bounds
  <2> QED
    BY <2>1, <2>2
<1> USE DEF VectorInv, Ended
<1>1. CASE Begin
  BY <1>1 DEF Begin
<1>2. CASE Header
  <2>1. PICK l \in HeaderLines : heard' = Append(heard, l) /\ headers' = Saved(headers, l)
    BY <1>2 DEF Header
  <2>2. phase = "headers" /\ UNCHANGED <<phase, redirs>>
    BY <1>2 DEF Header
  <2>3. ASSUME redirs = 0, NoneDropped'
        PROVE  headers' = heard'
    <3>1. NoneDropped /\ ~l.http
      BY <1>0, <2>1, <2>3, LineAdded DEF NoneDropped
    <3>2. headers = heard
      BY <2>2, <2>3, <3>1
    <3> QED
      BY <2>1, <3>1, <3>2 DEF Saved
  <2> QED
    BY <2>2, <2>3
<1>3. CASE BodyBegins
  BY <1>3 DEF BodyBegins, NoneDropped
<1>4. CASE Redirect
  BY <1>0, <1>4 DEF Redirect, NoneDropped
<1>5. ASSUME NEW n \in 1..MaxBytes, Chunk(n)
      PROVE  VectorInv'
  <2>1. phase' \in {"body", "short"} /\ phase = "body" /\ UNCHANGED <<redirs, headers, heard>>
    BY <1>5 DEF Chunk
  <2> QED
    BY <2>1 DEF NoneDropped
<1>6. CASE BodyEnds
  BY <1>6 DEF BodyEnds, NoneDropped
<1>7. CASE Breaks
  BY <1>7 DEF Breaks, NoneDropped
<1>8. CASE Finish
  <2>1. /\ phase = "received" /\ phase' \in Ended
        /\ UNCHANGED <<redirs, headers, heard, url>>
        /\ phase' = "done" => SetType(headers, url) # Throws /\ type' = SetType(headers, url)
    BY <1>8 DEF Finish
  <2> QED
    BY <2>1 DEF NoneDropped
<1>9. CASE Crashes
  BY <1>9 DEF Crashes, NoneDropped
<1>10. CASE UNCHANGED vars
  BY <1>10 DEF vars, NoneDropped
<1> QED
  BY <1>1, <1>2, <1>3, <1>4, <1>5, <1>6, <1>7, <1>8, <1>9, <1>10 DEF Next

LEMMA DispositionIndex ==
    ASSUME heard \in Seq(HeaderLines)
    PROVE  LET d == SelectLastInSeq(heard, IsDisposition)
           IN  /\ d # 0 => d \in DOMAIN heard /\ heard[d].name = "content-disposition"
               /\ d = 0 => \A i \in DOMAIN heard : heard[i].name # "content-disposition"
<1> DEFINE I == {i \in 1..Len(heard) : IsDisposition(heard[i])}
           last == IF I # {} THEN Max(I) ELSE 0
<1>1. SelectLastInSeq(heard, IsDisposition) = last
  BY Zenon DEF SelectLastInSeq
<1>2. I \in SUBSET (1..Len(heard)) /\ Len(heard) \in Nat /\ DOMAIN heard = 1..Len(heard)
  OBVIOUS
<1>3. (I # {} => last \in I) /\ (last = 0 <=> I = {})
  <2> HIDE DEF I
  <2> QED
    BY <1>2, LastIndex
<1>4. \A i \in 1..Len(heard) : i \in I <=> heard[i].name = "content-disposition"
  BY DEF IsDisposition
<1> HIDE DEF I, last
<1>5. last # 0 => last \in DOMAIN heard /\ heard[last].name = "content-disposition"
  BY <1>2, <1>3, <1>4
<1>6. last = 0 => \A i \in DOMAIN heard : heard[i].name # "content-disposition"
  BY <1>2, <1>3, <1>4
<1> QED
  BY <1>1, <1>5, <1>6

LEMMA ContentTypeIndex ==
    ASSUME heard \in Seq(HeaderLines),
           \A i \in DOMAIN heard : heard[i].name # "x-content-type-options"
    PROVE  LET c == SelectLastInSeq(heard, IsContentType)
           IN  /\ c # 0 => c \in DOMAIN heard /\ heard[c].name = "content-type"
               /\ c = 0 => \A i \in DOMAIN heard : heard[i].name # "content-type"
<1> DEFINE I == {i \in 1..Len(heard) : IsContentType(heard[i])}
           last == IF I # {} THEN Max(I) ELSE 0
<1>1. SelectLastInSeq(heard, IsContentType) = last
  BY Zenon DEF SelectLastInSeq
<1>2. I \in SUBSET (1..Len(heard)) /\ Len(heard) \in Nat /\ DOMAIN heard = 1..Len(heard)
  OBVIOUS
<1>3. (I # {} => last \in I) /\ (last = 0 <=> I = {})
  <2> HIDE DEF I
  <2> QED
    BY <1>2, LastIndex
<1>4. \A i \in 1..Len(heard) : i \in I <=> heard[i].name = "content-type"
  BY <1>2 DEF IsContentType
<1> HIDE DEF I, last
<1>5. last # 0 => last \in DOMAIN heard /\ heard[last].name = "content-type"
  BY <1>2, <1>3, <1>4
<1>6. last = 0 => \A i \in DOMAIN heard : heard[i].name # "content-type"
  BY <1>2, <1>3, <1>4
<1> QED
  BY <1>1, <1>5, <1>6

(* A response of one kind of header each is read as documented.            *)
LEMMA PriorityKept ==
    ASSUME heard \in Seq(HeaderLines), Unambiguous,
           type = SetType(heard, url), type # Throws
    PROVE  IF DispositionTypes # {} THEN type \in DispositionTypes
           ELSE IF ContentTypes # {} THEN type \in ContentTypes
           ELSE IF URLTypes # {} THEN type \in URLTypes
           ELSE type = "unknown"
<1> DEFINE d == SelectLastInSeq(heard, IsDisposition)
           c == SelectLastInSeq(heard, IsContentType)
           byDisposition == IF d = 0 THEN "" ELSE TypeOfDisposition(heard[d])
           byContentType == IF c = 0 THEN "" ELSE TypeOfContentType(heard[c])
<1>1. SetType(heard, url) =
        Otherwise(byDisposition,
          Otherwise(byContentType, Otherwise(Get_type_from_url(url), "unknown")))
  BY DEF SetType
<1>2. /\ d # 0 => d \in DOMAIN heard /\ heard[d].name = "content-disposition"
      /\ d = 0 => \A i \in DOMAIN heard : heard[i].name # "content-disposition"
  BY DispositionIndex
<1>3. /\ c # 0 => c \in DOMAIN heard /\ heard[c].name = "content-type"
      /\ c = 0 => \A i \in DOMAIN heard : heard[i].name # "content-type"
  BY ContentTypeIndex DEF Unambiguous
<1> HIDE DEF d, c
<1>4. DispositionTypes = {byDisposition} \ {""}
  BY <1>2 DEF DispositionTypes, Unambiguous, OneOfEach
<1>5. ContentTypes = {byContentType} \ {""}
  BY <1>3 DEF ContentTypes, TypeOfContentType, Unambiguous, OneOfEach
<1> HIDE DEF byDisposition, byContentType
<1> QED
  BY <1>1, <1>4, <1>5 DEF URLTypes, Otherwise, Found

(* However it is configured and whatever comes: the headers and the URL of *)
(* a single response tell its type in the documented order.                *)
THEOREM TypeFollowsPriority == Spec => []TypeByPriority
<1>1. TypeInv /\ VectorInv => TypeByPriority
  <2> SUFFICES ASSUME TypeInv, VectorInv, phase = "done", Unambiguous
               PROVE  TypeByPriority
    BY DEF TypeByPriority
  <2>1. NoneDropped /\ redirs = 0 /\ phase # "start"
    BY DEF Unambiguous, NoneDropped
  <2>2. headers = heard /\ type # Throws /\ type = SetType(headers, url)
    BY <2>1 DEF VectorInv
  <2>3. heard \in Seq(HeaderLines)
    BY DEF TypeInv, TypeOK
  <2> QED
    BY <2>2, <2>3, PriorityKept DEF TypeByPriority
<1> QED
  BY TypeInit, TypeNext, VectorInit, VectorNext, <1>1, PTL DEF Spec
-----------------------------------------------------------------------------
(* The vector and the response that came last: of the lines that are taken *)
(* for one kind of header, the newest that was kept is the newest in the   *)
(* vector; and if none was kept, the vector has them from redirects only.  *)
Kinds == {"disposition", "contentType"}

Says(l, kind) == IF kind = "disposition" THEN IsDisposition(l) ELSE IsContentType(l)

NewestKept(kind) ==
    \A i \in Kept :
        Says(heard[i], kind) /\ (\A j \in Kept : j > i => ~Says(heard[j], kind)) =>
            \E h \in DOMAIN headers :
                headers[h] = heard[i] /\ \A g \in DOMAIN headers : g > h => ~Says(headers[g], kind)

OthersEarlier(kind) ==
    (\A i \in Kept : ~Says(heard[i], kind)) =>
        \A g \in DOMAIN headers : Says(headers[g], kind) => g \in Earlier

OriginInv == \A kind \in Kinds : NewestKept(kind) /\ OthersEarlier(kind)

LEMMA OriginInit == Init => OriginInv
<1> SUFFICES ASSUME Init
             PROVE  OriginInv
  OBVIOUS
<1>1. DOMAIN headers = {} /\ Kept = {}
  BY DEF Init, Kept
<1> QED
  BY <1>1 DEF OriginInv, NewestKept, OthersEarlier

(* What a response adds to an empty one, and to one line more.             *)
LEMMA OriginBegin ==
    ASSUME heard' = <<>>, headers' = headers, headers \in Seq(HeaderLines)
    PROVE  OriginInv'
<1>1. Kept' = {}
  BY DEF Kept
<1>2. Earlier' = DOMAIN headers'
  <2>1. Cardinality({}) = 0
    BY FS_EmptySet
  <2>2. Earlier' = 1..(Len(headers') - Cardinality(Kept'))
    BY DEF Earlier
  <2>3. Len(headers) \in Nat /\ DOMAIN headers = 1..Len(headers)
    OBVIOUS
  <2>4. Len(headers) - 0 = Len(headers)
    BY <2>3
  <2> QED
    BY <1>1, <2>1, <2>2, <2>3, <2>4, Zenon
<1> QED
  BY <1>1, <1>2 DEF OriginInv, NewestKept, OthersEarlier

LEMMA KeptGrows ==
    ASSUME heard \in Seq(HeaderLines), NEW l \in HeaderLines, heard' = Append(heard, l)
    PROVE  /\ \A i \in Kept : heard'[i] = heard[i]
           /\ l.http => Kept' = Kept
           /\ ~l.http => /\ Kept' = Kept \cup {Len(heard) + 1}
                         /\ heard'[Len(heard) + 1] = l
                         /\ \A i \in Kept : Len(heard) + 1 > i
                         /\ Cardinality(Kept) \in Nat
                         /\ Cardinality(Kept') = Cardinality(Kept) + 1
<1> DEFINE n == Len(heard)
<1>1. n \in Nat /\ DOMAIN heard = 1..n
  OBVIOUS
<1>2. /\ DOMAIN heard' = 1..(n + 1)
      /\ \A i \in 1..n : heard'[i] = heard[i]
      /\ heard'[n + 1] = l
  OBVIOUS
<1> HIDE DEF n
<1>3. 1..(n + 1) = (1..n) \cup {n + 1} /\ n + 1 \notin 1..n
  BY <1>1
<1>4. Kept = {i \in 1..n : ~heard[i].http} /\ Kept' = {i \in 1..(n + 1) : ~heard'[i].http}
  BY <1>1, <1>2 DEF Kept
<1>5. /\ l.http => Kept' = Kept
      /\ ~l.http => Kept' = Kept \cup {n + 1}
  BY <1>2, <1>3, <1>4
<1>6. \A i \in Kept : i \in 1..n
  BY <1>4
<1>7. IsFiniteSet(Kept)
  <2>1. IsFiniteSet(1..n)
    BY <1>1, FS_Interval
  <2>2. Kept \subseteq 1..n
    BY <1>4
  <2> QED
    BY <2>1, <2>2, FS_Subset
<1>8. n + 1 \notin Kept
  BY <1>3, <1>6
<1>9. /\ Cardinality(Kept) \in Nat
      /\ Cardinality(Kept \cup {n + 1}) = Cardinality(Kept) + 1
  BY <1>7, <1>8, FS_CardinalityType, FS_AddElement
<1>10. \A i \in Kept : n + 1 > i
  BY <1>1, <1>6
<1> QED
  BY <1>2, <1>5, <1>6, <1>9, <1>10 DEF n

LEMMA OriginHeader ==
    ASSUME OriginInv, heard \in Seq(HeaderLines), headers \in Seq(HeaderLines),
           NEW l \in HeaderLines, heard' = Append(heard, l), headers' = Saved(headers, l)
    PROVE  OriginInv'
<1> DEFINE n == Len(heard)
           m == Len(headers)
<1>1. n \in Nat /\ m \in Nat /\ DOMAIN headers = 1..m
  OBVIOUS
<1>2. /\ \A i \in Kept : heard'[i] = heard[i]
      /\ l.http => Kept' = Kept
      /\ ~l.http => /\ Kept' = Kept \cup {n + 1}
                    /\ heard'[n + 1] = l
                    /\ \A i \in Kept : n + 1 > i
                    /\ Cardinality(Kept) \in Nat
                    /\ Cardinality(Kept') = Cardinality(Kept) + 1
  BY KeptGrows
<1>3. CASE l.http
  <2>1. headers' = headers /\ Kept' = Kept /\ Earlier' = Earlier
    BY <1>2, <1>3 DEF Saved, Earlier
  <2>2. ASSUME NEW kind \in Kinds
        PROVE  NewestKept(kind)' /\ OthersEarlier(kind)'
    <3>1. NewestKept(kind) /\ OthersEarlier(kind)
      BY DEF OriginInv
    <3>2. NewestKept(kind)'
      BY <1>2, <2>1, <3>1 DEF NewestKept, Says
    <3>3. OthersEarlier(kind)'
      BY <1>2, <2>1, <3>1 DEF OthersEarlier, Says
    <3> QED
      BY <3>2, <3>3
  <2> QED
    BY <2>2 DEF OriginInv
<1>4. CASE ~l.http
  <2>1. headers' = Append(headers, l)
    BY <1>4 DEF Saved
  <2>2. /\ DOMAIN headers' = 1..(m + 1) /\ Len(headers') = m + 1
        /\ headers'[m + 1] = l /\ \A g \in 1..m : headers'[g] = headers[g]
    <3>1. /\ Len(Append(headers, l)) = m + 1
          /\ DOMAIN Append(headers, l) = 1..(m + 1)
      OBVIOUS
    <3>2. Append(headers, l)[m + 1] = l
      OBVIOUS
    <3>3. \A g \in 1..m : Append(headers, l)[g] = headers[g]
      OBVIOUS
    <3> HIDE DEF m
    <3> QED
      BY <2>1, <3>1, <3>2, <3>3, Zenon
  <2>3. Earlier' = Earlier
    <3>1. m + 1 - (Cardinality(Kept) + 1) = m - Cardinality(Kept)
      BY <1>1, <1>2, <1>4
    <3>2. Earlier' = 1..(Len(headers') - Cardinality(Kept'))
      BY DEF Earlier
    <3> QED
      BY <1>2, <1>4, <2>2, <3>1, <3>2 DEF Earlier
  <2> HIDE DEF n, m
  <2>4. ASSUME NEW kind \in Kinds
        PROVE  NewestKept(kind)'
    <3> SUFFICES ASSUME NEW i \in Kept', Says(heard'[i], kind),
                        \A j \in Kept' : j > i => ~Says(heard'[j], kind)
                 PROVE  \E h \in DOMAIN headers' :
                          headers'[h] = heard'[i]
                            /\ \A g \in DOMAIN headers' : g > h => ~Says(headers'[g], kind)
      BY DEF NewestKept, Says
    <3>1. CASE i = n + 1
      <4>1. m + 1 \in DOMAIN headers' /\ \A g \in DOMAIN headers' : ~(g > m + 1)
        BY <1>1, <2>2
      <4> QED
        BY <1>2, <1>4, <2>2, <3>1, <4>1
    <3>2. CASE i # n + 1
      <4>1. i \in Kept /\ n + 1 > i /\ heard'[i] = heard[i]
        BY <1>2, <1>4, <3>2
      <4>2. ~Says(l, kind)
        BY <1>2, <1>4, <4>1
      <4>3. \A j \in Kept : j > i => ~Says(heard[j], kind)
        BY <1>2, <1>4
      <4>4. PICK h \in DOMAIN headers :
              headers[h] = heard[i] /\ \A g \in DOMAIN headers : g > h => ~Says(headers[g], kind)
        BY <4>1, <4>3 DEF OriginInv, NewestKept
      <4>5. h \in DOMAIN headers' /\ headers'[h] = heard'[i]
        BY <1>1, <2>2, <4>1, <4>4
      <4>6. ASSUME NEW g \in DOMAIN headers', g > h
            PROVE  ~Says(headers'[g], kind)
        BY <1>1, <2>2, <4>2, <4>4, <4>6
      <4> QED
        BY <4>5, <4>6
    <3> QED
      BY <3>1, <3>2
  <2>5. ASSUME NEW kind \in Kinds
        PROVE  OthersEarlier(kind)'
    <3> SUFFICES ASSUME \A i \in Kept' : ~Says(heard'[i], kind),
                        NEW g \in DOMAIN headers', Says(headers'[g], kind)
                 PROVE  g \in Earlier'
      BY DEF OthersEarlier, Says
    <3>1. ~Says(l, kind) /\ \A i \in Kept : ~Says(heard[i], kind)
      BY <1>2, <1>4
    <3>2. g \in DOMAIN headers /\ Says(headers[g], kind)
      BY <1>1, <2>2, <3>1
    <3> QED
      BY <2>3, <3>1, <3>2 DEF OriginInv, OthersEarlier
  <2> QED
    BY <2>4, <2>5 DEF OriginInv
<1> QED
  BY <1>3, <1>4

LEMMA OriginKept ==
    ASSUME OriginInv, UNCHANGED <<headers, heard>>
    PROVE  OriginInv'
<1>1. Kept' = Kept
  BY DEF Kept
<1>2. Earlier' = Earlier
  BY <1>1 DEF Earlier
<1> QED
  BY <1>1, <1>2 DEF OriginInv, NewestKept, OthersEarlier, Says

LEMMA OriginNext == TypeInv /\ OriginInv /\ [Next]_vars => OriginInv'
<1> SUFFICES ASSUME TypeInv, OriginInv, [Next]_vars
             PROVE  OriginInv'
  OBVIOUS
<1>1. headers \in Seq(HeaderLines) /\ heard \in Seq(HeaderLines)
  BY DEF TypeInv, TypeOK
<1>2. CASE Begin
  BY <1>1, <1>2, OriginBegin DEF Begin
<1>3. CASE Header
  BY <1>1, <1>3, OriginHeader DEF Header
<1>4. CASE BodyBegins \/ Redirect \/ BodyEnds \/ Breaks \/ Finish \/ Crashes
  BY <1>4, OriginKept DEF BodyBegins, Redirect, BodyEnds, Breaks, Finish, Crashes
<1>5. ASSUME NEW n \in 1..MaxBytes, Chunk(n)
      PROVE  OriginInv'
  BY <1>5, OriginKept DEF Chunk
<1>6. CASE UNCHANGED vars
  BY <1>6, OriginKept DEF vars
<1> QED
  BY <1>2, <1>3, <1>4, <1>5, <1>6 DEF Next

(* What setType makes of a sequence hangs on the last line of each kind.   *)
Saying(ss, kind) == {i \in 1..Len(ss) : Says(ss[i], kind)}
LastSaying(ss, kind) == IF Saying(ss, kind) # {} THEN Max(Saying(ss, kind)) ELSE 0

LEMMA SearchIsLast ==
    ASSUME NEW ss
    PROVE  /\ SelectLastInSeq(ss, IsDisposition) = LastSaying(ss, "disposition")
           /\ SelectLastInSeq(ss, IsContentType) = LastSaying(ss, "contentType")
<1>1. \A l : Says(l, "disposition") = IsDisposition(l) /\ Says(l, "contentType") = IsContentType(l)
  BY DEF Says
<1>2. /\ Saying(ss, "disposition") = {i \in 1..Len(ss) : IsDisposition(ss[i])}
      /\ Saying(ss, "contentType") = {i \in 1..Len(ss) : IsContentType(ss[i])}
  BY <1>1 DEF Saying
<1> QED
  BY <1>2, Zenon DEF SelectLastInSeq, LastSaying

LEMMA LastIs ==
    ASSUME NEW ss, NEW kind, Len(ss) \in Nat,
           NEW x \in Saying(ss, kind), \A y \in Saying(ss, kind) : y <= x
    PROVE  LastSaying(ss, kind) = x /\ x # 0
<1> DEFINE I == Saying(ss, kind)
<1>1. \A y \in I : y \in Nat /\ y # 0
  BY DEF Saying
<1> HIDE DEF I
<1>2. x \in I /\ \A y \in I : y <= x
  BY DEF I
<1>3. Max(I) = x
  BY <1>1, <1>2 DEF Max
<1> QED
  BY <1>1, <1>2, <1>3 DEF I, LastSaying

LEMMA SameType ==
    ASSUME NEW ss, NEW tt, NEW u,
           \A kind \in Kinds :
              \/ LastSaying(ss, kind) = 0 /\ LastSaying(tt, kind) = 0
              \/ /\ LastSaying(ss, kind) # 0 /\ LastSaying(tt, kind) # 0
                 /\ ss[LastSaying(ss, kind)] = tt[LastSaying(tt, kind)]
    PROVE  SetType(ss, u) = SetType(tt, u)
<1>1. "disposition" \in Kinds /\ "contentType" \in Kinds
  BY DEF Kinds
<1> QED
  BY <1>1, SearchIsLast, Zenon DEF SetType

(* The last line of a kind is the same in the vector and in the response   *)
(* alone, if the response has one, or the redirects had none.              *)
LEMMA SameLast ==
    ASSUME TypeInv, OriginInv, NEW kind \in Kinds,
           (\E i \in Earlier : Says(headers[i], kind)) => \E j \in Kept : Says(heard[j], kind)
    PROVE  \/ LastSaying(headers, kind) = 0 /\ LastSaying(LastResponse, kind) = 0
           \/ /\ LastSaying(headers, kind) # 0 /\ LastSaying(LastResponse, kind) # 0
              /\ headers[LastSaying(headers, kind)] = LastResponse[LastSaying(LastResponse, kind)]
<1>1. headers \in Seq(HeaderLines) /\ heard \in Seq(HeaderLines)
  BY DEF TypeInv, TypeOK
<1>2. /\ Len(headers) \in Nat /\ DOMAIN headers = 1..Len(headers)
      /\ Len(heard) \in Nat /\ DOMAIN heard = 1..Len(heard)
  BY <1>1
<1>3. /\ DOMAIN LastResponse = 1..Len(heard)
      /\ \A i \in 1..Len(heard) : LastResponse[i] = IF i \in Kept THEN heard[i] ELSE NoHeader
  BY <1>2 DEF LastResponse
<1>4. Len(LastResponse) = Len(heard)
  <2>1. LastResponse = [i \in 1..Len(heard) |-> IF i \in Kept THEN heard[i] ELSE NoHeader]
    BY <1>2 DEF LastResponse
  <2> QED
    BY <1>2, <2>1
<1>5. Kept \in SUBSET (1..Len(heard))
  BY <1>2 DEF Kept
<1>6. ~Says(NoHeader, kind)
  BY DEF Says, NoHeader, IsDisposition, IsContentType
<1>7. Saying(LastResponse, kind) = {i \in Kept : Says(heard[i], kind)}
  BY <1>3, <1>4, <1>5, <1>6 DEF Saying
<1>8. CASE \E j \in Kept : Says(heard[j], kind)
  <2> DEFINE S == {i \in Kept : Says(heard[i], kind)}
  <2>1. PICK x \in S : \A y \in S : x >= y
    <3>1. S \in SUBSET (1..Len(heard)) /\ S # {}
      BY <1>5, <1>8
    <3> HIDE DEF S
    <3> QED
      BY <1>2, <3>1, GreatestBelow
  <2>2. x \in Kept /\ Says(heard[x], kind) /\ \A j \in Kept : j > x => ~Says(heard[j], kind)
    BY <1>2, <1>5, <2>1
  <2>3. LastSaying(LastResponse, kind) = x /\ x # 0
    <3>1. x \in Saying(LastResponse, kind) /\ \A y \in Saying(LastResponse, kind) : y <= x
      BY <1>2, <1>5, <1>7, <2>1
    <3> QED
      BY <1>2, <1>4, <3>1, LastIs
  <2>4. LastResponse[x] = heard[x]
    BY <1>3, <1>5, <2>2
  <2>5. PICK h \in DOMAIN headers :
          headers[h] = heard[x] /\ \A g \in DOMAIN headers : g > h => ~Says(headers[g], kind)
    BY <2>2 DEF OriginInv, NewestKept
  <2>6. h \in Saying(headers, kind) /\ \A g \in Saying(headers, kind) : g <= h
    BY <1>2, <2>2, <2>5 DEF Saying
  <2>7. LastSaying(headers, kind) = h /\ h # 0
    BY <1>2, <2>6, LastIs
  <2> QED
    BY <2>3, <2>4, <2>5, <2>7
<1>9. CASE ~\E j \in Kept : Says(heard[j], kind)
  <2>1. \A g \in DOMAIN headers : ~Says(headers[g], kind)
    BY <1>9 DEF OriginInv, OthersEarlier
  <2>2. Saying(headers, kind) = {} /\ Saying(LastResponse, kind) = {}
    BY <1>2, <1>7, <1>9, <2>1 DEF Saying
  <2> QED
    BY <2>2 DEF LastSaying
<1> QED
  BY <1>8, <1>9

(* However often a transfer is redirected, and whatever the redirects say: *)
(* a header of theirs does not count against one of the last response.     *)
THEOREM LastResponseCounts == Spec => []LastResponseDecides
<1>1. TypeInv /\ VectorInv /\ OriginInv => LastResponseDecides
  <2> SUFFICES ASSUME TypeInv, VectorInv, OriginInv, phase = "done",
                      Superseded(IsDisposition), Superseded(IsContentType)
               PROVE  type = SetType(LastResponse, url)
    BY DEF LastResponseDecides
  <2>1. type = SetType(headers, url)
    BY DEF VectorInv
  <2>2. ASSUME NEW kind \in Kinds
        PROVE  (\E i \in Earlier : Says(headers[i], kind)) => \E j \in Kept : Says(heard[j], kind)
    <3>1. CASE kind = "disposition"
      BY <3>1 DEF Superseded, Says
    <3>2. CASE kind = "contentType"
      BY <3>2 DEF Superseded, Says
    <3> QED
      BY <3>1, <3>2 DEF Kinds
  <2>3. SetType(headers, url) = SetType(LastResponse, url)
    BY <2>2, SameLast, SameType
  <2> QED
    BY <2>1, <2>3
<1> QED
  BY TypeInit, TypeNext, VectorInit, VectorNext, OriginInit, OriginNext, <1>1, PTL DEF Spec

-----------------------------------------------------------------------------
(* The number of steps left.  Redirects to come count in whole responses,  *)
(* so following one makes up for the new response it brings.               *)
LineBound == Len(heard) \in 0..MaxLines

LEMMA LineBoundInit == Init => LineBound
BY TransferAssumption DEF Init, LineBound

LEMMA LineBoundNext == TypeInv /\ LineBound /\ [Next]_vars => LineBound'
<1> SUFFICES ASSUME TypeInv, LineBound, [Next]_vars
             PROVE  LineBound'
  OBVIOUS
<1>1. heard' = heard \/ heard' = <<>> \/
        \E l \in HeaderLines : heard' = Append(heard, l) /\ Len(heard) < MaxLines
  BY DEF Next, Begin, Header, BodyBegins, Redirect, Chunk, BodyEnds, Breaks, Finish, Crashes, vars
<1>2. heard \in Seq(HeaderLines)
  BY DEF TypeInv, TypeOK
<1>3. Len(heard') \in {Len(heard), 0} \/ (Len(heard') = Len(heard) + 1 /\ Len(heard) < MaxLines)
  BY <1>1, <1>2
<1>4. MaxLines \in Nat
  BY TransferAssumption
<1> QED
  BY <1>3, <1>4 DEF LineBound

LEMMA Responses ==
    ASSUME NEW d \in Nat, NEW k \in Nat
    PROVE  d * k \in Nat /\ (d + 1) * k = d * k + k
OBVIOUS

(* With the bounds of the variables, the steps that a response has left    *)
(* are a natural number, and there is one unless the transfer is over.     *)
CountOK == StepsOfThis \in 0..ResponseSteps /\ (phase \notin Ended => StepsOfThis >= 1)

LEMMA Counting == TypeInv /\ LineBound => CountOK
<1> SUFFICES ASSUME TypeInv, LineBound
             PROVE  CountOK
  OBVIOUS
<1>1. MaxLines \in Nat /\ MaxBytes \in Nat
  BY TransferAssumption
<1>2. sent \in 0..MaxBytes /\ Len(heard) \in 0..MaxLines /\ phase \in Phases
  BY DEF TypeInv, TypeOK, LineBound
<1> QED
  BY <1>1, <1>2 DEF CountOK, StepsOfThis, ResponseSteps, Phases, Ended

LEMMA FewerOfThis ==
    ASSUME TypeInv, CountOK, CountOK', UNCHANGED redirs, StepsOfThis' < StepsOfThis
    PROVE  StepsLeft' \in 0..(StepsLeft - 1)
<1>1. ResponseSteps \in Nat /\ MaxRedirs - redirs \in Nat
  <2>1. redirs \in 0..MaxRedirs
    BY DEF TypeInv, TypeOK
  <2> QED
    BY <2>1, TransferAssumption DEF ResponseSteps
<1>2. (MaxRedirs - redirs) * ResponseSteps \in Nat
  BY <1>1, Responses
<1>3. StepsOfThis \in Nat /\ StepsOfThis' \in Nat
  <2>1. ResponseSteps' = ResponseSteps
    BY DEF ResponseSteps
  <2> QED
    BY <1>1, <2>1 DEF CountOK
<1>4. StepsLeft' = (MaxRedirs - redirs) * ResponseSteps + StepsOfThis'
  BY DEF StepsLeft, ResponseSteps
<1> QED
  BY <1>2, <1>3, <1>4 DEF StepsLeft

LEMMA OneResponseFewer ==
    ASSUME TypeInv, CountOK, phase = "headers", phase' = "start",
           redirs < MaxRedirs, redirs' = redirs + 1, LineBound
    PROVE  StepsLeft' \in 0..(StepsLeft - 1)
<1> DEFINE d == MaxRedirs - (redirs + 1)
<1>1. ResponseSteps \in Nat /\ d \in Nat /\ MaxRedirs - redirs = d + 1
  <2>1. redirs \in 0..MaxRedirs
    BY DEF TypeInv, TypeOK
  <2> QED
    BY <2>1, TransferAssumption DEF ResponseSteps
<1>2. d * ResponseSteps \in Nat /\ (d + 1) * ResponseSteps = d * ResponseSteps + ResponseSteps
  BY <1>1, Responses
<1>3. StepsOfThis \in Nat /\ StepsOfThis >= 1
  BY <1>1 DEF CountOK, Ended
<1>4. StepsLeft = d * ResponseSteps + ResponseSteps + StepsOfThis
  BY <1>1, <1>2 DEF StepsLeft
<1>5. StepsLeft' = d * ResponseSteps + ResponseSteps
  BY DEF StepsLeft, StepsOfThis, ResponseSteps
<1> HIDE DEF d
<1> QED
  BY <1>1, <1>2, <1>3, <1>4, <1>5

LEMMA FewerSteps ==
    TypeInv /\ LineBound /\ CountOK /\ TypeInv' /\ LineBound' /\ CountOK' /\ [Next]_vars =>
        [StepsLeft' \in 0..(StepsLeft - 1)]_vars
<1> SUFFICES ASSUME TypeInv, LineBound, CountOK, LineBound', CountOK', Next
             PROVE  StepsLeft' \in 0..(StepsLeft - 1)
  OBVIOUS
<1>1. MaxLines \in Nat /\ MaxBytes \in Nat /\ MaxRedirs \in Nat
  BY TransferAssumption
<1>2. sent \in 0..MaxBytes /\ Len(heard) \in 0..MaxLines /\ heard \in Seq(HeaderLines)
  BY DEF TypeInv, TypeOK, LineBound
<1>3. CASE Begin
  <2>1. phase = "start" /\ phase' = "headers" /\ heard' = <<>> /\ UNCHANGED redirs
    BY <1>3 DEF Begin
  <2>2. Len(heard') = 0
    BY <2>1
  <2>3. StepsOfThis' = MaxLines - 0 + MaxBytes + 3 /\ StepsOfThis = MaxLines + MaxBytes + 4
    BY <2>1, <2>2 DEF StepsOfThis, ResponseSteps
  <2>4. StepsOfThis' < StepsOfThis
    BY <1>1, <2>3
  <2> QED
    BY <2>1, <2>4, FewerOfThis
<1>4. CASE Header
  <2>1. PICK l \in HeaderLines : heard' = Append(heard, l)
    BY <1>4 DEF Header
  <2>2. phase = "headers" /\ phase' = "headers" /\ UNCHANGED redirs
    BY <1>4 DEF Header
  <2>3. Len(heard') = Len(heard) + 1
    BY <1>2, <2>1
  <2>4. StepsOfThis' < StepsOfThis
    BY <1>1, <1>2, <2>2, <2>3 DEF StepsOfThis
  <2> QED
    BY <2>2, <2>4, FewerOfThis
<1>5. CASE BodyBegins
  <2>1. phase = "headers" /\ phase' = "body" /\ UNCHANGED <<redirs, sent>>
    BY <1>5 DEF BodyBegins
  <2>2. StepsOfThis' < StepsOfThis
    BY <1>1, <1>2, <2>1 DEF StepsOfThis
  <2> QED
    BY <2>1, <2>2, FewerOfThis
<1>6. CASE Redirect
  <2>1. CASE redirs < MaxRedirs /\ redirs' = redirs + 1 /\ phase' = "start"
    BY <1>6, <2>1, OneResponseFewer DEF Redirect
  <2>2. CASE UNCHANGED redirs /\ phase' = "failed"
    <3>1. phase = "headers"
      BY <1>6 DEF Redirect
    <3>2. StepsOfThis' < StepsOfThis
      BY <1>1, <1>2, <2>2, <3>1 DEF StepsOfThis
    <3> QED
      BY <2>2, <3>2, FewerOfThis
  <2> QED
    BY <1>6, <2>1, <2>2 DEF Redirect
<1>7. ASSUME NEW n \in 1..MaxBytes, Chunk(n)
      PROVE  StepsLeft' \in 0..(StepsLeft - 1)
  <2>1. /\ phase = "body" /\ phase' \in {"body", "short"}
        /\ sent' = sent + n /\ sent + n <= MaxBytes /\ UNCHANGED redirs
    BY <1>7 DEF Chunk
  <2>2. StepsOfThis' < StepsOfThis
    <3>1. StepsOfThis = MaxBytes - sent + 2
      BY <2>1 DEF StepsOfThis
    <3>2. StepsOfThis' \in {MaxBytes - (sent + n) + 2, 1}
      BY <2>1 DEF StepsOfThis
    <3> QED
      BY <1>1, <1>2, <2>1, <3>1, <3>2
  <2> QED
    BY <2>1, <2>2, FewerOfThis
<1>8. CASE BodyEnds
  <2>1. phase = "body" /\ phase' = "received" /\ UNCHANGED redirs
    BY <1>8 DEF BodyEnds
  <2>2. StepsOfThis' < StepsOfThis
    BY <1>1, <1>2, <2>1 DEF StepsOfThis
  <2> QED
    BY <2>1, <2>2, FewerOfThis
<1>9. CASE Breaks \/ Finish \/ Crashes
  <2>1. phase \notin Ended /\ phase' \in Ended /\ UNCHANGED redirs
    BY <1>9 DEF Breaks, Finish, Crashes, Ended
  <2>2. StepsOfThis' = 0 /\ StepsOfThis >= 1 /\ StepsOfThis \in Nat
    <3>1. StepsOfThis' = 0
      BY <2>1 DEF StepsOfThis, Ended
    <3>2. ResponseSteps \in Nat
      BY <1>1 DEF ResponseSteps
    <3> QED
      BY <2>1, <3>1, <3>2 DEF CountOK
  <2>3. StepsOfThis' < StepsOfThis
    BY <2>2
  <2> QED
    BY <2>1, <2>3, FewerOfThis
<1> QED
  BY <1>3, <1>4, <1>5, <1>6, <1>7, <1>8, <1>9 DEF Next

(* No transfer runs in circles: with whatever limits, and whatever comes   *)
(* from the server, each step is one of a number fixed at the start.       *)
THEOREM TransferIsBounded == Spec => StepsRunOut
<1>1. Spec => [](TypeInv /\ LineBound /\ CountOK)
  BY TypeInit, TypeNext, LineBoundInit, LineBoundNext, Counting, PTL DEF Spec
<1> QED
  BY <1>1, FewerSteps, PTL DEF Spec, StepsRunOut
=============================================================================
