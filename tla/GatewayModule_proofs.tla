------------------------- MODULE GatewayModule_proofs -------------------------
(***************************************************************************)
(* Proofs about GatewayModule, for any set of configurations.              *)
(***************************************************************************)
EXTENDS GatewayModule, TLAPS

CONSTANTS Lower, WithTail, Cut, TypeMatch, ModuleOrder  \* of TypeDetection; any values

-----------------------------------------------------------------------------
(* Types.                                                                  *)
LEMMA KeysType ==
    ASSUME keys \in Configurations
    PROVE  /\ keys.whiteList \subseteq Texts
           /\ keys.mimeTypes \in Seq((MimeModules \X Texts) \cup {None})
           /\ keys.proxyHost \in Texts /\ keys.proxyPort \in Int \cup {None}
           /\ keys.proxyUser \in Texts /\ keys.proxyPassword \in Texts
           /\ keys.proxyUserPW \in Texts
           /\ keys.noProxy \subseteq Urls
<1>1. keys \in Keys
  BY ModuleAssumption
<1> QED
  BY <1>1, SMTT(30) DEF Keys

LEMMA OptionsType ==
    ASSUME NEW h \in Texts, NEW n \in Int, NEW a \in AuthTypes,
           NEW us \in Texts, NEW pw \in Texts, NEW up \in Texts
    PROVE  [proxy |-> h, port |-> n, auth |-> a, user |-> us, password |-> pw, userPW |-> up]
             \in ProxyOptions
BY DEF ProxyOptions

LEMMA SettingsType ==
    ASSUME NEW h \in Texts, NEW n \in Int, NEW a \in AuthTypes,
           NEW us \in Texts, NEW pw \in Texts, NEW up \in Texts, NEW x \in SUBSET Urls
    PROVE  [host |-> h, port |-> n, user |-> us, password |-> pw, userPW |-> up,
            authType |-> a, noProxy |-> x] \in ProxySettings
BY DEF ProxySettings

LEMMA NoValues == NoSettings \in ProxySettings /\ NoOptions \in ProxyOptions
<1>1. 0 \in Int
  OBVIOUS
<1>2. "" \in Texts /\ "none" \in AuthTypes /\ {} \in SUBSET Urls
  BY ModuleAssumption DEF AuthTypes
<1> QED
  BY <1>1, <1>2, OptionsType, SettingsType DEF NoSettings, NoOptions

LEMMA ConfigureProxyType ==
    ASSUME TypeOK, NEW u PROVE ConfigureProxy(u) \in ProxyOptions
<1>1. /\ Proxy.host \in Texts /\ Proxy.port \in Int /\ Proxy.authType \in AuthTypes
      /\ Proxy.user \in Texts /\ Proxy.password \in Texts /\ Proxy.userPW \in Texts
  BY DEF TypeOK, ProxySettings
<1>2. "" \in Texts
  BY ModuleAssumption
<1>3. \A n \in Int : (IF n = 0 THEN 8080 ELSE n) \in Int
  OBVIOUS
<1>4. CASE Proxy.host = "" \/ u \in Proxy.noProxy
  BY <1>4, NoValues DEF ConfigureProxy
<1>5. CASE ~(Proxy.host = "" \/ u \in Proxy.noProxy)
  <2> DEFINE port == IF Proxy.port = 0 THEN 8080 ELSE Proxy.port
             password == IF Proxy.user = "" THEN "" ELSE Proxy.password
             userPW == IF Proxy.user = "" THEN Proxy.userPW ELSE ""
  <2>1. port \in Int
    BY <1>1, <1>3
  <2>2. password \in Texts /\ userPW \in Texts
    BY <1>1, <1>2, Zenon
  <2>3. ConfigureProxy(u) = [proxy |-> Proxy.host, port |-> port, auth |-> Proxy.authType,
                             user |-> Proxy.user, password |-> password, userPW |-> userPW]
    BY <1>5, Zenon DEF ConfigureProxy
  <2> HIDE DEF port, password, userPW
  <2> QED
    BY <1>1, <2>1, <2>2, <2>3, OptionsType
<1> QED
  BY <1>4, <1>5

LEMMA TypeInit == Init => TypeOK
<1> SUFFICES ASSUME Init PROVE TypeOK
  OBVIOUS
<1>1. keys \in Configurations /\ next = 1
  BY DEF Init
<1>2. next \in 1..Len(keys.mimeTypes) + 1
  <2>1. keys.mimeTypes \in Seq((MimeModules \X Texts) \cup {None})
    BY <1>1, KeysType
  <2> QED
    BY <1>1, <2>1
<1>3. MimeList \in [MimeModules -> Texts]
  BY ModuleAssumption DEF Init
<1>4. /\ url \in [Resources -> Urls \cup {None}]
      /\ handle \in [Resources -> ProxyOptions]
      /\ \A r \in Resources : ~Live(r) => handle[r] = NoOptions
  BY NoValues DEF Init
<1>5. /\ phase \in Phases /\ registered \subseteq Parts /\ WhiteList \subseteq Texts
      /\ instance \in BOOLEAN /\ named \subseteq {r \in Resources : Live(r)}
  BY DEF Init, Phases, Starting
<1>6. Proxy \in ProxySettings
  BY NoValues DEF Init
<1> QED
  BY <1>1, <1>2, <1>3, <1>4, <1>5, <1>6 DEF TypeOK

LEMMA TypeNext == TypeOK /\ [Next]_vars => TypeOK'
<1> SUFFICES ASSUME TypeOK, [Next]_vars PROVE TypeOK'
  OBVIOUS
<1>0. keys \in Configurations
  BY DEF TypeOK
<1>1. CASE AddHandler \/ AddStorage \/ AddDebugContext
  BY <1>1 DEF AddHandler, AddStorage, AddDebugContext, Register, TypeOK, Live, loaded, requests,
              Phases, Starting, Parts
<1>2. CASE ReadWhiteList
  <2>1. keys.whiteList \subseteq Texts
    BY <1>0, KeysType
  <2> QED
    BY <1>2, <2>1 DEF ReadWhiteList, TypeOK, Live, requests, Phases, Starting
<1>3. CASE ReadMimeType
  <2>1. keys.mimeTypes \in Seq((MimeModules \X Texts) \cup {None})
    BY <1>0, KeysType
  <2>2. CASE keys.mimeTypes[next] = None
    BY <1>3, <2>2 DEF ReadMimeType, TypeOK, Live, requests, Phases
  <2>3. CASE keys.mimeTypes[next] # None
    <3>1. next \in 1..Len(keys.mimeTypes) /\ Len(keys.mimeTypes) \in Nat
      BY <1>3, <2>1 DEF ReadMimeType, TypeOK
    <3>2. keys.mimeTypes[next] \in MimeModules \X Texts
      BY <2>1, <2>3, <3>1
    <3>3. MimeList' \in [MimeModules -> Texts]
      BY <1>3, <2>3, <3>2 DEF ReadMimeType, TypeOK
    <3>4. next' \in 1..Len(keys.mimeTypes) + 1
      BY <1>3, <2>3, <3>1 DEF ReadMimeType
    <3> QED
      BY <1>3, <2>3, <3>3, <3>4 DEF ReadMimeType, TypeOK, Live, requests
  <2> QED
    BY <2>2, <2>3
<1>4. CASE MimeTypesRead
  BY <1>4 DEF MimeTypesRead, TypeOK, Live, loaded, requests, Phases, Starting
<1>5. CASE ReadProxy
  <2>1. Proxy' \in ProxySettings
    <3>1. AuthType(keys) \in AuthTypes
      BY DEF AuthType, AuthTypes
    <3>2. CASE keys.proxyHost = ""
      <4>1. Proxy' = [Proxy EXCEPT !.noProxy = keys.noProxy]
        BY <1>5, <3>2 DEF ReadProxy
      <4> QED
        BY <1>0, <4>1, KeysType DEF TypeOK, ProxySettings
    <3>3. CASE keys.proxyHost # ""
      <4> DEFINE port == IF keys.proxyPort = None THEN 0 ELSE keys.proxyPort
      <4>1. Proxy' = [host |-> keys.proxyHost, port |-> port, user |-> keys.proxyUser,
                      password |-> keys.proxyPassword, userPW |-> keys.proxyUserPW,
                      authType |-> AuthType(keys), noProxy |-> keys.noProxy]
        BY <1>5, <3>3, Zenon DEF ReadProxy
      <4>2. port \in Int
        BY <1>0, KeysType
      <4>3. /\ keys.proxyHost \in Texts /\ keys.proxyUser \in Texts
            /\ keys.proxyPassword \in Texts /\ keys.proxyUserPW \in Texts
            /\ keys.noProxy \in SUBSET Urls
        BY <1>0, KeysType
      <4> HIDE DEF port
      <4> QED
        BY <3>1, <4>1, <4>2, <4>3, SettingsType
    <3> QED
      BY <3>2, <3>3
  <2> QED
    BY <1>5, <2>1 DEF ReadProxy, TypeOK, Live, requests, Phases, Starting
<1>6. CASE ProxyInvalid
  <2>1. Proxy' \in ProxySettings
    BY <1>0, <1>6, KeysType DEF ProxyInvalid, TypeOK, ProxySettings
  <2> QED
    BY <1>6, <2>1 DEF ProxyInvalid, TypeOK, Live, requests, Phases
<1>7. CASE Terminate
  BY <1>7 DEF Terminate, TypeOK, Live, loaded, requests, Phases
<1>8. ASSUME NEW r \in Resources, NEW u \in Urls, Access(r, u)
      PROVE  TypeOK'
  <2>1. u # None
    BY ModuleAssumption
  <2>2. /\ url' \in [Resources -> Urls \cup {None}]
        /\ \A s \in Resources : Live(s)' <=> s = r \/ Live(s)
    BY <1>8, <2>1 DEF Access, TypeOK, Live
  <2>3. /\ handle' \in [Resources -> ProxyOptions]
        /\ \A s \in Resources : ~Live(s)' => handle'[s] = NoOptions
    BY <1>8, <2>2, ConfigureProxyType DEF Access, TypeOK
  <2>4. instance' \in BOOLEAN /\ phase' \in Phases /\ named' \subseteq named \cup {r}
    BY <1>8 DEF Access, GetInstance, GetInstanceThrows, TypeOK, Phases
  <2>5. named' \subseteq {s \in Resources : Live(s)'}
    BY <2>2, <2>4 DEF TypeOK
  <2> QED
    BY <1>8, <2>2, <2>3, <2>4, <2>5 DEF Access, TypeOK, loaded, Live
<1>9. ASSUME NEW r \in Resources, Delete(r)
      PROVE  TypeOK'
  <2>1. instance' \in BOOLEAN /\ phase' \in Phases
    BY <1>9 DEF Delete, GetInstance, TypeOK, Phases
  <2>2. CASE UNCHANGED <<url, handle, named>>
    BY <1>9, <2>1, <2>2 DEF Delete, TypeOK, loaded, Live
  <2>3. CASE /\ url' = [url EXCEPT ![r] = None]
             /\ handle' = [handle EXCEPT ![r] = NoOptions]
             /\ named' = named \ {r}
    BY <1>9, <2>1, <2>3, NoValues DEF Delete, TypeOK, loaded, Live
  <2> QED
    BY <1>9, <2>2, <2>3 DEF Delete
<1>10. CASE UNCHANGED vars
  BY <1>10 DEF vars, loaded, requests, TypeOK, Live
<1> QED
  BY <1>1, <1>2, <1>3, <1>4, <1>5, <1>6, <1>7, <1>8, <1>9, <1>10 DEF Next

(* All variables keep their types, for any configurations.                 *)
THEOREM ModuleTypeCorrect == Spec => []TypeOK
BY TypeInit, TypeNext, PTL DEF Spec

-----------------------------------------------------------------------------
(* What has been read of the configuration in each phase of the start.     *)
Serving == {"running", "crashed"}

PartsInv ==
    /\ phase = "addHandler" => registered = {}
    /\ phase = "addStorage" => registered = {"handler"}
    /\ phase \in {"whiteList", "mimeTypes", "proxy", "register"} => registered = {"handler", "storage"}
    /\ phase \in Serving => registered = Parts

WhiteListInv ==
    phase \in {"mimeTypes", "proxy", "register"} \cup Serving =>
        WhiteList = keys.whiteList /\ WhiteList # {}

(* The loop over MimeTypes: the entries before next are well formed, and a *)
(* module has the content type of its last entry so far, if it has one.    *)
LastEntry(m, i) ==
    /\ keys.mimeTypes[i] = <<m, MimeList[m]>>
    /\ \A j \in 1..next - 1 : j > i => keys.mimeTypes[j][1] # m

NoEntry(m) == MimeList[m] = "" /\ \A j \in 1..next - 1 : keys.mimeTypes[j][1] # m

MimeInv ==
    /\ \A i \in 1..next - 1 : keys.mimeTypes[i] # None
    /\ \A m \in MimeModules : NoEntry(m) \/ \E i \in 1..next - 1 : LastEntry(m, i)
    /\ phase \in {"proxy", "register"} \cup Serving => next = Len(keys.mimeTypes) + 1

PortInv == phase \in {"register"} \cup Serving => ~BadPort

LoadInv == PartsInv /\ WhiteListInv /\ MimeInv /\ PortInv

LEMMA LoadInit == Init => LoadInv
<1> SUFFICES ASSUME Init PROVE LoadInv
  OBVIOUS
<1>1. 1..next - 1 = {}
  <2>1. next = 1
    BY DEF Init
  <2> QED
    BY <2>1
<1>2. MimeInv
  BY <1>1 DEF Init, MimeInv, NoEntry, Serving
<1> QED
  BY <1>2 DEF Init, LoadInv, PartsInv, WhiteListInv, PortInv, Serving

LEMMA MimeUnchanged ==
    ASSUME MimeInv, UNCHANGED <<keys, next, MimeList>>,
           phase' \in {"proxy", "register"} \cup Serving =>
             phase \in {"proxy", "register"} \cup Serving \/ next = Len(keys.mimeTypes) + 1
    PROVE  MimeInv'
<1>1. \A m \in MimeModules : (NoEntry(m)' <=> NoEntry(m))
  BY Zenon DEF NoEntry
<1>2. \A m \in MimeModules : \A i : (LastEntry(m, i)' <=> LastEntry(m, i))
  BY Zenon DEF LastEntry
<1> QED
  BY <1>1, <1>2, Zenon DEF MimeInv

\* The start is over, or the step does not touch it.
LEMMA LoadUnchanged ==
    ASSUME LoadInv, UNCHANGED <<keys, next, registered, WhiteList, MimeList>>,
           \/ phase' = phase \/ phase' \in {"failed", "ended"}
           \/ phase \in Serving /\ phase' \in Serving
    PROVE  LoadInv'
<1>1. PartsInv' /\ WhiteListInv'
  BY DEF LoadInv, PartsInv, WhiteListInv, Serving
<1>2. MimeInv'
  <2>1. phase' \in {"proxy", "register"} \cup Serving => phase \in {"proxy", "register"} \cup Serving
    BY DEF Serving
  <2> QED
    BY <2>1, MimeUnchanged DEF LoadInv
<1>3. PortInv'
  BY DEF LoadInv, PortInv, BadPort, Serving
<1> QED
  BY <1>1, <1>2, <1>3 DEF LoadInv

(* One turn of the loop: the new entry is the last of its module, and the  *)
(* other modules keep theirs.                                              *)
LEMMA MimeStep ==
    ASSUME TypeOK, MimeInv, ReadMimeType, keys.mimeTypes[next] # None
    PROVE  MimeInv'
<1> DEFINE e == keys.mimeTypes
<1>1. e \in Seq((MimeModules \X Texts) \cup {None})
  BY KeysType DEF TypeOK
<1>2. next \in 1..Len(e) /\ Len(e) \in Nat
  BY <1>1 DEF ReadMimeType, TypeOK
<1>3. e[next] \in MimeModules \X Texts
  BY <1>1, <1>2
<1>4. next' = next + 1 /\ keys' = keys /\ phase' = phase /\ phase = "mimeTypes"
  BY DEF ReadMimeType
<1>5. MimeList' = [MimeList EXCEPT ![e[next][1]] = e[next][2]] /\ MimeList \in [MimeModules -> Texts]
  BY DEF ReadMimeType, TypeOK
<1>6. 1..next' - 1 = 1..next /\ next \in 1..next /\ 1..next - 1 = (1..next) \ {next}
  BY <1>2, <1>4
<1>7. ASSUME NEW m \in MimeModules
      PROVE  NoEntry(m)' \/ \E i \in 1..next' - 1 : LastEntry(m, i)'
  <2>1. CASE m = e[next][1]
    <3>1. PICK i \in 1..next : i = next
      BY <1>6
    <3>2. e[i] = <<m, MimeList'[m]>>
      BY <1>3, <1>5, <2>1, <3>1
    <3>3. \A j \in 1..next : ~(j > i)
      BY <1>2, <3>1
    <3>4. LastEntry(m, i)'
      BY <1>4, <1>6, <3>2, <3>3, Zenon DEF LastEntry
    <3> QED
      BY <1>6, <3>1, <3>4
  <2>2. CASE m # e[next][1]
    <3>1. MimeList'[m] = MimeList[m]
      BY <1>5, <2>2
    <3>2. ASSUME NoEntry(m) PROVE NoEntry(m)'
      <4>1. \A j \in 1..next : e[j][1] # m
        BY <1>6, <2>2, <3>2 DEF NoEntry
      <4> QED
        BY <1>4, <1>6, <3>1, <3>2, <4>1, Zenon DEF NoEntry
    <3>3. ASSUME NEW i \in 1..next - 1, LastEntry(m, i) PROVE LastEntry(m, i)'
      <4>1. \A j \in 1..next : j > i => e[j][1] # m
        BY <1>6, <2>2, <3>3 DEF LastEntry
      <4> QED
        BY <1>4, <1>6, <3>1, <3>3, <4>1, Zenon DEF LastEntry
    <3> QED
      BY <1>6, <3>2, <3>3 DEF MimeInv
  <2> QED
    BY <2>1, <2>2
<1>8. \A i \in 1..next' - 1 : e[i] # None
  BY <1>6 DEF MimeInv
<1>9. phase' \notin {"proxy", "register"} \cup Serving
  BY <1>4 DEF Serving
<1> QED
  BY <1>4, <1>7, <1>8, <1>9, Zenon DEF MimeInv

LEMMA LoadNext == TypeOK /\ LoadInv /\ [Next]_vars => LoadInv'
<1> SUFFICES ASSUME TypeOK, LoadInv, [Next]_vars PROVE LoadInv'
  OBVIOUS
<1>1. ASSUME NEW part, NEW from, NEW to, Register(part, from, to)
      PROVE  /\ UNCHANGED <<keys, next, WhiteList, MimeList>>
             /\ phase = from /\ phase' = to /\ registered' = registered \cup {part}
  BY <1>1 DEF Register, loaded
<1>2. ASSUME UNCHANGED <<keys, next, MimeList>>,
             phase' \in {"proxy", "register"} \cup Serving =>
               phase \in {"proxy", "register"} \cup Serving \/ next = Len(keys.mimeTypes) + 1
      PROVE  MimeInv'
  BY <1>2, MimeUnchanged DEF LoadInv
<1>3. CASE AddHandler \/ AddStorage
  <2>1. /\ UNCHANGED <<keys, next, WhiteList, MimeList>>
        /\ \/ phase = "addHandler" /\ phase' = "addStorage" /\ registered' = registered \cup {"handler"}
           \/ phase = "addStorage" /\ phase' = "whiteList" /\ registered' = registered \cup {"storage"}
    BY <1>1, <1>3 DEF AddHandler, AddStorage
  <2>2. MimeInv'
    BY <1>2, <2>1 DEF Serving
  <2> QED
    BY <2>1, <2>2 DEF LoadInv, PartsInv, WhiteListInv, PortInv, Serving
<1>4. CASE AddDebugContext
  <2>1. /\ UNCHANGED <<keys, next, WhiteList, MimeList>>
        /\ phase = "register" /\ phase' = "running" /\ registered' = registered \cup {"debug"}
    BY <1>1, <1>4 DEF AddDebugContext
  <2>2. MimeInv'
    BY <1>2, <2>1
  <2>3. registered' = Parts
    BY <2>1 DEF LoadInv, PartsInv, Parts
  <2> QED
    BY <2>1, <2>2, <2>3 DEF LoadInv, PartsInv, WhiteListInv, PortInv, BadPort, Serving
<1>5. CASE ReadWhiteList
  <2>1. MimeInv'
    BY <1>2, <1>5 DEF ReadWhiteList, Serving
  <2> QED
    BY <1>5, <2>1 DEF ReadWhiteList, LoadInv, PartsInv, WhiteListInv, PortInv, Serving
<1>6. CASE ReadMimeType
  <2>1. CASE keys.mimeTypes[next] = None
    <3>1. /\ UNCHANGED <<keys, next, registered, WhiteList, MimeList>>
          /\ phase' = "failed"
      BY <1>6, <2>1 DEF ReadMimeType
    <3> QED
      BY <3>1, LoadUnchanged
  <2>2. CASE keys.mimeTypes[next] # None
    <3>1. MimeInv'
      BY <1>6, <2>2, MimeStep DEF LoadInv
    <3>2. UNCHANGED <<keys, phase, registered, WhiteList>>
      BY <1>6, <2>2 DEF ReadMimeType
    <3> QED
      BY <3>1, <3>2 DEF LoadInv, PartsInv, WhiteListInv, PortInv, BadPort
  <2> QED
    BY <2>1, <2>2
<1>7. CASE MimeTypesRead
  <2>1. /\ UNCHANGED <<keys, next, registered, WhiteList, MimeList>>
        /\ phase = "mimeTypes" /\ phase' = "proxy"
    BY <1>7 DEF MimeTypesRead, loaded
  <2>2. next = Len(keys.mimeTypes) + 1
    <3>1. keys.mimeTypes \in Seq((MimeModules \X Texts) \cup {None})
      BY KeysType DEF TypeOK
    <3> QED
      BY <1>7, <3>1 DEF MimeTypesRead, TypeOK
  <2>3. MimeInv'
    BY <1>2, <2>1, <2>2
  <2> QED
    BY <2>1, <2>3 DEF LoadInv, PartsInv, WhiteListInv, PortInv, Serving
<1>8. CASE ReadProxy
  <2>1. /\ UNCHANGED <<keys, next, registered, WhiteList, MimeList>>
        /\ phase = "proxy" /\ phase' = "register" /\ ~BadPort
    BY <1>8 DEF ReadProxy
  <2>2. MimeInv'
    BY <1>2, <2>1
  <2> QED
    BY <2>1, <2>2 DEF LoadInv, PartsInv, WhiteListInv, PortInv, BadPort, Serving
<1>9. CASE ProxyInvalid
  <2>1. /\ UNCHANGED <<keys, next, registered, WhiteList, MimeList>>
        /\ phase' = "failed"
    BY <1>9 DEF ProxyInvalid
  <2> QED
    BY <2>1, LoadUnchanged
<1>10. CASE Terminate
  <2>1. /\ UNCHANGED <<keys, next, WhiteList, MimeList>>
        /\ phase' = "ended"
    BY <1>10 DEF Terminate, loaded
  <2>2. MimeInv'
    BY <1>2, <2>1 DEF Serving
  <2> QED
    BY <2>1, <2>2 DEF LoadInv, PartsInv, WhiteListInv, PortInv, Serving
<1>11. ASSUME NEW r \in Resources, Delete(r) \/ \E u \in Urls : Access(r, u)
       PROVE  LoadInv'
  <2>1. /\ UNCHANGED <<keys, next, registered, WhiteList, MimeList>>
        /\ phase = "running" /\ phase' \in Serving
    BY <1>11 DEF Access, Delete, loaded, Serving
  <2> QED
    BY <2>1, LoadUnchanged DEF Serving
<1>12. CASE UNCHANGED vars
  <2>1. /\ UNCHANGED <<keys, next, registered, WhiteList, MimeList>>
        /\ phase' = phase
    BY <1>12 DEF vars, loaded
  <2> QED
    BY <2>1, LoadUnchanged
<1> QED
  BY <1>3, <1>4, <1>5, <1>6, <1>7, <1>8, <1>9, <1>10, <1>11, <1>12 DEF Next

(* Whatever the configuration is, requests are answered only after all of  *)
(* it has been read and found good, and both parts are registered.         *)
THEOREM ServesConfigured == Spec => []RunsConfigured
<1>1. TypeOK /\ LoadInv => RunsConfigured
  <2> SUFFICES ASSUME TypeOK, LoadInv, phase \in Serving
               PROVE  RunsConfigured
    BY DEF RunsConfigured, Serving
  <2>1. keys.mimeTypes \in Seq((MimeModules \X Texts) \cup {None})
    BY KeysType DEF TypeOK
  <2>2. next = Len(keys.mimeTypes) + 1
    BY DEF LoadInv, MimeInv
  <2>3. DOMAIN keys.mimeTypes = 1..next - 1
    BY <2>1, <2>2
  <2>4. ASSUME NEW i \in DOMAIN keys.mimeTypes
        PROVE  /\ keys.mimeTypes[i] # None
               /\ \/ MimeList[keys.mimeTypes[i][1]] = keys.mimeTypes[i][2]
                  \/ \E j \in DOMAIN keys.mimeTypes :
                       j > i /\ keys.mimeTypes[j][1] = keys.mimeTypes[i][1]
    <3> DEFINE m == keys.mimeTypes[i][1]
    <3>1. keys.mimeTypes[i] # None
      BY <2>3 DEF LoadInv, MimeInv
    <3>2. keys.mimeTypes[i] \in MimeModules \X Texts
      BY <2>1, <3>1
    <3>3. m \in MimeModules
      BY <3>2
    <3>4. PICK l \in 1..next - 1 : LastEntry(m, l)
      BY <2>3, <3>3 DEF LoadInv, MimeInv, NoEntry
    <3>5. CASE l > i
      BY <2>3, <3>1, <3>4, <3>5 DEF LastEntry
    <3>6. CASE ~(l > i)
      <4>1. l = i
        BY <2>2, <2>3, <3>4, <3>6 DEF LastEntry
      <4> QED
        BY <3>1, <3>4, <4>1 DEF LastEntry
    <3> QED
      BY <3>5, <3>6
  <2>5. \A m \in MimeModules : MimeList[m] # "" =>
          \E i \in DOMAIN keys.mimeTypes : keys.mimeTypes[i] = <<m, MimeList[m]>>
    BY <2>3, Zenon DEF LoadInv, MimeInv, NoEntry, LastEntry
  <2>6. registered = Parts /\ WhiteList = keys.whiteList /\ WhiteList # {} /\ ~BadPort
    BY DEF LoadInv, PartsInv, WhiteListInv, PortInv
  <2> QED
    BY <2>4, <2>5, <2>6, Zenon DEF RunsConfigured, BadPort
<1> QED
  BY <1>1, TypeInit, TypeNext, LoadInit, LoadNext, PTL DEF Spec

-----------------------------------------------------------------------------
(* The map that Initialize fills and the look-up of TypeDetection, which   *)
(* reads the configured list itself.                                       *)
Detection ==
    INSTANCE TypeDetection WITH NoText <- "", MimeTypes <- keys.mimeTypes, Types <- MimeModules

LooksUpConfigured ==
    phase \in Serving => \A m \in MimeModules : MimeList[m] = Detection!MimeOf(m)

LEMMA LookUp == TypeOK /\ LoadInv => LooksUpConfigured
<1> SUFFICES ASSUME TypeOK, LoadInv, phase \in Serving, NEW m \in MimeModules
             PROVE  MimeList[m] = Detection!MimeOf(m)
  BY Zenon DEF LooksUpConfigured
<1> DEFINE e == keys.mimeTypes
           I == {i \in 1..Len(e) : e[i][1] = m}
           max == CHOOSE x \in I : \A y \in I : x >= y
           last == IF I # {} THEN max ELSE 0
<1>1. Detection!MimeOf(m) =
        IF last = 0 THEN "" ELSE e[last][2]
  BY Zenon DEF Detection!MimeOf, Detection!SelectLastInSeq, Detection!Max
<1>2. e \in Seq((MimeModules \X Texts) \cup {None}) /\ next = Len(e) + 1
  BY KeysType DEF LoadInv, MimeInv, TypeOK
<1>3. Len(e) \in Nat /\ 1..next - 1 = 1..Len(e)
  BY <1>2
<1>4. CASE NoEntry(m)
  <2>1. I = {}
    BY <1>3, <1>4 DEF NoEntry
  <2> QED
    BY <1>1, <1>4, <2>1 DEF NoEntry
<1>5. ASSUME NEW i \in 1..next - 1, LastEntry(m, i)
      PROVE  MimeList[m] = IF last = 0 THEN "" ELSE e[last][2]
  <2>1. e[i] = <<m, MimeList[m]>> /\ \A j \in 1..Len(e) : j > i => e[j][1] # m
    BY <1>3, <1>5 DEF LastEntry
  <2>2. e[i][1] = m /\ e[i][2] = MimeList[m] /\ i \in 1..Len(e)
    <3>1. i \in 1..Len(e)
      BY <1>3, <1>5, Zenon
    <3>2. e[i][1] = m /\ e[i][2] = MimeList[m]
      <4> HIDE DEF e
      <4> QED
        BY <2>1
    <3> QED
      BY <3>1, <3>2
  <2>3. \A j \in I : j \in 1..Len(e) /\ ~(j > i)
    BY <2>1
  <2>4. i \in I
    BY <2>2
  <2> HIDE DEF I, e
  <2>5. \A j \in I : i >= j
    BY <1>3, <2>2, <2>3
  <2>6. max \in I /\ \A y \in I : max >= y
    BY <2>4, <2>5
  <2> HIDE DEF max
  <2>7. max = i
    BY <1>3, <2>2, <2>3, <2>4, <2>6
  <2>8. last = i /\ i # 0
    BY <2>2, <2>4, <2>7
  <2> HIDE DEF last
  <2> QED
    BY <2>2, <2>8
<1> QED
  BY <1>1, <1>4, <1>5 DEF LoadInv, MimeInv

(* Once requests are answered, the media type that a response's type is    *)
(* told from is the one TypeDetection looks up: the last entry of a module *)
(* in Gateway.MimeTypes, and none for a module without an entry.           *)
THEOREM LooksUpAsConfigured == Spec => []LooksUpConfigured
BY LookUp, TypeInit, TypeNext, LoadInit, LoadNext, PTL DEF Spec

-----------------------------------------------------------------------------
(* A resource that has the name of a file has it from the cache that is    *)
(* kept in d_instance.                                                     *)
NamedByCache == named # {} => instance

(* No destructor and no later access of a process that once had a cache    *)
(* runs into a null one.                                                   *)
THEOREM CachedProcessesSurvive == Spec => []CrashOnlyUncached
<1> DEFINE I == NamedByCache /\ CrashOnlyUncached
<1>1. Init => I
  BY DEF Init, NamedByCache, CrashOnlyUncached
<1>2. TypeOK /\ I /\ [Next]_vars => I'
  <2> SUFFICES ASSUME TypeOK, I, [Next]_vars PROVE I'
    OBVIOUS
  <2> USE DEF NamedByCache, CrashOnlyUncached
  <2>1. CASE AddHandler \/ AddStorage \/ AddDebugContext
    BY <2>1 DEF AddHandler, AddStorage, AddDebugContext, Register, requests
  <2>2. CASE ReadWhiteList \/ ReadMimeType \/ MimeTypesRead \/ ReadProxy \/ ProxyInvalid
    BY <2>2 DEF ReadWhiteList, ReadMimeType, MimeTypesRead, ReadProxy, ProxyInvalid, requests
  <2>3. CASE Terminate
    BY <2>3 DEF Terminate, requests
  <2>4. ASSUME NEW r \in Resources, NEW u \in Urls, Access(r, u)
        PROVE  I'
    <3>1. CASE GetInstanceThrows /\ UNCHANGED <<named, phase>>
      BY <2>4, <3>1 DEF Access, GetInstanceThrows
    <3>2. ASSUME NEW got \in BOOLEAN, GetInstance(got),
                 \/ got /\ named' = named \cup {r} /\ UNCHANGED phase
                 \/ got /\ UNCHANGED <<named, phase>>
                 \/ ~got /\ phase' = "crashed" /\ UNCHANGED named
          PROVE  I'
      <4>1. phase = "running" /\ instance' = got /\ (instance => got)
        BY <2>4, <3>2 DEF Access, GetInstance
      <4>2. CASE got
        BY <3>2, <4>1, <4>2
      <4>3. CASE ~got
        BY <3>2, <4>1, <4>3
      <4> QED
        BY <4>2, <4>3
    <3> QED
      BY <2>4, <3>1, <3>2 DEF Access
  <2>5. ASSUME NEW r \in Resources, Delete(r)
        PROVE  I'
    <3>1. phase = "running"
      BY <2>5 DEF Delete
    <3>2. CASE r \in named
      <4>1. instance' = TRUE /\ UNCHANGED phase
        BY <2>5, <3>2 DEF Delete, GetInstance
      <4> QED
        BY <3>1, <4>1
    <3>3. CASE r \notin named
      <4>1. UNCHANGED <<instance, phase>> /\ named' = named \ {r}
        BY <2>5, <3>3 DEF Delete
      <4> QED
        BY <3>1, <3>3, <4>1
    <3> QED
      BY <3>2, <3>3
  <2>6. CASE UNCHANGED vars
    BY <2>6 DEF vars, requests
  <2> QED
    BY <2>1, <2>2, <2>3, <2>4, <2>5, <2>6 DEF Next
<1> QED
  BY <1>1, <1>2, TypeInit, TypeNext, PTL DEF Spec

-----------------------------------------------------------------------------
(* Initialize copies the proxy settings of the configuration; a port that  *)
(* is not given is 0 in them, one that is given is not.                    *)
ProxyInv ==
    /\ phase \in Starting \ {"register"} => Proxy.host = ""
    /\ phase \in {"register"} \cup Serving =>
         /\ Proxy.host = keys.proxyHost
         /\ Proxy.noProxy = keys.noProxy
         /\ keys.proxyHost # "" =>
              /\ Proxy.port = IF keys.proxyPort = None THEN 0 ELSE keys.proxyPort
              /\ Proxy.authType = AuthType(keys)

LEMMA ProxyInit == Init => ProxyInv
<1> SUFFICES ASSUME Init PROVE ProxyInv
  OBVIOUS
<1>1. phase = "addHandler" /\ Proxy.host = ""
  BY DEF Init, NoSettings
<1> QED
  BY <1>1 DEF ProxyInv, Serving

LEMMA ReadProxyStep ==
    ASSUME TypeOK, ProxyInv, ReadProxy PROVE ProxyInv'
<1>1. phase = "proxy" /\ phase' = "register" /\ keys' = keys
  BY DEF ReadProxy
<1>2. Proxy.host = "" /\ Proxy \in ProxySettings
  BY <1>1 DEF ProxyInv, Starting, TypeOK
<1>3. /\ Proxy'.host = keys.proxyHost
      /\ Proxy'.noProxy = keys.noProxy
      /\ keys.proxyHost # "" =>
           /\ Proxy'.port = IF keys.proxyPort = None THEN 0 ELSE keys.proxyPort
           /\ Proxy'.authType = AuthType(keys)
  <2>1. CASE keys.proxyHost = ""
    <3>1. Proxy' = [Proxy EXCEPT !.noProxy = keys.noProxy]
      BY <2>1 DEF ReadProxy
    <3>2. Proxy'.host = Proxy.host /\ Proxy'.noProxy = keys.noProxy
      BY <1>2, <3>1 DEF ProxySettings
    <3> QED
      BY <1>2, <2>1, <3>2
  <2>2. CASE keys.proxyHost # ""
    <3> DEFINE port == IF keys.proxyPort = None THEN 0 ELSE keys.proxyPort
    <3>1. Proxy' = [host |-> keys.proxyHost, port |-> port, user |-> keys.proxyUser,
                    password |-> keys.proxyPassword, userPW |-> keys.proxyUserPW,
                    authType |-> AuthType(keys), noProxy |-> keys.noProxy]
      BY <2>2, Zenon DEF ReadProxy
    <3>2. /\ Proxy'.host = keys.proxyHost /\ Proxy'.noProxy = keys.noProxy
          /\ Proxy'.port = port /\ Proxy'.authType = AuthType(keys)
      <4> HIDE DEF port
      <4> QED
        BY <3>1
    <3> QED
      BY <3>2, Zenon
  <2> QED
    BY <2>1, <2>2
<1>4. phase' \notin Starting \ {"register"}
  BY <1>1
<1>5. AuthType(keys)' = AuthType(keys)
  BY <1>1 DEF AuthType
<1> QED
  BY <1>1, <1>3, <1>4, <1>5, Zenon DEF ProxyInv

LEMMA ProxyNext == TypeOK /\ ProxyInv /\ [Next]_vars => ProxyInv'
<1> SUFFICES ASSUME TypeOK, ProxyInv, [Next]_vars PROVE ProxyInv'
  OBVIOUS
<1>1. ASSUME UNCHANGED <<keys, Proxy>>,
             phase' \in Starting \ {"register"} => phase \in Starting \ {"register"},
             phase' \in {"register"} \cup Serving => phase \in {"register"} \cup Serving
      PROVE  ProxyInv'
  BY <1>1, Zenon DEF ProxyInv, AuthType
<1>2. CASE AddHandler \/ AddStorage \/ AddDebugContext
  <2>1. /\ UNCHANGED <<keys, Proxy>>
        /\ \/ phase = "addHandler" /\ phase' = "addStorage"
           \/ phase = "addStorage" /\ phase' = "whiteList"
           \/ phase = "register" /\ phase' = "running"
    BY <1>2 DEF AddHandler, AddStorage, AddDebugContext, Register, loaded
  <2> QED
    BY <1>1, <2>1 DEF Starting, Serving
<1>3. CASE ReadWhiteList \/ ReadMimeType \/ MimeTypesRead
  <2>1. /\ UNCHANGED <<keys, Proxy>>
        /\ phase \in {"whiteList", "mimeTypes"}
        /\ phase' \in {"mimeTypes", "proxy", "failed"}
    BY <1>3 DEF ReadWhiteList, ReadMimeType, MimeTypesRead, loaded
  <2> QED
    BY <1>1, <2>1 DEF Starting, Serving
<1>4. CASE ReadProxy
  BY <1>4, ReadProxyStep
<1>5. CASE ProxyInvalid
  <2>1. phase' = "failed"
    BY <1>5 DEF ProxyInvalid
  <2> QED
    BY <2>1 DEF ProxyInv, Starting, Serving
<1>6. CASE Terminate
  <2>1. phase' = "ended"
    BY <1>6 DEF Terminate
  <2> QED
    BY <2>1 DEF ProxyInv, Starting, Serving
<1>7. ASSUME NEW r \in Resources, Delete(r) \/ \E u \in Urls : Access(r, u)
      PROVE  ProxyInv'
  <2>1. UNCHANGED <<keys, Proxy>>
    BY <1>7 DEF Access, Delete, loaded
  <2>2. phase = "running" /\ phase' \in Serving
    BY <1>7 DEF Access, Delete, Serving
  <2> QED
    BY <1>1, <2>1, <2>2 DEF Starting, Serving
<1>8. CASE UNCHANGED vars
  BY <1>1, <1>8 DEF vars, loaded
<1> QED
  BY <1>2, <1>3, <1>4, <1>5, <1>6, <1>7, <1>8 DEF Next

\* What ProxyAsConfigured says of a curl handle h for the URL u if the keys are k.
HandleOK(h, u, k) ==
    /\ h.proxy = IF u \in k.noProxy THEN "" ELSE k.proxyHost
    /\ h.proxy = "" => h = NoOptions
    /\ h.proxy # "" =>
         /\ h.port = IF k.proxyPort = None THEN 8080 ELSE k.proxyPort
         /\ h.auth = AuthType(k)
    /\ h.user = "" \/ h.userPW = ""
    /\ h.user = "" => h.password = ""

LEMMA ConfigureProxyOK ==
    ASSUME TypeOK, LoadInv, ProxyInv, phase = "running", NEW u
    PROVE  HandleOK(ConfigureProxy(u), u, keys)
<1>1. /\ Proxy.host = keys.proxyHost /\ Proxy.noProxy = keys.noProxy
      /\ keys.proxyHost # "" => Proxy.port = IF keys.proxyPort = None THEN 0 ELSE keys.proxyPort
      /\ keys.proxyHost # "" => Proxy.authType = AuthType(keys)
      /\ keys.proxyHost # "" => keys.proxyPort # 0
  <2>1. phase \in Serving
    BY DEF Serving
  <2> QED
    BY <2>1, Zenon DEF ProxyInv, LoadInv, PortInv, BadPort
<1>2. CASE Proxy.host = "" \/ u \in Proxy.noProxy
  <2>1. ConfigureProxy(u) = NoOptions
    BY <1>2 DEF ConfigureProxy
  <2>2. /\ NoOptions.proxy = "" /\ NoOptions.user = "" /\ NoOptions.userPW = ""
        /\ NoOptions.password = ""
    BY DEF NoOptions
  <2> QED
    BY <1>1, <1>2, <2>1, <2>2, Zenon DEF HandleOK
<1>3. CASE ~(Proxy.host = "" \/ u \in Proxy.noProxy)
  <2> DEFINE port == IF Proxy.port = 0 THEN 8080 ELSE Proxy.port
             password == IF Proxy.user = "" THEN "" ELSE Proxy.password
             userPW == IF Proxy.user = "" THEN Proxy.userPW ELSE ""
             h == ConfigureProxy(u)
  <2>1. h = [proxy |-> Proxy.host, port |-> port, auth |-> Proxy.authType,
             user |-> Proxy.user, password |-> password, userPW |-> userPW]
    BY <1>3, Zenon DEF ConfigureProxy
  <2>2. port = IF keys.proxyPort = None THEN 8080 ELSE keys.proxyPort
    <3>1. keys.proxyHost # "" /\ keys.proxyPort # 0
      BY <1>1, <1>3
    <3>2. Proxy.port = IF keys.proxyPort = None THEN 0 ELSE keys.proxyPort
      BY <1>1, <3>1
    <3>3. CASE keys.proxyPort = None
      <4>1. Proxy.port = 0
        BY <3>2, <3>3
      <4> QED
        BY <3>3, <4>1
    <3>4. CASE keys.proxyPort # None
      <4>1. Proxy.port = keys.proxyPort
        BY <3>2, <3>4, Zenon
      <4>2. Proxy.port # 0
        BY <3>1, <4>1
      <4> QED
        BY <3>4, <4>1, <4>2
    <3> QED
      BY <3>3, <3>4
  <2>3. /\ Proxy.user = "" \/ userPW = ""
        /\ Proxy.user = "" => password = ""
    BY Zenon
  <2>4. /\ h.proxy = Proxy.host /\ h.port = port /\ h.auth = Proxy.authType /\ h.user = Proxy.user
        /\ h.password = password /\ h.userPW = userPW
    <3> HIDE DEF port, password, userPW, h
    <3> QED
      BY <2>1
  <2> HIDE DEF port, password, userPW, h
  <2>5. HandleOK(h, u, keys)
    <3>1. h.proxy = (IF u \in keys.noProxy THEN "" ELSE keys.proxyHost) /\ h.proxy # ""
      <4>1. u \notin keys.noProxy /\ keys.proxyHost # "" /\ h.proxy = keys.proxyHost
        BY <1>1, <1>3, <2>4
      <4> QED
        BY <4>1
    <3>2. h.port = IF keys.proxyPort = None THEN 8080 ELSE keys.proxyPort
      BY <2>2, <2>4
    <3>4. h.auth = AuthType(keys)
      BY <1>1, <1>3, <2>4
    <3>3. (h.user = "" \/ h.userPW = "") /\ (h.user = "" => h.password = "")
      BY <2>3, <2>4, Zenon
    <3> QED
      BY <3>1, <3>2, <3>3, <3>4, Zenon DEF HandleOK
  <2> QED
    BY <2>5 DEF h
<1> QED
  BY <1>2, <1>3

(* Every curl handle has the proxy options that the configuration calls    *)
(* for, whatever it is and whichever URL the handle is for.                *)
THEOREM HandlesAsConfigured == Spec => []ProxyAsConfigured
<1> DEFINE I == \A r \in Resources : Live(r) => HandleOK(handle[r], url[r], keys)
<1>1. Init => I
  BY DEF Init, Live
<1>2. TypeOK /\ LoadInv /\ ProxyInv /\ I /\ [Next]_vars => I'
  <2> SUFFICES ASSUME TypeOK, LoadInv, ProxyInv, I, [Next]_vars,
                      NEW s \in Resources, Live(s)'
               PROVE  HandleOK(handle[s], url[s], keys)'
    OBVIOUS
  <2>1. keys' = keys
    BY DEF Next, AddHandler, AddStorage, AddDebugContext, Register, ReadWhiteList, ReadMimeType,
           MimeTypesRead, ReadProxy, ProxyInvalid, Terminate, Access, Delete, vars
  <2>2. ASSUME handle'[s] = handle[s], url'[s] = url[s]
        PROVE  HandleOK(handle[s], url[s], keys)'
    <3>1. HandleOK(handle[s], url[s], keys)
      BY <2>2 DEF Live
    <3> QED
      BY <2>1, <2>2, <3>1
  <2>3. CASE UNCHANGED <<url, handle>>
    BY <2>2, <2>3
  <2>4. ASSUME NEW r \in Resources, NEW u \in Urls, Access(r, u)
        PROVE  HandleOK(handle[s], url[s], keys)'
    <3>1. handle' = [handle EXCEPT ![r] = ConfigureProxy(u)] /\ url' = [url EXCEPT ![r] = u]
      BY <2>4 DEF Access
    <3>2. CASE s = r
      <4>1. handle'[s] = ConfigureProxy(u) /\ url'[s] = u
        BY <3>1, <3>2 DEF TypeOK
      <4>2. HandleOK(ConfigureProxy(u), u, keys)
        BY <2>4, ConfigureProxyOK DEF Access
      <4> QED
        BY <2>1, <4>1, <4>2
    <3>3. CASE s # r
      <4>1. handle'[s] = handle[s] /\ url'[s] = url[s]
        BY <3>1, <3>3 DEF TypeOK
      <4> QED
        BY <2>2, <4>1
    <3> QED
      BY <3>2, <3>3
  <2>5. ASSUME NEW r \in Resources, Delete(r)
        PROVE  HandleOK(handle[s], url[s], keys)'
    <3>1. \/ UNCHANGED <<url, handle>>
          \/ /\ url' = [url EXCEPT ![r] = None]
             /\ handle' = [handle EXCEPT ![r] = NoOptions]
      BY <2>5 DEF Delete
    <3>2. handle'[s] = handle[s] /\ url'[s] = url[s]
      BY <3>1 DEF TypeOK, Live
    <3> QED
      BY <2>2, <3>2
  <2> QED
    BY <2>3, <2>4, <2>5 DEF Next, AddHandler, AddStorage, AddDebugContext, Register, ReadWhiteList,
       ReadMimeType, MimeTypesRead, ReadProxy, ProxyInvalid, Terminate, vars, requests
<1>3. I => ProxyAsConfigured
  BY Zenon DEF ProxyAsConfigured, HandleOK
<1> QED
  BY <1>1, <1>2, <1>3, TypeInit, TypeNext, LoadInit, LoadNext, ProxyInit, ProxyNext, PTL DEF Spec

=============================================================================
