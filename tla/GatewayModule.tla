---------------------------- MODULE GatewayModule ----------------------------
(***************************************************************************)
(* The life of the gateway module in one beslistener process: the module   *)
(* registers itself and reads its configuration, requests make remote      *)
(* resources, whose curl handles get proxy options and whose files are in  *)
(* the one GatewayCache of the process, and the module is taken out.       *)
(*                                                                         *)
(* A key that is not set and a key with an empty value are the same here   *)
(* where the code treats them alike.  A regular expression is the set of   *)
(* URLs it matches.  The keys ProxyProtocol and UseInternalCache are left  *)
(* out: what they set is not used by a retrieval.                          *)
(***************************************************************************)
EXTENDS Integers, Sequences

CONSTANTS
    None,           \* a key that is not set; no colon in a MimeTypes entry
    Urls,
    Texts,          \* what keys may have for names, hosts and media types
    Resources,      \* heap addresses of RemoteHttpResource objects
    MimeModules,    \* the modules that Gateway.MimeTypes may name
    Configurations  \* the configurations under consideration

CacheKeys == {"dir", "prefix", "size"}

\* proxyPort is the number that atoi reads, 0 if there is none in the value;
\* proxyAuthType is in lower case.
Keys ==
    [whiteList : SUBSET Texts,
     mimeTypes : Seq((MimeModules \X Texts) \cup {None}),
     proxyHost : Texts,
     proxyPort : Int \cup {None},
     proxyUser : Texts, proxyPassword : Texts, proxyUserPW : Texts,
     proxyAuthType : Texts \cup {None},
     noProxy : SUBSET Urls,
     cacheKeys : SUBSET CacheKeys]

ASSUME ModuleAssumption ==
    /\ Configurations \subseteq Keys
    /\ "" \in Texts
    /\ None \notin Urls \cup Int \cup (MimeModules \X Texts)

VARIABLES
    keys,       \* TheBESKeys: what the configuration files say
    phase,      \* what the process does next
    next,       \* the entry of MimeTypes that Initialize reads next
    registered, \* what the lists of the BES have of this module
    WhiteList,  \* the static members of GatewayUtils; in Proxy those that
    MimeList,   \*     configureProxy reads
    Proxy,
    instance,   \* GatewayCache::d_instance is not null
    url,        \* url[r]: the URL of resource r, None if r is no object
    named,      \* the resources that have the name of a cache file
    handle      \* handle[r]: the proxy options of the curl handle of r

loaded == <<WhiteList, MimeList, Proxy>>
requests == <<instance, url, named, handle>>
vars == <<keys, phase, next, registered, loaded, requests>>

Starting == {"addHandler", "addStorage", "whiteList", "mimeTypes", "proxy", "register"}
Phases == Starting \cup {"running", "failed", "crashed", "ended"}
Parts == {"handler", "storage", "debug"}

AuthTypes == {"none", "basic", "digest", "ntlm"}
ProxySettings ==
    [host : Texts, port : Int, user : Texts, password : Texts, userPW : Texts,
     authType : AuthTypes, noProxy : SUBSET Urls]
NoSettings ==
    [host |-> "", port |-> 0, user |-> "", password |-> "", userPW |-> "",
     authType |-> "none", noProxy |-> {}]

ProxyOptions ==
    [proxy : Texts, port : Int, auth : AuthTypes,
     user : Texts, password : Texts, userPW : Texts]
NoOptions ==
    [proxy |-> "", port |-> 0, auth |-> "none", user |-> "", password |-> "", userPW |-> ""]

Live(r) == url[r] # None

(* Types; only an object has curl options or the name of a file.           *)
TypeOK ==
    /\ keys \in Configurations
    /\ phase \in Phases
    /\ next \in 1..Len(keys.mimeTypes) + 1
    /\ registered \subseteq Parts
    /\ WhiteList \subseteq Texts
    /\ MimeList \in [MimeModules -> Texts]
    /\ Proxy \in ProxySettings
    /\ instance \in BOOLEAN
    /\ url \in [Resources -> Urls \cup {None}]
    /\ named \subseteq {r \in Resources : Live(r)}
    /\ handle \in [Resources -> ProxyOptions]
    /\ \A r \in Resources : ~Live(r) => handle[r] = NoOptions

Init ==
    /\ keys \in Configurations
    /\ phase = "addHandler"
    /\ next = 1
    /\ registered = {}
    /\ WhiteList = {}
    /\ MimeList = [m \in MimeModules |-> ""]
    /\ Proxy = NoSettings
    /\ instance = FALSE
    /\ url = [r \in Resources |-> None]
    /\ named = {}
    /\ handle = [r \in Resources |-> NoOptions]

-----------------------------------------------------------------------------
(* GatewayModule::initialize registers three things and calls Initialize   *)
(* in between, which may throw at each of its keys.                        *)
Register(part, from, to) ==
    /\ phase = from
    /\ registered' = registered \cup {part}
    /\ phase' = to
    /\ UNCHANGED <<keys, next, loaded, requests>>

AddHandler == Register("handler", "addHandler", "addStorage")
AddStorage == Register("storage", "addStorage", "whiteList")
AddDebugContext == Register("debug", "register", "running")

\* Slip: an empty white list is no error.
ReadWhiteList_Optional ==
    /\ phase = "whiteList"
    /\ WhiteList' = keys.whiteList
    /\ phase' = "mimeTypes"
    /\ UNCHANGED <<keys, next, registered, MimeList, Proxy, requests>>

ReadWhiteList ==
    /\ phase = "whiteList"
    /\ WhiteList' = keys.whiteList
    /\ phase' = IF keys.whiteList = {} THEN "failed" ELSE "mimeTypes"
    /\ UNCHANGED <<keys, next, registered, MimeList, Proxy, requests>>

\* One turn of the loop: a later entry of a module replaces an earlier one.
ReadMimeType ==
    /\ phase = "mimeTypes"
    /\ next <= Len(keys.mimeTypes)
    /\ IF keys.mimeTypes[next] = None
       THEN phase' = "failed" /\ UNCHANGED <<next, MimeList>>
       ELSE /\ MimeList' = [MimeList EXCEPT ![keys.mimeTypes[next][1]] = keys.mimeTypes[next][2]]
            /\ next' = next + 1
            /\ UNCHANGED phase
    /\ UNCHANGED <<keys, registered, WhiteList, Proxy, requests>>

MimeTypesRead ==
    /\ phase = "mimeTypes"
    /\ next > Len(keys.mimeTypes)
    /\ phase' = "proxy"
    /\ UNCHANGED <<keys, next, registered, loaded, requests>>

\* What is not one of the three schemes falls back to the first.
AuthType(k) ==
    IF k.proxyAuthType \in {"digest", "ntlm"} THEN k.proxyAuthType ELSE "basic"

\* The port must be a number other than 0 if it is set.
BadPort == keys.proxyHost # "" /\ keys.proxyPort = 0

ReadProxy ==
    /\ phase = "proxy"
    /\ ~BadPort
    /\ Proxy' =
         IF keys.proxyHost = "" THEN [Proxy EXCEPT !.noProxy = keys.noProxy]
         ELSE [host |-> keys.proxyHost,
               port |-> IF keys.proxyPort = None THEN 0 ELSE keys.proxyPort,
               user |-> keys.proxyUser,
               password |-> keys.proxyPassword,
               userPW |-> keys.proxyUserPW,
               authType |-> AuthType(keys),
               noProxy |-> keys.noProxy]
    /\ phase' = "register"
    /\ UNCHANGED <<keys, next, registered, WhiteList, MimeList, requests>>

ProxyInvalid ==
    /\ phase = "proxy"
    /\ BadPort
    /\ Proxy' = [Proxy EXCEPT !.host = keys.proxyHost]
    /\ phase' = "failed"
    /\ UNCHANGED <<keys, next, registered, WhiteList, MimeList, requests>>

(* GatewayModule::terminate, at the end of the process or after a failed   *)
(* start.                                                                  *)
Terminate ==
    /\ phase \in {"failed", "running"}
    /\ registered' = registered \ {"handler", "storage"}
    /\ phase' = "ended"
    /\ UNCHANGED <<keys, next, loaded, requests>>

-----------------------------------------------------------------------------
\* Slip: user and password are set besides user:password.
ConfigureProxy_BothCredentials(u) ==
    IF Proxy.host = "" \/ u \in Proxy.noProxy THEN NoOptions
    ELSE [proxy |-> Proxy.host,
          port |-> IF Proxy.port = 0 THEN 8080 ELSE Proxy.port,
          auth |-> Proxy.authType,
          user |-> Proxy.user,
          password |-> IF Proxy.user = "" THEN "" ELSE Proxy.password,
          userPW |-> Proxy.userPW]

ConfigureProxy(u) ==
    IF Proxy.host = "" \/ u \in Proxy.noProxy THEN NoOptions
    ELSE [proxy |-> Proxy.host,
          port |-> IF Proxy.port = 0 THEN 8080 ELSE Proxy.port,
          auth |-> Proxy.authType,
          user |-> Proxy.user,
          password |-> IF Proxy.user = "" THEN "" ELSE Proxy.password,
          userPW |-> IF Proxy.user = "" THEN Proxy.userPW ELSE ""]

\* Slip: the object is made for each call and not kept.
GetInstance_NotKept(got) ==
    /\ got \in BOOLEAN
    /\ got => keys.cacheKeys = CacheKeys
    /\ UNCHANGED instance

(* GatewayCache::get_instance: whether the caller gets a cache.  Without   *)
(* one in d_instance a new one is tried, which fails if a key is missing   *)
(* and may fail in BESFileLockingCache::initialize.                        *)
GetInstance(got) ==
    /\ got \in BOOLEAN
    /\ instance => got
    /\ (got /\ ~instance) => keys.cacheKeys = CacheKeys
    /\ instance' = got

\* It catches only BESInternalError; of other exceptions nothing is kept.
GetInstanceThrows == ~instance /\ UNCHANGED instance

(* access(): a resource is made and retrieved; a null cache is used as if  *)
(* it were one.  Exceptions of the constructor leave nothing, others leave *)
(* the object, with the name of the file or before it has one.             *)
Access(r, u) ==
    /\ phase = "running"
    /\ ~Live(r)
    /\ url' = [url EXCEPT ![r] = u]
    /\ handle' = [handle EXCEPT ![r] = ConfigureProxy(u)]
    /\ \/ GetInstanceThrows /\ UNCHANGED <<named, phase>>
       \/ \E got \in BOOLEAN :
            /\ GetInstance(got)
            /\ \/ got /\ named' = named \cup {r} /\ UNCHANGED phase
               \/ got /\ UNCHANGED <<named, phase>>
               \/ ~got /\ phase' = "crashed" /\ UNCHANGED named
    /\ UNCHANGED <<keys, next, registered, loaded>>

\* Slip: the object is gone and its file is still noted.
Delete_KeepsName(r) ==
    /\ phase = "running"
    /\ Live(r)
    /\ url' = [url EXCEPT ![r] = None]
    /\ handle' = [handle EXCEPT ![r] = NoOptions]
    /\ UNCHANGED <<keys, phase, next, registered, loaded, instance, named>>

(* The destructor unlocks the file of the object if it has one; again, a   *)
(* null cache would be used, before the object's memory is free.  What     *)
(* get_instance throws would leave the destructor and end the process, so  *)
(* it is the same case as a null cache.                                    *)
Delete(r) ==
    /\ phase = "running"
    /\ Live(r)
    /\ \E got \in BOOLEAN :
         /\ IF r \in named THEN GetInstance(got) ELSE got /\ UNCHANGED instance
         /\ IF got
            THEN /\ url' = [url EXCEPT ![r] = None]
                 /\ handle' = [handle EXCEPT ![r] = NoOptions]
                 /\ named' = named \ {r}
                 /\ UNCHANGED phase
            ELSE phase' = "crashed" /\ UNCHANGED <<url, handle, named>>
    /\ UNCHANGED <<keys, next, registered, loaded>>

Next ==
    \/ AddHandler \/ AddStorage \/ AddDebugContext
    \/ ReadWhiteList \/ ReadMimeType \/ MimeTypesRead \/ ReadProxy \/ ProxyInvalid
    \/ Terminate
    \/ \E r \in Resources : (\E u \in Urls : Access(r, u)) \/ Delete(r)

Spec == Init /\ [][Next]_vars

-----------------------------------------------------------------------------
(* Requests are answered only with the whole configuration read: a white   *)
(* list with entries, every line of MimeTypes well formed, the last one of *)
(* each module in force and nothing else, a proxy port that is a number,   *)
(* and both parts of the module registered.  A start that fails half way   *)
(* never gets here.                                                        *)
RunsConfigured ==
    phase \in {"running", "crashed"} =>
        /\ registered = Parts
        /\ WhiteList = keys.whiteList /\ WhiteList # {}
        /\ \A i \in DOMAIN keys.mimeTypes :
             /\ keys.mimeTypes[i] # None
             /\ \/ MimeList[keys.mimeTypes[i][1]] = keys.mimeTypes[i][2]
                \/ \E j \in DOMAIN keys.mimeTypes :
                     j > i /\ keys.mimeTypes[j][1] = keys.mimeTypes[i][1]
        /\ \A m \in MimeModules : MimeList[m] # "" =>
             \E i \in DOMAIN keys.mimeTypes : keys.mimeTypes[i] = <<m, MimeList[m]>>
        /\ keys.proxyHost # "" => keys.proxyPort # 0

(* "If the target URL matches the Gateway.NoProxyRegex in the config file, *)
(* then no proxying is done": a handle uses the configured proxy, its port *)
(* (8080 if none is given) and its scheme of authentication exactly for    *)
(* the other URLs, gives credentials to no one but the proxy, and from one *)
(* source only.                                                            *)
ProxyAsConfigured ==
    \A r \in Resources : Live(r) =>
        /\ handle[r].proxy = IF url[r] \in keys.noProxy THEN "" ELSE keys.proxyHost
        /\ handle[r].proxy = "" => handle[r] = NoOptions
        /\ handle[r].proxy # "" =>
             /\ handle[r].port = IF keys.proxyPort = None THEN 8080 ELSE keys.proxyPort
             /\ handle[r].auth = AuthType(keys)
        /\ handle[r].user = "" \/ handle[r].userPW = ""
        /\ handle[r].user = "" => handle[r].password = ""

(* The process dies of a null cache only before it has ever had a cache:   *)
(* once one retrieval got as far as the name of its file, every later one  *)
(* and every destructor finds the cache.                                   *)
CrashOnlyUncached == phase = "crashed" => ~instance /\ named = {}

(* "@throws BESError if there is a problem making the remote request"      *)
(* (GatewayContainer::access): access() answers; a cache that cannot be    *)
(* had is an error of the request and does not end the process.            *)
AccessAnswers == phase # "crashed"
=============================================================================
