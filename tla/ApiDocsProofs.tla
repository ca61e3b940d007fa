---------------------------- MODULE ApiDocsProofs ----------------------------
(***************************************************************************)
(* Proofs about ApiDocs: in whatever order the files of the page arrive or *)
(* are lost, and however often it is reloaded.                             *)
(***************************************************************************)
EXTENDS ApiDocs, TLAPS

\* The file server has every file of the page, at the place the page looks for it.
LEMMA RouteOfSwagger ==
  ASSUME NEW f
  PROVE  Route(<<"swagger", f>>) = "Swagger"
<1> DEFINE p == <<"swagger", f>>
<1>1. Len(p) = 2 /\ p[1] = "swagger"
  OBVIOUS
<1>2. /\ p # <<"actuators", "health">> /\ p # <<"actuators", "info">>
      /\ p # UsersPath /\ p # <<"metrics">> /\ p # <<"api", "docs">>
  <2>1. Len(UsersPath) = 3 /\ Len(<<"metrics">>) = 1
    BY DEF UsersPath
  <2> QED
    BY <1>1, <2>1
<1>3. Len(p) # 4 /\ Len(p) > 1
  BY <1>1
<1> HIDE DEF p
<1> QED
  BY <1>1, <1>2, <1>3, Zenon DEF Route, p

LEMMA RouteOfDocs == Route(<<"api", "docs">>) = "ApiDocs"
<1> DEFINE p == <<"api", "docs">>
<1>1. Len(p) = 2 /\ p[1] = "api"
  OBVIOUS
<1>2. /\ p # <<"actuators", "health">> /\ p # <<"actuators", "info">>
      /\ p # UsersPath /\ p # <<"metrics">>
  <2>1. Len(UsersPath) = 3 /\ Len(<<"metrics">>) = 1
    BY DEF UsersPath
  <2> QED
    BY <1>1, <2>1
<1>3. Len(p) # 4 /\ p[1] # "swagger"
  BY <1>1
<1> HIDE DEF p
<1> QED
  BY <1>2, <1>3, Zenon DEF Route, p

LEMMA Definitions ==
  /\ Defines("swagger-ui-bundle.js") = {"SwaggerUIBundle"}
  /\ Defines("swagger-ui-standalone-preset.js") = {"SwaggerUIStandalonePreset"}
  /\ Defines("swagger-initializer.js") = {"onload"}
BY DEF Defines

\* The scripts that ran and arrived are those that defined their name.
Ran(i) == i <= ran /\ fetch[Scripts[i]] = "arrived"

ScriptsInv ==
  /\ \A i \in 1..3 : i <= ran => fetch[Scripts[i]] # "waiting"
  /\ "SwaggerUIBundle" \in defined <=> Ran(1)
  /\ "SwaggerUIStandalonePreset" \in defined <=> Ran(2)
  /\ "onload" \in defined <=> Ran(3)

\* The UI is decided by the load event, which comes after the last script.
UiInv ==
  /\ tab # "loaded" => ui = "none" /\ document = "none"
  /\ tab = "loaded" =>
       /\ ran = 3 /\ Settled(PageFiles \ Icons)
       /\ ui = IF "onload" \notin defined THEN "none"
               ELSE IF {"SwaggerUIBundle", "SwaggerUIStandalonePreset"} \subseteq defined
               THEN "built" ELSE "error"

IInv == TypeOK /\ NothingIsMissing /\ ScriptsInv /\ UiInv

\* What the files of the page are called.
LEMMA ScriptFacts ==
  /\ Len(Scripts) = 3 /\ DOMAIN Scripts = 1..3
  /\ Scripts[1] = "swagger-ui-bundle.js"
  /\ Scripts[2] = "swagger-ui-standalone-preset.js"
  /\ Scripts[3] = "swagger-initializer.js"
BY DEF Scripts

LEMMA PageFileFacts ==
  /\ PageFiles = {"swagger-ui.css", "index.css", "favicon-32x32.png", "favicon-16x16.png",
                  "swagger-ui-bundle.js", "swagger-ui-standalone-preset.js",
                  "swagger-initializer.js"}
  /\ \A i \in 1..3 : Scripts[i] \in PageFiles
  /\ \A f \in PageFiles : f \in Embedded /\ f # "index.html" /\ f # ""
<1>1. {Scripts[i] : i \in DOMAIN Scripts} = {Scripts[1], Scripts[2], Scripts[3]}
  <2>1. 1..3 = {1, 2, 3}
    OBVIOUS
  <2> QED
    BY <2>1, ScriptFacts
<1>2. PageFiles = {"swagger-ui.css", "index.css", "favicon-32x32.png", "favicon-16x16.png",
                   "swagger-ui-bundle.js", "swagger-ui-standalone-preset.js",
                   "swagger-initializer.js"}
  BY <1>1, ScriptFacts DEF PageFiles, Stylesheets, Icons
<1>3. \A i \in 1..3 : Scripts[i] \in PageFiles
  BY ScriptFacts DEF PageFiles
<1>4. \A f \in PageFiles : f # "index.html" /\ f # ""
  BY <1>2
<1>5. \A f \in PageFiles : f \in Embedded
  BY <1>2 DEF Embedded
<1> QED
  BY <1>2, <1>3, <1>4, <1>5

\* References are resolved in the folder of the page.
LEMMA FrontOfPair ==
  ASSUME NEW x, NEW p, p = <<"swagger", x>>
  PROVE  Front(p) = <<"swagger">>
<1> DEFINE S == {"swagger", x}
           q == SubSeq(p, 1, 1)
<1>1. p \in Seq(S) /\ Len(p) = 2 /\ p[1] = "swagger"
  OBVIOUS
<1> HIDE DEF S
<1>2. Front(p) = q
  BY <1>1 DEF Front
<1>3. q \in Seq(S) /\ Len(q) = 1 /\ q[1] = "swagger"
  BY <1>1
<1> HIDE DEF q
<1>4. q = <<"swagger">>
  BY <1>3
<1> QED
  BY <1>2, <1>4

LEMMA AppendToFolder ==
  ASSUME NEW x
  PROVE  Append(<<"swagger">>, x) = <<"swagger", x>>
<1> DEFINE S == {"swagger", x}
           q == Append(<<"swagger">>, x)
<1>1. <<"swagger">> \in Seq(S) /\ Len(<<"swagger">>) = 1
  OBVIOUS
<1>2. q \in Seq(S) /\ Len(q) = 2 /\ q[1] = "swagger" /\ q[2] = x
  <2>1. x \in S /\ "swagger" \in S
    OBVIOUS
  <2> HIDE DEF S
  <2> QED
    BY <1>1, <2>1
<1> HIDE DEF q, S
<1>3. q = <<"swagger", x>>
  BY <1>2
<1> QED
  BY <1>3 DEF q

LEMMA InTheFolder ==
  ASSUME NEW a \in Pages, NEW f
  PROVE  Relative(a, f) = <<"swagger", f>>
<1>1. Front(a) = <<"swagger">>
  <2>1. a = <<"swagger", "index.html">> \/ a = <<"swagger", "">>
    BY DEF Pages
  <2> QED
    BY <2>1, FrontOfPair
<1> QED
  BY <1>1, AppendToFolder DEF Relative

\* Everything that may be defined.
LEMMA AllDefinitions ==
  UNION {Defines(Scripts[i]) : i \in DOMAIN Scripts}
    = {"SwaggerUIBundle", "SwaggerUIStandalonePreset", "onload"}
<1>1. {Defines(Scripts[i]) : i \in DOMAIN Scripts}
        = {Defines(Scripts[1]), Defines(Scripts[2]), Defines(Scripts[3])}
  <2>1. DOMAIN Scripts = {1, 2, 3}
    <3>1. 1..3 = {1, 2, 3}
      OBVIOUS
    <3> QED
      BY <3>1, ScriptFacts
  <2> QED
    BY <2>1, Zenon
<1>2. /\ Defines(Scripts[1]) = {"SwaggerUIBundle"}
      /\ Defines(Scripts[2]) = {"SwaggerUIStandalonePreset"}
      /\ Defines(Scripts[3]) = {"onload"}
  BY ScriptFacts, Definitions
<1> QED
  BY <1>1, <1>2

\* The server has the page itself, its files and the document it shows.
LEMMA PageIsServed ==
  ASSUME NEW a \in Pages
  PROVE  \/ Get(a).status = 301 /\ Get(a).body \in Pages
         \/ Get(a).status = 200
<1>1. CASE a = <<"swagger", "index.html">>
  <2> DEFINE b == Relative(a, "")
  <2>1. Len(a) = 2 /\ a[2] = "index.html" /\ Route(a) = "Swagger"
    BY <1>1, RouteOfSwagger
  <2>2. b \in Pages
    <3>1. b = <<"swagger", "">>
      BY InTheFolder
    <3> QED
      BY <3>1, Zenon DEF Pages
  <2>3. Get(a) = [status |-> 301, body |-> b]
    BY <2>1 DEF Get, FileServer
  <2> HIDE DEF b
  <2> QED
    BY <2>2, <2>3
<1>2. CASE a = <<"swagger", "">>
  <2>1. Len(a) = 2 /\ a[2] # "index.html" /\ Route(a) = "Swagger"
    BY <1>2, RouteOfSwagger
  <2>2. FileServer(a) = OK("index.html")
    BY <1>2, <2>1 DEF FileServer
  <2>3. Get(a) = OK("index.html")
    BY <2>1, <2>2 DEF Get
  <2> QED
    BY <2>3 DEF OK
<1> QED
  BY <1>1, <1>2 DEF Pages

LEMMA FilesAreServed ==
  ASSUME NEW a \in Pages, NEW f \in PageFiles
  PROVE  Get(Relative(a, f)) = OK(f)
<1> DEFINE p == <<"swagger", f>>
<1>1. f \in Embedded /\ f # "index.html" /\ f # ""
  BY PageFileFacts
<1>2. Len(p) = 2 /\ p[2] = f /\ p # <<"swagger", "">>
  BY <1>1
<1>3. Route(p) = "Swagger"
  BY <1>1, RouteOfSwagger
<1> HIDE DEF p
<1>4. FileServer(p) = OK(f)
  BY <1>1, <1>2 DEF FileServer
<1>5. Get(p) = OK(f)
  BY <1>3, <1>4 DEF Get
<1> QED
  BY <1>5, InTheFolder DEF p

LEMMA DocumentIsServed ==
  ASSUME NEW a
  PROVE  Get(DocsUrl(a)) = OK("openapi.yml")
<1>1. Route(DocsUrl(a)) = "ApiDocs"
  BY RouteOfDocs DEF DocsUrl
<1> QED
  BY <1>1 DEF Get

LEMMA InitInv == Init => IInv
<1> SUFFICES ASSUME Init
             PROVE  IInv
  OBVIOUS
<1>1. /\ address \in Pages /\ tab = "following" /\ fetch = [f \in PageFiles |-> "waiting"]
      /\ ran = 0 /\ defined = {} /\ ui = "none" /\ document = "none"
  BY LinksAssumption DEF Init, NothingFetched
<1>2. TypeOK
  BY <1>1, ScriptFacts DEF TypeOK
<1>3. NothingIsMissing /\ ScriptsInv /\ UiInv
  BY <1>1 DEF NothingIsMissing, ScriptsInv, Ran, UiInv
<1> QED
  BY <1>2, <1>3 DEF IInv

\* The page is there, or one redirect away.
LEMMA FollowKeeps == IInv /\ Follow => IInv'
<1> SUFFICES ASSUME IInv, Follow
             PROVE  IInv'
  OBVIOUS
<1>1. /\ address \in Pages /\ tab = "following"
      /\ UNCHANGED <<fetch, ran, defined, ui, document>>
  BY DEF Follow, IInv, TypeOK
<1> DEFINE r == Get(address)
<1>2. (r.status = 301 /\ r.body \in Pages) \/ r.status = 200
  BY <1>1, PageIsServed
<1>3. \/ r.status = 301 /\ address' = r.body /\ tab' = tab
      \/ r.status = 404
      \/ address' = address /\ tab' \in {"loading", "broken"}
  BY DEF Follow
<1> HIDE DEF r
<1>4. address' \in Pages /\ tab' \in {"following", "loading", "broken"}
  BY <1>1, <1>2, <1>3
<1>5. TypeOK' /\ NothingIsMissing'
  BY <1>1, <1>4 DEF IInv, TypeOK, NothingIsMissing
<1>6. ScriptsInv' /\ UiInv'
  BY <1>1, <1>4 DEF IInv, ScriptsInv, Ran, UiInv
<1> QED
  BY <1>5, <1>6 DEF IInv

\* A file the page asks for is never missing, wherever the page is.
LEMMA ArriveKeeps == ASSUME IInv, NEW f \in PageFiles, Arrive(f) PROVE IInv'
<1>1. /\ tab \in {"loading", "loaded"} /\ fetch[f] = "waiting"
      /\ UNCHANGED <<address, tab, ran, defined, ui, document>>
  BY DEF Arrive
<1>2. /\ TypeOK /\ address \in Pages
      /\ fetch \in [PageFiles -> {"waiting", "arrived", "missing", "lost"}]
      /\ ran \in 0..3
  BY ScriptFacts DEF IInv, TypeOK
<1>3. fetch' = [fetch EXCEPT ![f] = "lost"] \/ fetch' = [fetch EXCEPT ![f] = "arrived"]
  BY <1>2, FilesAreServed DEF Arrive
<1>4. /\ fetch' \in [PageFiles -> {"waiting", "arrived", "missing", "lost"}]
      /\ fetch'[f] \in {"lost", "arrived"}
      /\ \A g \in PageFiles : g # f => fetch'[g] = fetch[g]
  BY <1>2, <1>3
<1>5. TypeOK'
  BY <1>1, <1>2, <1>4 DEF TypeOK
<1>6. NothingIsMissing'
  BY <1>1, <1>4 DEF IInv, NothingIsMissing
<1>7. ScriptsInv'
  <2>1. \A i \in 1..3 : i <= ran => fetch'[Scripts[i]] = fetch[Scripts[i]]
    BY <1>1, <1>4, PageFileFacts DEF IInv, ScriptsInv
  <2>2. (Ran(1)' <=> Ran(1)) /\ (Ran(2)' <=> Ran(2)) /\ (Ran(3)' <=> Ran(3))
    <3>1. \A i \in 1..3 : Ran(i)' <=> Ran(i)
      BY <1>1, <2>1 DEF Ran
    <3> QED
      BY <3>1
  <2> QED
    BY <1>1, <2>1, <2>2 DEF IInv, ScriptsInv
<1>8. UiInv'
  <2>1. Settled(PageFiles \ Icons) => Settled(PageFiles \ Icons)'
    BY <1>1, <1>4 DEF Settled
  <2> QED
    BY <1>1, <2>1 DEF IInv, UiInv
<1> QED
  BY <1>5, <1>6, <1>7, <1>8 DEF IInv

\* A script is executed after the ones before it.
LEMMA RunScriptKeeps == IInv /\ RunScript => IInv'
<1> SUFFICES ASSUME IInv, RunScript
             PROVE  IInv'
  OBVIOUS
<1>1. /\ tab = "loading" /\ ran < 3 /\ ran' = ran + 1
      /\ fetch[Scripts[ran + 1]] # "waiting"
      /\ defined' = IF fetch[Scripts[ran + 1]] = "arrived"
                    THEN defined \cup Defines(Scripts[ran + 1]) ELSE defined
      /\ UNCHANGED <<address, tab, fetch, ui, document>>
  BY ScriptFacts DEF RunScript, Settled
<1>2. TypeOK /\ ScriptsInv /\ ran \in {0, 1, 2}
  BY <1>1, ScriptFacts DEF IInv, TypeOK
<1>3. defined \subseteq {"SwaggerUIBundle", "SwaggerUIStandalonePreset", "onload"}
  BY <1>2, AllDefinitions DEF TypeOK
<1>4. /\ defined' \subseteq {"SwaggerUIBundle", "SwaggerUIStandalonePreset", "onload"}
      /\ ScriptsInv'
  <2>1. CASE ran = 0
    <3>1. Defines(Scripts[ran + 1]) = {"SwaggerUIBundle"}
      BY <2>1, ScriptFacts, Definitions
    <3> QED
      BY <1>1, <1>2, <1>3, <2>1, <3>1 DEF ScriptsInv, Ran
  <2>2. CASE ran = 1
    <3>1. Defines(Scripts[ran + 1]) = {"SwaggerUIStandalonePreset"}
      BY <2>2, ScriptFacts, Definitions
    <3> QED
      BY <1>1, <1>2, <1>3, <2>2, <3>1 DEF ScriptsInv, Ran
  <2>3. CASE ran = 2
    <3>1. Defines(Scripts[ran + 1]) = {"onload"}
      BY <2>3, ScriptFacts, Definitions
    <3> QED
      BY <1>1, <1>2, <1>3, <2>3, <3>1 DEF ScriptsInv, Ran
  <2> QED
    BY <1>2, <2>1, <2>2, <2>3
<1>5. TypeOK'
  <2>1. ran' \in 0..Len(Scripts)
    BY <1>1, <1>2, ScriptFacts
  <2> QED
    BY <1>1, <1>2, <1>4, <2>1, AllDefinitions DEF TypeOK
<1>6. NothingIsMissing' /\ UiInv'
  BY <1>1 DEF IInv, NothingIsMissing, UiInv
<1> QED
  BY <1>4, <1>5, <1>6 DEF IInv

LEMMA WindowLoadKeeps == IInv /\ WindowLoad => IInv'
<1> SUFFICES ASSUME IInv, WindowLoad
             PROVE  IInv'
  OBVIOUS
<1>1. /\ tab = "loading" /\ ran = 3 /\ Settled(PageFiles \ Icons) /\ tab' = "loaded"
      /\ Initialize
      /\ UNCHANGED <<address, fetch, ran, defined>>
  BY ScriptFacts DEF WindowLoad
<1>2. ui = "none" /\ document = "none"
  BY <1>1 DEF IInv, UiInv
<1>3. /\ ui' = IF "onload" \notin defined THEN "none"
               ELSE IF {"SwaggerUIBundle", "SwaggerUIStandalonePreset"} \subseteq defined
               THEN "built" ELSE "error"
      /\ document' \in {"none", "requested"}
  BY <1>1, <1>2 DEF Initialize
<1>4. TypeOK' /\ NothingIsMissing'
  BY <1>1, <1>3 DEF IInv, TypeOK, NothingIsMissing
<1>5. ScriptsInv' /\ UiInv'
  BY <1>1, <1>3 DEF IInv, ScriptsInv, Ran, UiInv, Settled
<1> QED
  BY <1>4, <1>5 DEF IInv

LEMMA DocumentArrivesKeeps == IInv /\ DocumentArrives => IInv'
<1> SUFFICES ASSUME IInv, DocumentArrives
             PROVE  IInv'
  OBVIOUS
<1>1. /\ document = "requested" /\ document' \in {"lost", "shown"}
      /\ UNCHANGED <<address, tab, fetch, ran, defined, ui>>
  BY DocumentIsServed DEF DocumentArrives
<1>2. tab = "loaded"
  BY <1>1 DEF IInv, UiInv
<1>3. TypeOK' /\ NothingIsMissing'
  BY <1>1 DEF IInv, TypeOK, NothingIsMissing
<1>4. ScriptsInv' /\ UiInv'
  BY <1>1, <1>2 DEF IInv, ScriptsInv, Ran, UiInv, Settled
<1> QED
  BY <1>3, <1>4 DEF IInv

LEMMA ReloadKeeps == IInv /\ Reload => IInv'
<1> SUFFICES ASSUME IInv, Reload
             PROVE  IInv'
  OBVIOUS
<1>1. /\ tab' = "following" /\ fetch' = [f \in PageFiles |-> "waiting"]
      /\ ran' = 0 /\ defined' = {} /\ ui' = "none" /\ document' = "none"
      /\ address' = address
  BY DEF Reload, NothingFetched
<1>2. TypeOK'
  BY <1>1, ScriptFacts DEF IInv, TypeOK
<1>3. NothingIsMissing' /\ ScriptsInv' /\ UiInv'
  BY <1>1 DEF NothingIsMissing, ScriptsInv, Ran, UiInv
<1> QED
  BY <1>2, <1>3 DEF IInv

\* IInv holds in every reachable state: static/swagger-ui/index.html in a browser.
THEOREM DocsInvariant == Spec => []IInv
<1>1. IInv /\ [Next]_vars => IInv'
  <2> SUFFICES ASSUME IInv, [Next]_vars
               PROVE  IInv'
    OBVIOUS
  <2>1. CASE Follow
    BY <2>1, FollowKeeps
  <2>2. CASE \E f \in PageFiles : Arrive(f)
    BY <2>2, ArriveKeeps
  <2>3. CASE RunScript
    BY <2>3, RunScriptKeeps
  <2>4. CASE WindowLoad
    BY <2>4, WindowLoadKeeps
  <2>5. CASE DocumentArrives
    BY <2>5, DocumentArrivesKeeps
  <2>6. CASE Reload
    BY <2>6, ReloadKeeps
  <2>7. CASE UNCHANGED vars
    BY <2>7 DEF vars, IInv, TypeOK, NothingIsMissing, ScriptsInv, Ran, UiInv, Settled
  <2> QED
    BY <2>1, <2>2, <2>3, <2>4, <2>5, <2>6, <2>7 DEF Next, Browse
<1> QED
  BY <1>1, InitInv, PTL DEF Spec

\* The variables keep their types: a redirect never leads away from the page.
THEOREM DocsTypes == Spec => []TypeOK
<1>1. IInv => TypeOK
  BY DEF IInv
<1> QED
  BY <1>1, DocsInvariant, PTL

\* README.md line 32, api.go lines 124-130: every reference of the page leads to a file
\* the server has, at whichever of its addresses the page was opened.
THEOREM EveryReferenceIsServed == Spec => []NothingIsMissing
<1>1. IInv => NothingIsMissing
  BY DEF IInv
<1> QED
  BY <1>1, DocsInvariant, PTL

\* swagger-initializer.js lines 1-17, index.html lines 7-17: a loaded page has its UI if
\* and only if all three scripts arrived, in whatever order they did.
THEOREM UiNeedsItsScripts == Spec => []BuiltFromWholeScripts
<1>1. IInv => BuiltFromWholeScripts
  <2> SUFFICES ASSUME IInv, tab = "loaded"
               PROVE  ui = "built" <=> \A i \in DOMAIN Scripts : fetch[Scripts[i]] = "arrived"
    BY DEF BuiltFromWholeScripts
  <2> DEFINE whole == \A i \in 1..3 : fetch[Scripts[i]] = "arrived"
  <2>1. \A i \in 1..3 : Ran(i) <=> fetch[Scripts[i]] = "arrived"
    BY DEF IInv, UiInv, Ran
  <2>2. whole <=> {"SwaggerUIBundle", "SwaggerUIStandalonePreset", "onload"} \subseteq defined
    BY <2>1 DEF IInv, ScriptsInv
  <2>3. ui = IF "onload" \notin defined THEN "none"
             ELSE IF {"SwaggerUIBundle", "SwaggerUIStandalonePreset"} \subseteq defined
             THEN "built" ELSE "error"
    BY DEF IInv, UiInv
  <2> QED
    BY <2>2, <2>3, ScriptFacts
<1> QED
  BY <1>1, DocsInvariant, PTL
=============================================================================
