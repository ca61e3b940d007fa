------------------------------- MODULE ApiDocs -------------------------------
(***************************************************************************)
(* The API documents: a browser that opens the Swagger UI the server       *)
(* embeds (embed.go, rest/api.go lines 124-130).  The page                 *)
(* static/swagger-ui/index.html refers to two stylesheets, two icons and   *)
(* three scripts; the last script, swagger-initializer.js, builds the UI   *)
(* out of what the other two define, once the window is loaded, and the UI *)
(* fetches the OpenAPI document.                                           *)
(*                                                                         *)
(* Requests for the files are answered in any order.  Scripts are executed *)
(* in the order of the page, after its stylesheets; one whose request is   *)
(* lost is passed over.  The load event waits for all but the icons.  The  *)
(* two libraries are known by the names the initializer uses.              *)
(***************************************************************************)
EXTENDS Router

CONSTANT Links      \* paths a user may open the page at: the link of README.md line 32

\* The addresses at which the server has the page, and those the links lead to.
Pages == {<<"swagger", "index.html">>, <<"swagger", "">>}

ASSUME LinksAssumption == Links \subseteq Pages

VARIABLES
    address,    \* the path of the page in the browser
    tab,        \* following, loading, loaded, notFound, broken
    fetch,      \* of each file of the page: waiting, arrived, missing, lost
    ran,        \* how many scripts have been executed or passed over
    defined,    \* the globals scripts have defined
    ui,         \* window.ui: none, built, error
    document    \* what the UI fetches: none, requested, shown, failed, lost

vars == <<address, tab, fetch, ran, defined, ui, document>>

Stylesheets == {"swagger-ui.css", "index.css"}
Icons == {"favicon-32x32.png", "favicon-16x16.png"}

\* A faulty Scripts: the page forgets the preset the initializer uses.
ScriptsNoPreset == <<"swagger-ui-bundle.js", "swagger-initializer.js">>

Scripts == <<"swagger-ui-bundle.js", "swagger-ui-standalone-preset.js",
             "swagger-initializer.js">>
PageFiles == Stylesheets \cup Icons \cup {Scripts[i] : i \in DOMAIN Scripts}

\* The files of static/swagger-ui, all of which the pattern in embed.go names.
Embedded ==
    {"favicon-16x16.png", "favicon-32x32.png", "index.css", "index.html",
     "oauth2-redirect.html", "swagger-initializer.js", "swagger-ui-bundle.js",
     "swagger-ui-es-bundle-core.js", "swagger-ui-es-bundle.js",
     "swagger-ui-standalone-preset.js", "swagger-ui.css", "swagger-ui.js"}

OK(body) == [status |-> 200, body |-> body]
NotFound == [status |-> 404, body |-> "404 page not found"]

\* A reference of the page, to be resolved against its address.
Relative(base, name) == Append(Front(base), name)

\* A faulty FileServer: it sends the folder to its index, and the index to the folder.
FileServerLoops(path) ==
    IF path[Len(path)] \in {"index.html", ""}
    THEN [status |-> 301,
          body |-> Relative(path, IF path[Len(path)] = "" THEN "index.html" ELSE "")]
    ELSE IF Len(path) = 2 /\ path[2] \in Embedded THEN OK(path[2]) ELSE NotFound

\* http.FileServer behind StripPrefix: it redirects index.html to its folder "./"
\* and serves index.html for the folder itself.
FileServer(path) ==
    IF path[Len(path)] = "index.html" THEN [status |-> 301, body |-> Relative(path, "")]
    ELSE IF path = <<"swagger", "">> THEN OK("index.html")
    ELSE IF Len(path) = 2 /\ path[2] \in Embedded THEN OK(path[2]) ELSE NotFound

Get(path) ==
    IF Route(path) = "Swagger" THEN FileServer(path)
    ELSE IF Route(path) = "ApiDocs" THEN OK("openapi.yml")
    ELSE IF Route(path) = "NotFound" THEN NotFound ELSE OK(Route(path))

\* A faulty DocsUrl: relative to the page.
DocsUrlRelative(base) == Front(base) \o <<"api", "docs">>

\* The url the initializer gives the UI; it does not depend on the page.
DocsUrl(base) == <<"api", "docs">>

\* What executing a script defines; the initializer sets window.onload.
Defines(script) ==
    CASE script = "swagger-ui-bundle.js" -> {"SwaggerUIBundle"}
      [] script = "swagger-ui-standalone-preset.js" -> {"SwaggerUIStandalonePreset"}
      [] script = "swagger-initializer.js" -> {"onload"}

NothingFetched == [f \in PageFiles |-> "waiting"]

Init ==
    /\ address \in Links
    /\ tab = "following"
    /\ fetch = NothingFetched
    /\ ran = 0 /\ defined = {} /\ ui = "none" /\ document = "none"

\* The browser requests the page, and follows a redirect.
Follow ==
    /\ tab = "following"
    /\ LET r == Get(address) IN
        \/ r.status = 301 /\ address' = r.body /\ UNCHANGED tab
        \/ r.status = 200 /\ tab' = "loading" /\ UNCHANGED address
        \/ r.status = 404 /\ tab' = "notFound" /\ UNCHANGED address
        \/ tab' = "broken" /\ UNCHANGED address
    /\ UNCHANGED <<fetch, ran, defined, ui, document>>

\* The answer for a file of the page arrives, or is lost; that for an icon perhaps
\* after the load event.
Arrive(f) ==
    /\ tab \in {"loading", "loaded"} /\ fetch[f] = "waiting"
    /\ \/ fetch' = [fetch EXCEPT ![f] = "lost"]
       \/ fetch' = [fetch EXCEPT ![f] =
            IF Get(Relative(address, f)) = OK(f) THEN "arrived" ELSE "missing"]
    /\ UNCHANGED <<address, tab, ran, defined, ui, document>>

Settled(files) == \A f \in files : fetch[f] # "waiting"

\* A faulty RunScript: a script that was lost takes the next one with it.
RunScriptSkips ==
    /\ tab = "loading" /\ ran < Len(Scripts)
    /\ Settled(Stylesheets \cup {Scripts[ran + 1]})
    /\ ran' = IF fetch[Scripts[ran + 1]] = "arrived" THEN ran + 1 ELSE ran + 2
    /\ defined' = defined \cup Defines(Scripts[ran + 1])
    /\ UNCHANGED <<address, tab, fetch, ui, document>>

\* The next script of the page is executed.
RunScript ==
    /\ tab = "loading" /\ ran < Len(Scripts)
    /\ Settled(Stylesheets \cup {Scripts[ran + 1]})
    /\ ran' = ran + 1
    /\ defined' = IF fetch[Scripts[ran + 1]] = "arrived"
                  THEN defined \cup Defines(Scripts[ran + 1]) ELSE defined
    /\ UNCHANGED <<address, tab, fetch, ui, document>>

\* window.onload, if it is set: SwaggerUIBundle({...}) needs both libraries, and a
\* missing one is a ReferenceError, after which window.ui stays undefined.
Initialize ==
    IF "onload" \notin defined THEN UNCHANGED <<ui, document>>
    ELSE IF {"SwaggerUIBundle", "SwaggerUIStandalonePreset"} \subseteq defined
    THEN ui' = "built" /\ document' = "requested"
    ELSE ui' = "error" /\ UNCHANGED document

\* The load event: every file but the icons has arrived or failed and every script is
\* done.
WindowLoad ==
    /\ tab = "loading" /\ ran = Len(Scripts) /\ Settled(PageFiles \ Icons)
    /\ tab' = "loaded"
    /\ Initialize
    /\ UNCHANGED <<address, fetch, ran, defined>>

\* The UI shows the document it has fetched, or the failure.
DocumentArrives ==
    /\ document = "requested"
    /\ \/ document' = "lost"
       \/ document' = IF Get(DocsUrl(address)) = OK("openapi.yml") THEN "shown" ELSE "failed"
    /\ UNCHANGED <<address, tab, fetch, ran, defined, ui>>

\* The user reloads the page, at any time.
Reload ==
    /\ tab # "following"
    /\ tab' = "following"
    /\ fetch' = NothingFetched
    /\ ran' = 0 /\ defined' = {} /\ ui' = "none" /\ document' = "none"
    /\ UNCHANGED address

Browse == Follow \/ (\E f \in PageFiles : Arrive(f)) \/ RunScript \/ WindowLoad \/ DocumentArrives

Next == Browse \/ Reload

\* The browser goes on with its work, and requests are answered or given up.
Spec == Init /\ [][Next]_vars /\ WF_vars(Browse)

(***************************************************************************)
(* Correctness.                                                            *)
(***************************************************************************)
\* The types of the variables.
TypeOK ==
    /\ address \in Pages
    /\ tab \in {"following", "loading", "loaded", "notFound", "broken"}
    /\ fetch \in [PageFiles -> {"waiting", "arrived", "missing", "lost"}]
    /\ ran \in 0..Len(Scripts)
    /\ defined \subseteq UNION {Defines(Scripts[i]) : i \in DOMAIN Scripts}
    /\ ui \in {"none", "built", "error"}
    /\ document \in {"none", "requested", "shown", "failed", "lost"}

\* README.md line 32, api.go lines 124-130: whatever address the UI was opened at,
\* every reference of the page, of its scripts and of the initializer leads to a
\* file the server has; what fails was lost on the way.
NothingIsMissing ==
    /\ tab # "notFound" /\ document # "failed"
    /\ \A f \in PageFiles : fetch[f] # "missing"

\* swagger-initializer.js lines 1-17, index.html lines 7-17: the page loads all that
\* its initializer uses, in an order that lets it be used: when the three scripts
\* arrived, in whatever order, and whatever became of the stylesheets and icons, the
\* loaded page has its UI; without one of them it has none.
BuiltFromWholeScripts ==
    tab = "loaded" =>
        (ui = "built" <=> \A i \in DOMAIN Scripts : fetch[Scripts[i]] = "arrived")

\* What the document needs on its way: the page, the scripts and its own request.
Lost ==
    \/ tab = "broken" \/ document = "lost"
    \/ \E i \in DOMAIN Scripts : fetch[Scripts[i]] = "lost"

\* A page that is opened, and not reloaded for ever, ends up showing the document
\* unless the page, a script or the document is lost; a lost stylesheet or icon does
\* not keep it from being shown.
DocumentIsShown == <>[](document = "shown" \/ Lost) \/ []<><<Reload>>_vars
=============================================================================
