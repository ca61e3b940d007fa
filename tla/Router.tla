------------------------------- MODULE Router -------------------------------
(***************************************************************************)
(* The routes of the HTTP server (CreateRestAPI in rest/api.go and         *)
(* HandlerWithOptions in rest/gen.go) and the paths the program itself     *)
(* puts into links (rest/paths.gen.go, users_handler.go).                  *)
(*                                                                         *)
(* A path is the sequence of what stands behind its slashes: "/swagger/"   *)
(* is <<"swagger", "">>.  Nothing cleans a path before it is matched.      *)
(***************************************************************************)
EXTENDS Naturals, Sequences, SequencesExt

UsersPath == <<"api", "v1", "users">>

\* The handler a GET of the path reaches; the parameter of a route is not empty.
Route(path) ==
    CASE path = <<"actuators", "health">> -> "ActuatorsHealth"
      [] path = <<"actuators", "info">> -> "ActuatorsInfo"
      [] path = UsersPath -> "GetUsers"
      [] Len(path) = 4 /\ Front(path) = UsersPath /\ Last(path) # "" -> "GetUser"
      [] path = <<"metrics">> -> "Metrics"
      [] Len(path) > 1 /\ path[1] = "swagger" -> "Swagger"
      [] path = <<"api", "docs">> -> "ApiDocs"
      [] OTHER -> "NotFound"

GetUserPath(id) == Append(UsersPath, id)

\* The URL of a user in a response: host, a slash, and a path that has its own.
SelfPath(id) == <<"">> \o GetUserPath(id)
=============================================================================
