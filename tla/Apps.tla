-------------------------------- MODULE Apps --------------------------------
(***************************************************************************)
(* The Lua app manager of src/pkg/apps/apps.go: New builds the apps map    *)
(* from the configuration (newApp: the auth function, a proxy, a gluapp    *)
(* app unless the app is scheduled), Register routes /api/apps/{name}/...  *)
(* to appHandler and an app's own domain to subdomainHandler, and          *)
(* App.serve checks the auth, cleans the path, refuses a path holding a    *)
(* ".." element, then hands the request to the proxy or the gluapp app,   *)
(* else answers 404.                                                       *)
(*                                                                         *)
(* A request path is its sequence of characters over a small alphabet     *)
(* (the separators "/" and "\", ".", and one letter standing for any       *)
(* other run of characters); path.Clean and containsDotDot are modelled by *)
(* what they do to it.  The outcome of the auth function (basic auth or    *)
(* IndieAuth) and of IndieAuth's Redirect are inputs.  The handlers keep   *)
(* no state between requests, so a behaviour is one request and its       *)
(* response.                                                               *)
(***************************************************************************)
EXTENDS Integers, Sequences

LOCAL INSTANCE SequencesExt

CONSTANTS
    AppNames,   \* the names in conf.Apps
    Conf,       \* Conf[a]: what conf.Apps sets for app a
    Names,      \* the {name} values requests carry (AppNames and others)
    Chars,      \* the alphabet of request paths
    MaxLen,     \* bound on the length of a request path
    IARedirect  \* the path "indieauth-redirect" (a one-character path)

ConfType == [basic : BOOLEAN, indieauth : BOOLEAN, path : BOOLEAN,
             remote : BOOLEAN, proxy : BOOLEAN, scheduled : BOOLEAN,
             domain : BOOLEAN]

ASSUME /\ Conf \in [AppNames -> ConfType] /\ AppNames \subseteq Names
       /\ {"/", "\\", "."} \subseteq Chars /\ MaxLen \in Nat

VARIABLE resp   \* the response: its status and the backend the request reached

vars == <<resp>>

NoResp == [status |-> "none", backend |-> "none", path |-> <<>>]

-----------------------------------------------------------------------------
(* Paths *)

\* strings.FieldsFunc(v, f): the non-empty runs of characters outside seps.
Fields(v, seps) ==
    LET step(acc, c) ==
            IF c \in seps
            THEN <<IF acc[2] = <<>> THEN acc[1] ELSE Append(acc[1], acc[2]), <<>>>>
            ELSE <<acc[1], Append(acc[2], c)>>
        last == FoldLeft(step, <<<<>>, <<>>>>, v)
    IN  IF last[2] = <<>> THEN last[1] ELSE Append(last[1], last[2])

Dot == <<".">>
DotDot == <<".", ".">>

\* path.Clean of a rooted path: "." elements vanish, ".." removes the
\* element before it (none at the root), empty elements and a trailing
\* slash go; only "/" separates.
Clean(p) ==
    LET step(st, e) == CASE e = Dot -> st
                         [] e = DotDot -> IF st = <<>> THEN st ELSE Front(st)
                         [] OTHER -> Append(st, e)
        elems == FoldLeft(step, <<>>, Fields(p, {"/"}))
    IN  IF elems = <<>> THEN <<"/">>
        ELSE FoldLeft(LAMBDA s, e : s \o <<"/">> \o e, <<>>, elems)

\* containsDotDot (borrowed from net/http): ".." occurs, and is a whole
\* element when both "/" and "\" separate.
containsDotDot(v) ==
    /\ \E i \in 1 .. Len(v) - 1 : v[i] = "." /\ v[i + 1] = "."
    /\ \E i \in DOMAIN Fields(v, {"/", "\\"}) : Fields(v, {"/", "\\"})[i] = DotDot

-----------------------------------------------------------------------------
(* Configuration *)

\* newApp: basic auth when a username or password is set, IndieAuth
\* replacing it when an endpoint is set; a remote app is cloned into a temp
\* dir that becomes its path; a proxy when conf.Proxy is set; a scheduled
\* app returns before the gluapp app is built, which needs a path.
newApp(c) ==
    [auth   |-> c.basic \/ c.indieauth,
     ia     |-> c.indieauth,
     proxy  |-> c.proxy,
     gluapp |-> (c.path \/ c.remote) /\ ~c.scheduled,
     domain |-> c.domain]

\* New: apps.apps[app.name] = newApp(appConf) for every configured app.
apps == [a \in AppNames |-> newApp(Conf[a])]

-----------------------------------------------------------------------------

Init == resp = NoResp

\* App.serve(p): a failing auth answers 401 (basic) or goes through
\* IndieAuth's Redirect (403 on ErrForbidden, a panic on another error, a
\* redirect otherwise).  Then req.URL.Path = p, p = path.Clean(p), and a
\* ".." element writes a 500 "Invalid URL path" -- and serving goes on: the
\* proxy gets the cleaned path, the gluapp app the uncleaned one (set on
\* req.URL before Clean), and with neither the answer is a 404.  The first
\* status written is the one the client gets.
serve(app, p, authOK, iaOutcome) ==
    LET cp == Clean(p)
        bad == containsDotDot(cp)
        first(s) == IF bad THEN "500" ELSE s
    IN
    resp' = CASE app.auth /\ ~authOK /\ app.ia ->
                   [status |-> CASE iaOutcome = "forbidden" -> "403"
                                 [] iaOutcome = "error" -> "500"
                                 [] OTHER -> "302",
                    backend |-> "none", path |-> p]
              [] app.auth /\ ~authOK -> [status |-> "401", backend |-> "none", path |-> p]
              [] app.proxy -> [status |-> first("app"), backend |-> "proxy", path |-> cp]
              [] app.gluapp -> [status |-> first("app"), backend |-> "gluapp", path |-> p]
              [] OTHER -> [status |-> first("404"), backend |-> "none", path |-> p]

\* The request paths: "/" followed by up to MaxLen characters.
Paths == {<<"/">> \o s : s \in SeqOf(Chars, MaxLen)}

\* appHandler (/api/apps/{name}/ and /api/apps/{name}/{path:.+}): an
\* unknown name is a 404; "indieauth-redirect" on an IndieAuth app runs
\* its RedirectHandler; otherwise serve("/" + path).
AppRequest(name, p, authOK, iaOutcome) ==
    /\ resp = NoResp
    /\ IF name \notin AppNames
       THEN resp' = [status |-> "404", backend |-> "none", path |-> p]
       ELSE IF p = <<"/", IARedirect>> /\ apps[name].ia
       THEN resp' = [status |-> "app", backend |-> "iaredirect", path |-> p]
       ELSE serve(apps[name], p, authOK, iaOutcome)

\* subdomainHandler, registered for each app with a domain: serve(r.URL.Path).
SubdomainRequest(a, p, authOK, iaOutcome) ==
    /\ resp = NoResp
    /\ apps[a].domain
    /\ serve(apps[a], p, authOK, iaOutcome)

Next ==
    \E p \in Paths \cup {<<"/", IARedirect>>}, authOK \in BOOLEAN,
       iaOutcome \in {"forbidden", "error", "redirect"} :
        \/ \E name \in Names : AppRequest(name, p, authOK, iaOutcome)
        \/ \E a \in AppNames : SubdomainRequest(a, p, authOK, iaOutcome)

Spec == Init /\ [][Next]_vars

-----------------------------------------------------------------------------
(* Properties *)

TypeOK ==
    resp \in [status : {"none", "app", "302", "401", "403", "404", "500"},
              backend : {"none", "proxy", "gluapp", "iaredirect"},
              path : Seq(Chars \cup {IARedirect})]

\* serve refuses a path with a ".." element ("Invalid URL path"): such a
\* request never reaches the proxy or the app's Lua code.
DotDotNeverServed ==
    resp.backend \in {"proxy", "gluapp"} => ~containsDotDot(Clean(resp.path))

====
