---------------------------- MODULE AccessControl ----------------------------
(***************************************************************************)
(* Who may call Core, and what a browser session is worth: the ingress     *)
(* boundary in front of the application (security/ingress.py), the         *)
(* authentication precedence and the browser policy of mutations           *)
(* (api/auth.py), signed session cookies and CSRF tokens                   *)
(* (security/browser_sessions.py) and the three session handlers of        *)
(* api/routes.py.  A restart may change the configuration, the clock may   *)
(* be set back, and a cookie that was issued once can be presented at any  *)
(* later time: sessions are kept by nobody but the browser.                *)
(*                                                                         *)
(* Data: a token or a secret is a model value; a signature is the secret   *)
(* it was made with, so a value verifies under no other secret; None is an *)
(* absent header, setting or cookie and Bad one that is malformed or sent  *)
(* twice.                                                                  *)
(***************************************************************************)
EXTENDS Integers, FiniteSets, Sequences

CONSTANTS Tokens, Secrets, None, Bad,
          Ttls,            \* values of session_ttl_seconds
          Skew,            \* MAX_FUTURE_CLOCK_SKEW_SECONDS
          MaxClock,        \* bound on the clock
          MaxSessions      \* bound on the sessions issued

ASSUME SessionAssumption == /\ Skew \in Nat /\ Ttls \subseteq Nat \ {0}
                            /\ MaxClock \in Nat
                            /\ None \notin Tokens \cup Secrets

VARIABLES core,     \* the security part of the effective AppConfig
          clock,    \* time.time() of Core
          jar,      \* the session cookie the browser holds
          issued,   \* every session cookie ever issued
          grants    \* history: under which token, secret and ttl, and when
acVars == <<core, clock, jar, issued, grants>>

Modes == {"local", "authenticated", "home_assistant_ingress"}

\* An origin as it is written: canonicalize_http_origin drops the port that
\* the scheme implies, and rejects what is no HTTP origin.
DefaultPort(scheme) == IF scheme = "https" THEN 443 ELSE 80
Canonical(o) == IF o = Bad THEN Bad
                ELSE [o EXCEPT !.port = IF @ = DefaultPort(o.scheme) THEN 0 ELSE @]
Here == [scheme |-> "http", host |-> "core", port |-> 8377]
Panel == [scheme |-> "http", host |-> "panel", port |-> 80]
Elsewhere == [scheme |-> "http", host |-> "panel", port |-> 8080]

\* validate_mode_requirements: the configurations that load.
Configs ==
    {c \in [mode : Modes, token : Tokens \cup {None}, secret : Secrets \cup {None},
            ttl : Ttls, cors : {{}, {Canonical(Panel)}},
            trusted : {{}, {"supervisor"}}, proxyOnly : BOOLEAN] :
        /\ c.mode = "authenticated" => c.token # None
        /\ IF c.mode = "home_assistant_ingress" THEN c.trusted # {}
           ELSE c.trusted = {} /\ ~c.proxyOnly}

browser_sessions_enabled == core.token # None /\ core.secret # None
trusted_local_open == core.mode = "local" /\ core.token = None

----------------------------------------------------------------------------
(* Signed cookies and CSRF tokens. *)

Mut_api_credential_binding(token, secret) == [key |-> secret, of |-> secret]
api_credential_binding(token, secret) == [key |-> secret, of |-> token]

Cookie(sid) ==
    [sid |-> sid, issued_at |-> clock, expires_at |-> clock + core.ttl,
     binding |-> api_credential_binding(core.token, core.secret), signed |-> core.secret]

CsrfToken(sid) == [sid |-> sid, signed |-> core.secret]

\* Every cookie there can be.  The markers None and Bad are none of them, and
\* no kind of peer or user either.
CookieSet == [sid : Nat, issued_at : 0..MaxClock,
              expires_at : {t + d : t \in 0..MaxClock, d \in Ttls},
              binding : [key : Secrets, of : Tokens], signed : Secrets]

ASSUME MarkersAssumption ==
    {None, Bad} \cap ({"trusted_without_identity", "trusted_with_identity", "untrusted", "someone"}
                       \cup Tokens \cup CookieSet) = {}

validate_claims(c) ==
    /\ c.issued_at <= clock + Skew
    /\ c.expires_at > c.issued_at
    /\ c.expires_at - c.issued_at <= core.ttl
    /\ c.expires_at > clock
    /\ c.binding = api_credential_binding(core.token, core.secret)

\* The Cookie headers of a request: every occurrence of the session cookie's
\* name.  One that is malformed, or a second one, makes all of them Bad.
extract_session_cookie_value(found) ==
    IF Len(found) > 1 \/ (\E i \in DOMAIN found : found[i] = Bad) THEN Bad
    ELSE IF found = <<>> THEN None
    ELSE found[1]

\* A cookie value is None, Bad or a signed payload; only the last can load.
load_session_cookie(found) ==
    LET c == extract_session_cookie_value(found) IN
    /\ browser_sessions_enabled
    /\ c \notin {None, Bad}
    /\ c.signed = core.secret
    /\ validate_claims(c)

validate_csrf_token(t, sid) == /\ browser_sessions_enabled
                               /\ t \notin {None, Bad}
                               /\ t.signed = core.secret
                               /\ t.sid = sid

----------------------------------------------------------------------------
(* The ingress boundary: what reaches the application, and as whom. *)

\* A request: Authorization header, immediate peer, X-Remote-User-Id, session
\* cookies, Origin, CSRF header, and the route asked for.
Routes == {"probe", "status", "login", "logout", "read", "mutation", "ui"}

Bearer(req) == IF req.auth = None THEN "absent"
               ELSE IF core.token # None /\ req.auth = core.token THEN "valid"
               ELSE "invalid"

path_allows_direct_bearer(route) == route \in {"status", "logout", "read", "mutation"}
PublicRoute(route) == route \in {"probe", "status"}

Stopped == [passed |-> FALSE, kind |-> None, user |-> None]
Passed(kind, user) == [passed |-> TRUE, kind |-> kind, user |-> user]

Boundary(req) ==
    LET trusted == req.peer \in core.trusted
        plain   == IF trusted THEN "trusted_without_identity" ELSE "untrusted" IN
    IF core.mode # "home_assistant_ingress" THEN Passed(None, None)
    ELSE IF Bearer(req) = "invalid" THEN Stopped
    ELSE IF Bearer(req) = "valid" THEN
               IF \/ trusted \/ ~core.proxyOnly
                  \/ path_allows_direct_bearer(req.route) \/ PublicRoute(req.route)
               THEN Passed(plain, None) ELSE Stopped
    ELSE IF trusted /\ req.user = Bad THEN Stopped
    ELSE IF trusted /\ req.user = None THEN Passed(plain, None)
    ELSE IF trusted THEN Passed("trusted_with_identity", req.user)
    ELSE IF core.proxyOnly /\ ~PublicRoute(req.route) THEN Stopped
    ELSE Passed("untrusted", None)

----------------------------------------------------------------------------
(* authenticate_request: one identity, or 401. *)

Denied == [method |-> "denied", sid |-> None]
Identity(m) == [method |-> m, sid |-> None]

authenticate_request(req) ==
    LET at == Boundary(req) IN
    IF ~at.passed THEN Denied
    ELSE IF req.auth # None THEN
               IF Bearer(req) = "valid" THEN Identity("bearer") ELSE Denied
    ELSE IF at.user # None THEN Identity("home_assistant_ingress")
    ELSE IF at.kind = "trusted_without_identity" THEN Denied
    ELSE IF trusted_local_open THEN Identity("trusted_local")
    ELSE IF load_session_cookie(req.cookie) THEN [method |-> "session", sid |-> req.cookie[1].sid]
    ELSE Denied

\* origin_is_allowed_for_browser
OriginAllowed(o) == /\ o # Bad
                    /\ Canonical(o) = Canonical(Here) \/ Canonical(o) \in core.cors

\* enforce_mutation_browser_policy: only a session has to show a browser's
\* Origin and its own CSRF token.
MutationAllowed(req) ==
    LET id == authenticate_request(req) IN
    /\ id.method # "denied"
    /\ id.method = "session" => /\ req.origin # None /\ OriginAllowed(req.origin)
                                /\ validate_csrf_token(req.csrf, id.sid)

\* require_bearer_bootstrap and enforce_session_bootstrap_origin
BootstrapAllowed(req) == /\ Boundary(req).passed
                         /\ Bearer(req) = "valid"
                         /\ req.origin # None => OriginAllowed(req.origin)

----------------------------------------------------------------------------
(* GET /auth/session: the public status, which repeats the precedence. *)

\* browser_session_available_for_request
SessionAvailable(at) ==
    /\ browser_sessions_enabled
    /\ core.mode = "home_assistant_ingress" =>
          \/ at.user # None
          \/ at.kind # "trusted_without_identity" /\ ~core.proxyOnly

Status(m, offered, cleared) == [method |-> m, offered |-> offered, cleared |-> cleared]

Mut_SessionStatus(req) ==
    LET at == Boundary(req) IN
    IF ~at.passed THEN Status("denied", FALSE, FALSE)
    ELSE IF req.auth # None THEN
               Status(IF Bearer(req) = "valid" THEN "bearer" ELSE "denied",
                      Bearer(req) = "valid" /\ browser_sessions_enabled, FALSE)
    ELSE IF at.user # None THEN Status("home_assistant_ingress", browser_sessions_enabled, FALSE)
    ELSE IF trusted_local_open THEN Status("trusted_local", FALSE, FALSE)
    ELSE IF load_session_cookie(req.cookie)
         THEN Status("session", SessionAvailable(at), FALSE)
         ELSE Status("denied", SessionAvailable(at), req.cookie # <<>>)

SessionStatus(req) ==
    LET at == Boundary(req) IN
    IF ~at.passed THEN Status("denied", FALSE, FALSE)
    ELSE IF req.auth # None THEN
               Status(IF Bearer(req) = "valid" THEN "bearer" ELSE "denied",
                      Bearer(req) = "valid" /\ browser_sessions_enabled, FALSE)
    ELSE IF at.user # None THEN Status("home_assistant_ingress", browser_sessions_enabled, FALSE)
    ELSE IF \/ at.kind = "trusted_without_identity"
            \/ core.mode = "home_assistant_ingress" /\ core.proxyOnly THEN
               Status("denied", FALSE, FALSE)
    ELSE IF trusted_local_open THEN Status("trusted_local", FALSE, FALSE)
    ELSE IF core.mode = "home_assistant_ingress" /\ ~SessionAvailable(at) THEN
               Status("denied", FALSE, FALSE)
    ELSE IF load_session_cookie(req.cookie) THEN Status("session", SessionAvailable(at), FALSE)
    ELSE Status("denied", SessionAvailable(at), req.cookie # <<>>)

\* build_security_config_status: what the posture page says of the routes.
auth_required == \/ core.token # None \/ browser_sessions_enabled
                 \/ core.mode = "home_assistant_ingress" /\ core.trusted # {}

----------------------------------------------------------------------------
Requests(routes, cookies, origins, csrfs) ==
    [auth : Tokens \cup {None, Bad}, peer : {"supervisor", "other"},
     user : {None, Bad, "someone"}, cookie : cookies, origin : origins,
     csrf : csrfs, route : routes]

Sent(c) == IF c = None THEN <<>> ELSE <<c>>

AcInit == /\ core \in Configs
          /\ clock = 0 /\ jar = None /\ issued = {} /\ grants = <<>>

\* POST /auth/session
create_auth_session(req) ==
    /\ BootstrapAllowed(req) /\ browser_sessions_enabled
    /\ Cardinality(issued) < MaxSessions
    /\ LET sid == Cardinality(issued) + 1 IN
       /\ jar' = Cookie(sid)
       /\ issued' = issued \cup {Cookie(sid)}
       /\ grants' = [s \in DOMAIN grants \cup {sid} |->
                        IF s = sid THEN [token |-> core.token, secret |-> core.secret,
                                         ttl |-> core.ttl, at |-> clock]
                        ELSE grants[s]]
    /\ UNCHANGED <<core, clock>>

\* DELETE /auth/session: the browser forgets the cookie, Core knows of none.
delete_auth_session(req) ==
    /\ jar # None /\ MutationAllowed(req)
    /\ jar' = None
    /\ UNCHANGED <<core, clock, issued, grants>>

\* GET /auth/session
get_auth_session(req) ==
    /\ SessionStatus(req).cleared
    /\ jar' = None
    /\ UNCHANGED <<core, clock, issued, grants>>

\* Core is restarted with another configuration.
Restart(c) == /\ c # core /\ core' = c
              /\ UNCHANGED <<clock, jar, issued, grants>>

Tick == /\ clock < MaxClock /\ clock' = clock + 1
        /\ UNCHANGED <<core, jar, issued, grants>>

ClockSetBack == /\ clock > 0 /\ clock' = clock - 1
                /\ UNCHANGED <<core, jar, issued, grants>>

\* The tokens a browser can present: the ones Core handed out with a cookie
\* or with a status, under the secret of that time.
CsrfTokens == {[sid |-> c.sid, signed |-> c.signed] : c \in issued} \cup {None, Bad}

CookieHeaders == {<<>>, <<Bad>>} \cup {<<c>> : c \in issued} \cup {<<c, c>> : c \in issued}

AcNext ==
        \/ \E r \in Requests({"login"}, {Sent(jar)}, {None, Here, Elsewhere}, {None}) :
               create_auth_session(r)
        \/ \E r \in Requests({"logout"}, {Sent(jar)}, {None, Here}, CsrfTokens) :
               delete_auth_session(r)
        \/ \E r \in Requests({"status"}, {Sent(jar)}, {None}, {None}) : get_auth_session(r)
        \/ \E c \in Configs : Restart(c)
        \/ Tick
        \/ ClockSetBack

----------------------------------------------------------------------------
(* Properties *)

\* get_auth_session repeats the precedence of authenticate_request in its own
\* words.  For every request that reaches both, the status names exactly the
\* identity a protected read would get; it makes the browser drop a cookie
\* only when that cookie is worth nothing; a browser that is told to log in
\* can do so and its new session then opens the same door; and the posture
\* page says that reads need authentication exactly when an anonymous read is
\* refused.
StatusTellsTheTruth ==
    /\ \A r \in Requests({"status"}, CookieHeaders, {None}, {None}) :
          LET s  == SessionStatus(r)
              id == authenticate_request([r EXCEPT !.route = "read"]) IN
          /\ s.method = id.method
          /\ s.cleared => ~load_session_cookie(r.cookie)
          /\ s.method = "denied" /\ s.offered /\ r.auth = None =>
                /\ BootstrapAllowed([r EXCEPT !.route = "login", !.auth = core.token])
                /\ authenticate_request([r EXCEPT !.route = "read", !.cookie = <<Cookie(0)>>])
                      = [method |-> "session", sid |-> 0]
    /\ \A r \in Requests({"read"}, {<<>>}, {None}, {None}) :
          r.auth = None /\ r.user = None =>
             (authenticate_request(r).method = "denied" <=> auth_required)

\* A session cookie is a copy nobody can call back, so what it opens rests on
\* what Core holds now: an accepted session was issued under the token and the
\* secret in force, lies within the lifetime of its issue and of the present
\* configuration whatever the clock did in between, and changes state only
\* with the CSRF token of the same session and from an allowed origin.
SessionsRestOnLiveCredentials ==
    \A r \in Requests({"read"}, {<<c>> : c \in issued}, {None, Here, Elsewhere, Panel}, CsrfTokens) :
       LET id == authenticate_request(r)
           g  == grants[r.cookie[1].sid] IN
       id.method = "session" =>
          /\ g.token = core.token /\ g.secret = core.secret
          /\ clock < g.at + g.ttl /\ clock < g.at + core.ttl
          /\ g.at <= clock + Skew
          /\ MutationAllowed(r) =>
                /\ r.csrf \notin {None, Bad} /\ r.csrf.sid = r.cookie[1].sid
                /\ r.origin # Elsewhere
=============================================================================
