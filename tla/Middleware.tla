------------------------------ MODULE Middleware ------------------------------
(***************************************************************************)
(* The decisions a request meets on its way to its handler: CORS           *)
(* (middleware/cors.go), the session cookie (session/), authentication and *)
(* grants (auth/auth.go), CSRF (middleware/csrf.go) and the lookup of the  *)
(* route (app.go).                                                         *)
(*                                                                         *)
(* A request is a record of what these decisions tell apart.  An origin is *)
(* "own" (the origin of the request's Host), "partner" (another origin the *)
(* policy lists), "other" or "none"; a token is "none", "forged" or the    *)
(* name of a token this server has signed.                                 *)
(***************************************************************************)
EXTENDS Binding

CONSTANTS
    AllowedOrigins,  \* CORSConfig.AllowedOrigins; "*" is the wildcard
    AllowedMethods,  \* CORSConfig.AllowedMethods
    AllowedHeaders,  \* CORSConfig.AllowedHeaders
    AllowCredentials,\* CORSConfig.AllowCredentials
    TrustedOrigins,  \* CSRFConfig.TrustedOrigins
    SecureCookies,   \* not CSRFConfig.DangerouslyAllowInsecureCookies
    Signed,          \* the tokens that carry a valid signature
    Required,        \* the grants of auth.Require on the route
    SessionKeys,     \* the keys of the session manager, the current one first
    Now, MaxAge, Skew \* the time of the request, session.Config.MaxAge and clockSkewSeconds

\* The outcomes of a middleware: it calls the next one, returns an error, or answers.
Pass == [kind |-> "next", err |-> NoError]
Refuse(err) == [kind |-> "error", err |-> err]
Answer == [kind |-> "answer", err |-> NoError]

--------------------------------------------------------------------------------
\* CORS.

\* What newCORSPolicy demands of its configuration, and its default.
CORSPolicyIsValid == "*" \in AllowedOrigins => AllowedOrigins = {"*"} /\ ~AllowCredentials
ASSUME CORSAssumption == CORSPolicyIsValid

Methods == IF AllowedMethods = {} THEN {"GET", "HEAD", "POST"} ELSE AllowedMethods

Preflight(r) == r.method = "OPTIONS" /\ r.asksMethod # "none"

\* What a preflight asks for is listed.
Allows(r) ==
    /\ {r.origin, "*"} \intersect AllowedOrigins # {}
    /\ r.asksMethod \in Methods
    /\ r.asksHeaders \subseteq AllowedHeaders

\* A request without Origin goes on, and so does any that is not a preflight: for one that
\* is not allowed the response lacks the headers that would share it.
Cors(r) ==
    IF r.origin = "none" \/ ~Preflight(r) THEN Pass
    ELSE IF Allows(r) THEN Answer ELSE Refuse(HTTPError(403))

--------------------------------------------------------------------------------
\* The session cookie.  One with the key "none" is not there; an unsound one is too large,
\* not encoded or of another format.

\* Manager.decode: the position of the key that opens it, if it is not too old or too new.
Decode(cookie) ==
    LET opens == {i \in DOMAIN SessionKeys : cookie.sound /\ cookie.key = SessionKeys[i]}
        timely == cookie.issued \in (Now - MaxAge + 1)..(Now + Skew) /\ cookie.issued > 0
    IN  IF timely /\ opens # {} THEN CHOOSE i \in opens : \A j \in opens : i <= j ELSE 0

--------------------------------------------------------------------------------
\* Authentication.  What the authenticator made of the credentials: "none", "invalid",
\* "failed" (another error), "unproven" (an identity that is not authenticated), "blank"
\* (authenticated without a subject or with a blank grant), or "known", with its grants.

Anonymous == [authenticated |-> FALSE, grants |-> {}]

\* The state the middleware installs for a request it lets through.
Identity(r) ==
    IF r.caller = "none" THEN Anonymous ELSE [authenticated |-> TRUE, grants |-> r.grants]

NormalizeIdentity(r) == IF r.caller = "blank" THEN Plain ELSE NoError

Authenticate(r) ==
    CASE r.caller = "invalid" -> Refuse(HTTPError(401))
      [] r.caller \in {"failed", "unproven"} -> Refuse(Plain)
      [] r.caller = "none" -> Pass
      [] OTHER -> IF NormalizeIdentity(r) = NoError THEN Pass ELSE Refuse(NormalizeIdentity(r))

Require(r) ==
    IF ~Identity(r).authenticated THEN Refuse(HTTPError(401))
    ELSE IF Required \subseteq Identity(r).grants THEN Pass ELSE Refuse(HTTPError(403))

--------------------------------------------------------------------------------
\* CSRF.

SafeMethod(r) == r.method \in {"GET", "HEAD", "OPTIONS"}

\* Origin, or Referer when there is none, against the trusted origins or the own one.
AllowsRequestOrigin(r) ==
    LET source == IF r.origin # "none" THEN r.origin ELSE r.referer
    IN  IF TrustedOrigins # {} THEN source \in TrustedOrigins ELSE source = "own"

ValidToken(token) == token \in Signed

\* The header wins over the form field, which is looked for in forms only.
ReadsForm(r) == r.headerToken = "none" /\ r.contentType \in FormTypes

\* The form is parsed when the request has come that far.
ParsesForm(r) ==
    /\ SecureCookies \/ r.loopback
    /\ ~SafeMethod(r) /\ AllowsRequestOrigin(r) /\ ValidToken(r.cookieToken) /\ ReadsForm(r)

RequestToken(r) ==
    IF r.headerToken # "none" THEN r.headerToken
    ELSE IF r.contentType \in FormTypes THEN r.formToken ELSE "none"

\* A valid cookie is kept; otherwise one is set, which needs random bytes.
IssueToken(r) == IF ValidToken(r.cookieToken) \/ r.random THEN Pass ELSE Refuse(Plain)

\* Faulty: the token is only compared with the cookie, whoever made the cookie.
CsrfUnsigned(r) ==
    IF SafeMethod(r) \/ RequestToken(r) = r.cookieToken THEN Pass ELSE Refuse(HTTPError(403))

\* Insecure cookies are for loopback hosts only.  For a method that is not safe the
\* origin, the cookie and the token have to agree.
Csrf(r) ==
    IF ~SecureCookies /\ ~r.loopback THEN Refuse(HTTPError(500))
    ELSE IF SafeMethod(r) THEN IssueToken(r)
    ELSE IF ~AllowsRequestOrigin(r) \/ ~ValidToken(r.cookieToken) THEN Refuse(HTTPError(403))
    ELSE IF ReadsForm(r) /\ ParseForm(r) # NoError THEN Refuse(ParseForm(r))
    ELSE IF RequestToken(r) = r.cookieToken THEN Pass ELSE Refuse(HTTPError(403))

--------------------------------------------------------------------------------
\* Routing.

\* routeMiss: the mux knows the path with other methods only, or not at all.
Dispatch(r) ==
    CASE r.route = "method" -> Refuse(HTTPError(405))
      [] r.route = "missing" -> Refuse(HTTPError(404))
      [] OTHER -> Pass
================================================================================
