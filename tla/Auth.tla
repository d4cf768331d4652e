-------------------------------- MODULE Auth --------------------------------
(***************************************************************************)
(* PsychicRequest::authenticate and requestAuthentication: Basic and       *)
(* Digest, with the realm, nonce and opaque of a challenge kept in the     *)
(* session.  A hash is the record of what went into it.                    *)
(***************************************************************************)

CONSTANT NoValue   \* a session key that is not set, a header that is not there

NoKeys == [realm |-> NoValue, nonce |-> NoValue]

\* Verb as it would be if the switch had no case for POST
VerbNoPost(method) == IF method \in {"GET", "PUT", "DELETE"} THEN method ELSE "GET"

\* The method in the hash H2: those the switch does not name count as GET
Verb(method) == IF method \in {"GET", "POST", "PUT", "DELETE"} THEN method ELSE "GET"

Digest(password, realm, nonce, verb, uri) ==
  [password |-> password, realm |-> realm, nonce |-> nonce, verb |-> verb, uri |-> uri]

\* authenticate: Basic compares the password; Digest wants the realm, nonce and opaque
\* (made with the nonce) of this session and the hash of the request's URI, which a
\* rewrite has replaced by its own.
Authenticate(auth, keys, method, uri) ==
  IF auth = NoValue THEN FALSE
  ELSE IF auth.mode = "basic" THEN auth.password = "right"
  ELSE /\ auth.realm = keys.realm
       /\ auth.nonce = keys.nonce
       /\ auth.response = Digest("right", auth.realm, auth.nonce, Verb(method), uri)

\* requestAuthentication: the session's realm is the one asked for last, its nonce the first
Challenged(keys, mode, realm, fresh) ==
  [realm |-> realm,
   nonce |-> IF mode = "digest" /\ keys.nonce = NoValue THEN fresh ELSE keys.nonce]

=============================================================================
