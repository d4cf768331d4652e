------------------------------ MODULE Exchange ------------------------------
(***************************************************************************)
(* A browser loads pages from a server: static files, which the            *)
(* application may replace meanwhile, and pages of callbacks that read     *)
(* what a form has sent; behind a CORS and an authentication middleware.   *)
(* The browser asks for one page at a time over a connection that may be   *)
(* lost; it keeps what it was given, with the validators, and the          *)
(* challenge it was last sent for each page.                               *)
(***************************************************************************)
EXTENDS StaticFile, Auth

CONSTANTS
  Sites,      \* the servers to look at, with what their browser does
  Pages,
  MaxVersion, \* bound on the versions of the file
  MaxLosses   \* bound on the connections lost

ASSUME BoundsAssumption ==
  MaxHeaders \in Nat \ {0} /\ MaxVersion \in Nat \ {0} /\ MaxLosses \in Nat

Text == Seq(STRING)

\* Names, values and paths are texts; the default headers are none of those that a callback
\* or the static file handler sets; and what is put in the place of a URI has the fields of
\* extra.
ASSUME SitesAssumption ==
  /\ NoValue \notin Pages
  /\ \A s \in Sites :
       /\ s.versions \in 1 .. MaxVersion
       /\ s.chain \in Seq({"cors", "auth"})
       /\ s.defaults \in Seq(STRING)
       /\ Range(s.defaults) \cap {"Set-Cookie", "Content-Encoding", "Last-Modified", "ETag"} = {}
       /\ \A p \in Pages : s.page[p].path \in Text
       /\ \A c \in s.cookies : c.name \in Text /\ c.value \in Text
       /\ s.queries \cup s.bodies \cup {s.extra} \subseteq Seq([name : Text, value : Text])
       /\ s.rewrites \in Seq([from : Text, to : Text])
       /\ \A i \in DOMAIN s.rewrites : After(s.rewrites[i].to, "?") = FormText(s.extra)

\* The file a path below the mount point stands for: the one of this name, where no other
\* is below it, or the default file of a directory
LeadsTo(s, rest, file) ==
  LET path == Trimmed(s.root) \o rest
      directory == Last(IF rest = <<>> THEN WithSlash(s.root) ELSE rest) = "/"
      default == (IF path # <<>> /\ Last(path) = "/" THEN path ELSE Append(path, "/")) \o s.defaultFile
      There(name) == {name, Gz(name)} \cap s.files # {}
  IN  /\ \A i \in 1 .. Len(rest) - 1 : ~ (rest[i] = "." /\ rest[i + 1] = ".")
      /\ \/ ~directory /\ file = path /\ (s.defaultFile = <<>> \/ ~There(default))
         \/ (directory \/ ~There(path)) /\ s.defaultFile # <<>> /\ file = default

\* A page of type static is a file of its own, in one form or both; its path, which is not
\* rewritten, leads to it.  And so is the file that is updated.
ASSUME FilesAssumption ==
  \A s \in Sites :
    /\ \A f \in s.files, v \in 0 .. MaxVersion : [name |-> f, version |-> v] \notin {NoFile, NoBody}
    /\ s.there \subseteq s.files
    /\ s.mount \in Text /\ s.updated \in Text
    /\ s.updated # <<>> => {s.updated, Gz(s.updated)} \subseteq s.files /\ {s.updated, Gz(s.updated)} \cap s.there # {}
    /\ \A p \in {q \in Pages : s.page[q].type = "static"} :
         LET path == s.page[p].path
             file == s.page[p].file
             forms == {file, Gz(file)}
         IN  /\ s.page[p].method = "GET" /\ \A i \in DOMAIN s.rewrites : s.rewrites[i].from # PathText(path)
             /\ \E i \in 1 .. Len(path) + 1 :
                  LET rest == SubSeq(path, i, Len(path)) IN
                  PathText(path) = Trimmed(s.mount) \o PathText(rest) /\ LeadsTo(s, rest, file)
             /\ file \in Text /\ file # <<>> /\ Last(file) # ".gz"
             /\ forms \cap s.dirs = {} /\ forms \cap s.there # {}
             /\ file = s.updated \/ s.updated = <<>> \/ forms \cap {s.updated, Gz(s.updated)} = {}

VARIABLES
  site,     \* one of Sites
  fs,       \* file |-> version of its content, 0 if it is not there
  steps,    \* what is left of an update of the file
  version,  \* the version of the last update
  stamp,    \* _last_modified, the version the application has told of, or NoStamp
  handler,  \* the members of the PsychicStaticFileHandler
  keys,     \* realm and nonce in the session
  session,  \* which session it is
  want,     \* the pages the browser loads
  stage,    \* of the exchange: none, asked, open, answered
  page,     \* the page of the exchange, or NoValue
  req,      \* the request, as the browser has sent it
  res,      \* the response, with all headers the handlers have added
  got,      \* the parameters and cookies the callback has found, and the cookie it has set
  store,    \* page |-> what the browser has kept of it
  known,    \* page |-> the challenge it was sent last
  jar,      \* the cookies the browser has
  told,     \* name |-> the value of the last cookie that has arrived
  met,      \* the pages a script of another site may ask for
  touched   \* the file has been touched since the request

exchangeVars == <<site, fs, steps, version, stamp, handler, keys, session, want, stage, page, req, res, got,
          store, known, jar, told, met, touched>>

NoRequest == [method |-> "none"]
NoResponse == [code |-> 0, headers |-> <<>>, body |-> NoBody]
NothingGot == [params |-> <<>>, cookies |-> <<>>, set |-> <<>>]
Kept(content, etag, lastModified) == [content |-> content, etag |-> etag, stamp |-> lastModified]
Nothing == Kept(0, NoFile, NoStamp)

\* The stamp of a version
Stamp(v) == IF site.stamped THEN v ELSE NoStamp

\* The cookies a callback may set
CookieNames == {c.name : c \in site.cookies}
Static(p) == site.page[p].type = "static"
Guarded == "auth" \in Range(site.chain)
CorsFirst == site.chain # <<>> /\ Head(site.chain) = "cors"

ExchangeTypeOK ==
  /\ site \in Sites
  /\ fs \in [site.files -> 0 .. MaxVersion]
  /\ version \in 1 .. MaxVersion /\ session \in 0 .. MaxLosses
  /\ Len(steps) <= 3
  /\ handler.stats \in 0 .. 255 /\ handler.gzipFirst \in BOOLEAN
  /\ keys.nonce \in {NoValue, session}
  /\ want \subseteq Pages /\ met \subseteq Pages
  /\ stage \in {"none", "asked", "open", "answered"}
  /\ page \in Pages \cup {NoValue}
  /\ stage = "none" <=> page = NoValue
  /\ stage = "none" <=> req = NoRequest
  /\ stage = "answered" <=> res # NoResponse
  /\ \A p \in Pages : known[p] = NoValue \/ known[p].nonce \in {NoValue} \cup 0 .. session
  /\ touched \in BOOLEAN

ExchangeInit ==
  /\ site \in Sites
  /\ fs = [n \in site.files |-> IF n \in site.there THEN 1 ELSE 0]
  /\ steps = <<>> /\ version = 1
  /\ stamp = Stamp(1)
  /\ handler = NewStatic(site.mount, site.root, site.defaultFile, site.cache)
  /\ keys = NoKeys /\ session = 0
  /\ want = {} /\ met = {} /\ stage = "none" /\ page = NoValue /\ req = NoRequest /\ res = NoResponse /\ got = NothingGot
  /\ store = [p \in Pages |-> Nothing]
  /\ known = [p \in Pages |-> NoValue]
  /\ jar = {} /\ told = [n \in {c.name : c \in site.cookies} |-> <<>>]
  /\ touched = FALSE

application == <<site, fs, steps, version, stamp>>
server == <<handler, keys, session>>
browser == <<want, store, known, jar, told, met>>

-----------------------------------------------------------------------------
(* The browser.                                                            *)

Want(p) ==
  /\ p \notin want /\ want' = want \cup {p}
  /\ UNCHANGED <<application, server, stage, page, req, res, got, store, known, jar, told, met, touched>>

\* The answer to the challenge, for the URI as the browser knows it
Credentials(p, uri) ==
  LET c == known[p]
      password == IF site.knows THEN "right" ELSE "wrong"
  IN  IF c = NoValue THEN NoValue
      ELSE [mode |-> c.mode, password |-> password, realm |-> c.realm, nonce |-> c.nonce,
            response |-> Digest(password, c.realm, c.nonce, site.page[p].method, uri)]

\* A script of another site may send what is not a simple request only once the server
\* has agreed.
MayAsk(p) == site.cross /\ site.page[p].method \notin {"GET", "POST"} => p \in met

\* A page is asked for; the query and the body are those of a form.
Ask(p, query, body) ==
  /\ stage = "none" /\ p \in want /\ MayAsk(p)
  /\ LET uri == PathText(site.page[p].path) \o IF query = <<>> THEN <<>> ELSE <<"?">> \o FormText(query)
     IN req' = [method |-> site.page[p].method, uri |-> uri, body |-> FormText(body),
                origin |-> site.cross, auth |-> Credentials(p, uri),
                ifNoneMatch |-> store[p].etag, ifModifiedSince |-> store[p].stamp,
                cookies |-> jar, query |-> query, form |-> body]
  /\ stage' = "asked" /\ page' = p
  /\ touched' = (steps # <<>>)
  /\ UNCHANGED <<application, server, browser, res, got>>

\* The browser asks the server with OPTIONS, without credentials.
AskFirst(p) ==
  /\ stage = "none" /\ p \in want
  /\ ~MayAsk(p)
  /\ req' = [method |-> "OPTIONS", uri |-> PathText(site.page[p].path), body |-> <<>>,
             origin |-> TRUE, auth |-> NoValue, ifNoneMatch |-> NoFile, ifModifiedSince |-> NoStamp,
             cookies |-> {}, query |-> <<>>, form |-> <<>>]
  /\ stage' = "asked" /\ page' = p
  /\ touched' = (steps # <<>>)
  /\ UNCHANGED <<application, server, browser, res, got>>

\* What the browser shows: the version of a body it can read, or of the one it has kept
Shows ==
  LET wire == OnWire(res)
      packed == Last(wire.body.name) = ".gz"
  IN  IF wire.code = 304 THEN store[page].content
      ELSE IF wire.body # NoBody /\ (packed <=> Value(wire, "Content-Encoding", "") = "gzip")
      THEN wire.body.version
      ELSE 0

\* A cookie replaces the one of its name.
InJar(cookies, text) ==
  LET pair == Before(text, ";")
      name == Before(pair, "=")
  IN  {c \in cookies : c.name # name} \cup {[name |-> name, value |-> After(pair, "=")]}

\* The answer has come.  After a challenge the page is asked for again.
Receive ==
  /\ stage = "answered"
  /\ LET p == page
         wire == OnWire(res)
     IN  /\ known' = IF wire.code = 401
                     THEN [known EXCEPT ![p] = Value(wire, "WWW-Authenticate", NoValue)] ELSE known
         /\ want' = IF wire.code = 401 \/ req.method = "OPTIONS" THEN want ELSE want \ {p}
         /\ met' = IF req.method = "OPTIONS" /\ wire.code = 200
                      /\ Value(wire, "Access-Control-Allow-Origin", "") = "set"
                   THEN met \cup {p} ELSE met \ {p}
         /\ jar' = LET text == Value(wire, "Set-Cookie", <<>>) IN IF text = <<>> THEN jar ELSE InJar(jar, text)
         /\ told' = [n \in DOMAIN told |-> IF got.set # <<>> /\ got.set[1].name = n THEN got.set[1].value ELSE told[n]]
         /\ store' = IF wire.code = 200 /\ Static(p)
                     THEN [store EXCEPT ![p] = Kept(Shows, Value(wire, "ETag", NoFile), Value(wire, "Last-Modified", NoStamp))]
                     ELSE store
  /\ stage' = "none" /\ page' = NoValue /\ req' = NoRequest /\ res' = NoResponse /\ got' = NothingGot /\ touched' = FALSE
  /\ UNCHANGED <<application, server>>

\* The connection is lost, and with it the session and the exchange.
Lose ==
  /\ site.losses /\ session < MaxLosses /\ stage \in {"none", "asked", "answered"}
  /\ session' = session + 1
  /\ keys' = NoKeys
  /\ stage' = "none" /\ page' = NoValue /\ req' = NoRequest /\ res' = NoResponse /\ got' = NothingGot /\ touched' = FALSE
  /\ UNCHANGED <<application, handler, browser>>

-----------------------------------------------------------------------------
(* The application replaces the file: the plain form, then the packed one,  *)
(* then it calls setLastModified.                                           *)

BeginUpdate ==
  /\ site.updated # <<>> /\ steps = <<>> /\ version < site.versions
  /\ version' = version + 1
  /\ \E forms \in {{"plain"}, {"gz"}, {"plain", "gz"}} :
       steps' = << [at |-> "plain", version |-> IF "plain" \in forms THEN version' ELSE 0],
                   [at |-> "gz", version |-> IF "gz" \in forms THEN version' ELSE 0],
                   [at |-> "stamp", version |-> version'] >>
  /\ touched' = (stage # "none")
  /\ UNCHANGED <<site, fs, stamp, server, browser, stage, page, req, res, got>>

UpdateStep ==
  /\ steps # <<>>
  /\ steps' = Tail(steps)
  /\ LET name == IF Head(steps).at = "plain" THEN site.updated ELSE Gz(site.updated) IN
     IF Head(steps).at = "stamp"
     THEN stamp' = Stamp(Head(steps).version) /\ UNCHANGED fs
     ELSE fs' = [fs EXCEPT ![name] = Head(steps).version] /\ UNCHANGED stamp
  /\ touched' = (stage # "none")
  /\ UNCHANGED <<site, version, server, browser, stage, page, req, res, got>>

-----------------------------------------------------------------------------
(* The server.                                                             *)

\* The rewrite that fits, or the URI itself
Rewritten(uri) ==
  LET i == SelectInSeq(site.rewrites, LAMBDA r : r.from = Before(uri, "?"))
  IN  IF i = 0 THEN uri ELSE site.rewrites[i].to

\* addCORSHeaders; run() does so for each request with an Origin
CorsFields == <<"Access-Control-Allow-Origin", "Access-Control-Allow-Methods",
                "Access-Control-Allow-Headers", "Access-Control-Allow-Credentials",
                "Access-Control-Max-Age">>
Headers(fields) == [i \in DOMAIN fields |-> Header(fields[i], "set")]

\* WithCors as it would be if only a preflight were given the headers
WithCorsPreflight(r) ==
  IF "cors" \in Range(site.chain) /\ req.origin /\ req.method = "OPTIONS"
  THEN AddHeaders(r, Headers(CorsFields)) ELSE r

WithCors(r) ==
  IF "cors" \in Range(site.chain) /\ req.origin THEN AddHeaders(r, Headers(CorsFields)) ELSE r

Preflight == "cors" \in Range(site.chain) /\ req.origin /\ req.method = "OPTIONS"
\* Allowed as it would be if any credentials for the realm of the session would do
AllowedWithHeader ==
  Guarded => req.auth # NoValue /\ (req.auth.mode = "digest" => req.auth.realm = keys.realm)
Allowed == Guarded => Authenticate(req.auth, keys, req.method, Rewritten(req.uri))

\* The middleware a request does not get past, or ""
StoppedBy ==
  LET i == SelectInSeq(site.chain, LAMBDA m : (m = "cors" /\ Preflight) \/ (m = "auth" /\ ~Allowed))
  IN  IF i = 0 THEN "" ELSE site.chain[i]

New == NewResponse(Headers(site.defaults))

Answer(r) == stage' = "answered" /\ res' = r

\* CorsMiddleware::run of a preflight
AnswerPreflight ==
  /\ stage = "asked" /\ StoppedBy = "cors"
  /\ Answer(WithCors(New))
  /\ UNCHANGED <<application, server, browser, page, req, got, touched>>

\* AuthenticationMiddleware::run.  The challenge is a response of its own, without
\* what the middlewares before have added.
Challenge ==
  /\ stage = "asked" /\ StoppedBy = "auth"
  /\ keys' = Challenged(keys, site.mode, site.page[page].realm, session)
  /\ Answer(AddHeader(SetCode(New, 401), "WWW-Authenticate",
                      [mode |-> site.mode, realm |-> keys'.realm,
                       nonce |-> IF site.mode = "digest" THEN keys'.nonce ELSE NoValue]))
  /\ UNCHANGED <<application, handler, session, browser, page, req, got, touched>>

\* defaultNotFoundHandler, with a request and a response of its own
NotFound == Answer(SetCode(New, 404))

\* canHandle of the static file handler, which leaves the file open.  What it refuses
\* goes to the fallback.
OpenFile ==
  /\ stage = "asked" /\ StoppedBy = "" /\ Static(page)
  /\ LET uri == Rewritten(req.uri)
         opened == GetFile(handler, fs, uri)
     IN  IF Mounted(handler, req.method, uri)
         THEN /\ handler' = opened
              /\ IF opened.file # NoFile
                 THEN stage' = "open" /\ UNCHANGED res
                 ELSE NotFound
         ELSE NotFound /\ UNCHANGED handler
  /\ UNCHANGED <<application, keys, session, browser, page, req, got, touched>>

\* handleRequest of the static file handler
SendFile ==
  /\ stage = "open"
  /\ Answer(HandleStatic(handler, req, WithCors(New), fs, site.dirs, stamp))
  /\ handler' = [handler EXCEPT !.file = NoFile]
  /\ UNCHANGED <<application, keys, session, browser, page, req, got, touched>>

\* The parameters of the URI, those of the URI a rewrite has put in its place, and, once
\* the callback has called loadParams(), those of a posted body.
Found ==
  LET uri == Rewritten(req.uri) IN
  Params(After(req.uri, "?"), FALSE)
    \o (IF uri = req.uri THEN <<>> ELSE Params(After(uri, "?"), FALSE))
    \o (IF req.method = "POST" THEN Params(req.body, TRUE) ELSE <<>>)

\* getCookie of a name, as the browser spells it; "" if there is none
GetCookie(name) ==
  IF \E c \in req.cookies : c.name = name THEN (CHOOSE c \in req.cookies : c.name = name).value ELSE <<>>

\* A callback reads the parameters and the cookies, may set one, and answers or sends the
\* browser elsewhere.
CallBack ==
  /\ stage = "asked" /\ StoppedBy = "" /\ ~Static(page)
  /\ \E set \in {<<>>} \cup {<<c>> : c \in site.cookies} :
       LET new == WithCors(New)
           answer == IF set = <<>> THEN new ELSE SetCookie(new, set[1].name, set[1].value)
       IN  /\ got' = [params |-> Found, cookies |-> [n \in CookieNames |-> GetCookie(urlEncode(n))], set |-> set]
           /\ Answer(answer) \/ Answer(Redirect(answer, "elsewhere"))
  /\ UNCHANGED <<application, server, browser, page, req, touched>>

AskAny(p) == AskFirst(p) \/ \E q \in site.queries, b \in site.bodies : Ask(p, q, b)

ExchangeNext ==
  \/ \E p \in Pages : Want(p) \/ AskAny(p)
  \/ AnswerPreflight \/ Challenge \/ OpenFile \/ SendFile \/ CallBack
  \/ Receive \/ Lose \/ BeginUpdate \/ UpdateStep

ExchangeSpec == ExchangeInit /\ [][ExchangeNext]_exchangeVars

\* The browser goes on with each page it loads, the server answers, and an answer arrives
\* or is lost.  (What an exchange comes to tells whose step it was.)
Asking(p) == stage = "none" /\ p \in want /\ stage' = "asked" /\ page' = p
Serving == \/ stage = "asked" /\ stage' \in {"open", "answered"}
           \/ stage = "open" /\ stage' = "answered"
Receiving == stage = "answered" /\ stage' = "none"
FairSpec ==
  /\ ExchangeSpec
  /\ \A p \in Pages : SF_<<stage, page>>(Asking(p))
  /\ WF_stage(Serving) /\ WF_stage(Receiving)

-----------------------------------------------------------------------------
(* Properties                                                              *)

\* The version that is stored for a page, in either form
InFile(p) ==
  LET n == site.page[p].file IN IF IsFile(fs, n) THEN fs[n] ELSE fs[Gz(n)]

\* Whatever form the files have and had, whichever the handler looks for first, and
\* whatever the browser has kept from whichever moment of whichever update: when no update
\* comes in between, it shows what is stored, also when told that it has it already.
ShownAsStored ==
  stage = "answered" /\ Static(page) /\ ~touched /\ AllFit(res) /\ res.code # 401
  => res.code \in {200, 304} /\ Shows = InFile(page)

\* The callback finds the fields of the form, as they were before the browser encoded
\* them: first those of the query, then those of a rewrite, then those of the body.
Sent(fields, post) ==
  [i \in DOMAIN fields |-> [name |-> fields[i].name, value |-> fields[i].value, post |-> post]]
ParamsAsSent ==
  stage = "answered" /\ ~Static(page) /\ res.code # 401 /\ req.method # "OPTIONS"
  => got.params = Sent(req.query, FALSE)
             \o (IF Rewritten(req.uri) = req.uri THEN <<>> ELSE Sent(site.extra, FALSE))
             \o (IF req.method = "POST" THEN Sent(req.form, TRUE) ELSE <<>>)

\* The application's own headers leave room for n more.
RoomFor(n) == Len(site.defaults) + n <= MaxHeaders

\* What a callback reads of a cookie, once decoded, is what the last response that has
\* arrived with this cookie has set, however many were lost; if the default headers leave
\* room for it.  (A browser asks with OPTIONS without its cookies.)
CookieKept ==
  stage = "answered" /\ got # NothingGot /\ req.method # "OPTIONS" /\ RoomFor(Len(CorsFields) + 1)
  => \A n \in CookieNames : urlDecode(got.cookies[n]) = told[n]

\* A script of another site may see every answer but a challenge and the fallback's 404,
\* which are responses of their own, if the CORS middleware is the first and the default
\* headers leave room for its own.
ScriptMaySee ==
  stage = "answered" /\ req.origin /\ CorsFirst /\ RoomFor(Len(CorsFields)) /\ res.code \notin {401, 404}
  => \A f \in Range(CorsFields) : Value(OnWire(res), f, "") = "set"

\* The state has its types, and who does not know the password is only asked for it,
\* however sessions and challenges change.
KeptOut ==
  ExchangeTypeOK /\ (stage = "answered" /\ Guarded /\ ~site.knows => res.code = 401 \/ Preflight)

\* Who knows it gets the page, though the connection and with it the nonce may be lost
\* and another page be loaded meanwhile; if the pages have one realm (each challenge
\* replaces the realm of the session), the URI is not rewritten, the script is of this
\* site and the hash knows the method.
GetsIn(p) ==
  /\ site.knows
  /\ \A q \in Pages : site.page[q].realm = site.page[p].realm
  /\ site.mode = "digest" => site.page[p].method \in {"GET", "POST", "PUT", "DELETE"}
  /\ Guarded => ~site.cross /\ \A r \in Range(site.rewrites) : r.from # PathText(site.page[p].path)
PageLoads == \A p \in Pages : (p \in want /\ GetsIn(p)) ~> (p \notin want)

=============================================================================
