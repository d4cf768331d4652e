----------------------------- MODULE MCExchange -----------------------------
(* Four kinds of small servers for Exchange: two static files, one of them *)
(* replaced now and then and one a directory's default file; two guarded   *)
(* pages; pages with cookies; and a form that is rewritten, posted or sent *)
(* by another site.                                                        *)
EXTENDS Exchange

Page(type, path, method, realm, file) ==
  [type |-> type, path |-> path, method |-> method, realm |-> realm, file |-> file]

\* "/a b" is file "/w/a b" or its packed form, "/d" is "/w/d/i"
A == <<"/", "w", "/", "a", " ">>
I == <<"/", "w", "/", "d", "/", "i">>
FilePages == [p |-> Page("static", <<"/", "a", " ">>, "GET", "r", A),
              q |-> Page("static", <<"/", "d">>, "GET", "r", I)]

Base ==
  [page |-> FilePages, files |-> {}, there |-> {}, dirs |-> {}, updated |-> <<>>, versions |-> 1,
   mount |-> <<"/">>, root |-> <<"w", "/">>, defaultFile |-> <<"i">>, cache |-> FALSE,
   stamped |-> FALSE, rewrites |-> <<>>, extra |-> <<>>, chain |-> <<>>, defaults |-> <<>>,
   mode |-> "digest", knows |-> TRUE, cross |-> FALSE, losses |-> FALSE,
   queries |-> {<<>>}, bodies |-> {<<>>}, cookies |-> {}]

Files(there, versions, cache, stamped) ==
  [Base EXCEPT !.files = {A, Gz(A), I}, !.there = there \cup {I}, !.dirs = {<<"/", "w", "/", "d">>},
               !.updated = A, !.versions = versions, !.cache = cache, !.stamped = stamped]

\* With the CORS headers, two of the application's own are too many for a packed file
\* with every validator.
FileSites ==
  {Files({Gz(A)}, 2, FALSE, TRUE),
   [Files({A, Gz(A)}, 2, TRUE, FALSE) EXCEPT !.chain = <<"auth">>, !.losses = TRUE,
     !.page.q = Page("form", <<"/", "f">>, "GET", "r", <<>>)],
   [Files({A}, 2, TRUE, TRUE) EXCEPT !.chain = <<"cors">>, !.cross = TRUE,
                                     !.defaults = <<"X-1", "X-2">>]}

GuardedPages(method, realm) ==
  [p |-> Page("form", <<"/", "p">>, method, "r", <<>>),
   q |-> Page("form", <<"/", "q">>, "GET", realm, <<>>)]

LoginSites ==
  {[Base EXCEPT !.page = GuardedPages(method, realm), !.chain = <<"auth">>, !.mode = mode,
                !.knows = knows, !.losses = TRUE,
                !.rewrites = IF rewritten THEN <<[from |-> <<"/", "q">>, to |-> <<"/", "x">>]>> ELSE <<>>] :
     method \in {"GET", "POST", "PATCH"}, realm \in {"r", "s"}, mode \in {"basic", "digest"},
     knows \in BOOLEAN, rewritten \in BOOLEAN}

Field(name, value) == [name |-> name, value |-> value]
Forms == {<<>>, <<Field(<<"a">>, <<"b", " ">>), Field(<<"=">>, <<>>)>>,
          <<Field(<<"a">>, <<"%", "2">>), Field(<<"&">>, <<"=", "+">>)>>}

CookieSites ==
  {[Base EXCEPT !.page = GuardedPages("GET", "r"), !.losses = TRUE,
                !.cookies = {Field(<<"n">>, <<"1", ";", " ">>), Field(<<"n">>, <<"%">>), Field(<<"m", " ">>, <<"+">>)}]}

FormSites ==
  {[Base EXCEPT !.page = [p |-> Page("form", <<"/", "f">>, method, "r", <<>>),
                          q |-> Page("form", <<"/", "g">>, "GET", "r", <<>>)],
                !.chain = chain, !.cross = cross, !.queries = Forms,
                !.bodies = IF method = "POST" THEN Forms ELSE {<<>>},
                !.rewrites = IF rewritten
                             THEN <<[from |-> <<"/", "f">>, to |-> <<"/", "g", "?", "k", "=", "%", "2", "5">>]>>
                             ELSE <<>>,
                !.extra = IF rewritten THEN <<Field(<<"k">>, <<"%">>)>> ELSE <<>>] :
     method \in {"GET", "POST", "PUT"}, cross \in BOOLEAN, rewritten \in BOOLEAN,
     chain \in {<<"cors">>, <<"auth", "cors">>, <<"cors", "auth">>}}

MCSites == FileSites \cup LoginSites \cup CookieSites \cup FormSites

=============================================================================
