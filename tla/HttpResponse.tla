---------------------------- MODULE HttpResponse ----------------------------
(***************************************************************************)
(* PsychicResponse: a code, headers and a body; and what esp_http_server   *)
(* puts on the wire.  A header is a field and a value.                     *)
(***************************************************************************)
EXTENDS WebText, FiniteSetsExt

CONSTANTS
  MaxHeaders,  \* config.max_resp_headers
  NoBody

Header(field, value) == [field |-> field, value |-> value]

\* The loop of addHeader: every header of a field is erased.
Erased(hs, field) ==
  LET kept[i \in 0 .. Len(hs)] ==
        IF i = 0 THEN <<>>
        ELSE IF hs[i].field = field THEN kept[i - 1]
        ELSE Append(kept[i - 1], hs[i])
  IN  kept[Len(hs)]

\* addHeader: the last value of a field, at the end
AddHeader(res, field, value) ==
  [res EXCEPT !.headers = Append(Erased(@, field), Header(field, value))]

AddHeaders(res, hs) == FoldLeft(LAMBDA r, h : AddHeader(r, h.field, h.value), res, hs)

\* The constructor: the DefaultHeaders
NewResponse(defaults) ==
  AddHeaders([code |-> 200, headers |-> <<>>, body |-> NoBody], defaults)

\* setCode, or what send() makes of none
SetCode(res, code) == [res EXCEPT !.code = IF code = 0 THEN 200 ELSE code]

SetContent(res, body) == [res EXCEPT !.body = body]

\* setCookie as it would be without the encoding
SetCookieRaw(res, name, value) ==
  AddHeader(res, "Set-Cookie", name \o <<"=">> \o value \o <<";", "age">>)

\* setCookie: one header, whose last value stays
SetCookie(res, name, value) ==
  AddHeader(res, "Set-Cookie", urlEncode(name) \o <<"=">> \o urlEncode(value) \o <<";", "age">>)

\* redirect: 301 unless another code was chosen
Redirect(res, url) ==
  AddHeader(IF res.code \in {0, 200} THEN [res EXCEPT !.code = 301] ELSE res, "Location", url)

\* sendHeaders: httpd_resp_set_hdr refuses a header above the limit, and nobody looks
OnWire(res) ==
  [res EXCEPT !.headers = SubSeq(@, 1, Min({MaxHeaders, Len(@)}))]

AllFit(res) == Len(res.headers) <= MaxHeaders

\* The value of a field, or a value of the caller's for none
Value(res, field, none) ==
  LET i == SelectInSeq(res.headers, LAMBDA h : h.field = field)
  IN  IF i = 0 THEN none ELSE res.headers[i].value

=============================================================================
