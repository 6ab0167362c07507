--------------------------- MODULE RequestPayload ---------------------------
(***************************************************************************)
(* What CycleTLS._prepare_request and CycleTLS._build_batch_payload make   *)
(* of the arguments of a call, as operators.                               *)
(*                                                                         *)
(* A Python dictionary is a function on the keys it holds.  The keyword    *)
(* arguments of a call are a fresh dictionary, but kwargs["headers"] is    *)
(* the caller's own object, so the pipeline keeps both the headers of the  *)
(* request and what the caller's dictionary holds by now (theirs), and     *)
(* whether the two are one object (shared).  Text is a token: a body is a  *)
(* tuple of its encoding and the value encoded, << >> is the empty body.   *)
(* Times are in milliseconds.  Of a cookie its name, its value and, as one *)
(* of its attributes, same_site are kept.                                  *)
(***************************************************************************)
EXTENDS Naturals, Sequences, SequencesExt, Structures

-----------------------------------------------------------------------------
(* The query of the URL, then the parameters; None is skipped, a sequence  *)
(* of values becomes one pair for each value.                              *)
MergeUrlParams(url, params) ==
  LET pairs(p) == IF p[2] = None THEN << >>
                  ELSE LET kept == SelectSeq(p[2], LAMBDA v : v # None)
                       IN  [i \in 1..Len(kept) |-> <<p[1], kept[i]>>]
  IN  IF params = << >> THEN url
      ELSE [url EXCEPT !.query =
              @ \o FoldLeft(LAMBDA acc, p : acc \o pairs(p), << >>, params)]

(* The content type of one file part: the given one, else a guess.         *)
FileType(f) == IF f.form = "triple" /\ f.ctype # None THEN f.ctype
               ELSE IF f.guess # None THEN f.guess ELSE "application/octet-stream"

(* The form fields, then the files, each with its type and all its bytes   *)
(* from the position the file object is at.                                *)
EncodeMultipart(fields, files) ==
  <<"multipart", fields,
    [n \in DOMAIN files |-> [type |-> FileType(files[n]), data |-> files[n].data]]>>

BadFileInfo(files) == \E n \in DOMAIN files : files[n].form = "other"

(* str, urlencode and json.dumps; each keeps apart what was apart.         *)
Encoded(d) == IF d.val = "" THEN << >> ELSE <<d.kind, d.val>>

-----------------------------------------------------------------------------
(* TLSFingerprint: opts holds the options that are set, as to_dict writes  *)
(* them; headers is None or a dictionary.                                  *)
Brand(family, agent) ==
  CASE family = "brave" -> "Brave"
    [] family = "opera" \/ (family # "brave" /\ agent.opr # 0) -> "Opera"
    [] family = "edge" /\ agent.opr = 0 -> "Microsoft Edge"
    [] family = "chromium" /\ agent.opr = 0 -> None
    [] OTHER -> IF agent.chromiumBuild /\ family # "chrome" THEN None
                ELSE "Google Chrome"

DynamicSecChUa(profile) ==
  IF ~Has(profile.opts, "user_agent") \/ ~Has(profile.opts, "header_order") THEN Empty
  ELSE LET agent == Agent[profile.opts.user_agent]
           brand == Brand(profile.name.family, agent)
           hint == [h \in {"sec-ch-ua", "sec-ch-ua-mobile", "sec-ch-ua-platform"} |->
             CASE h = "sec-ch-ua" ->
                    <<agent.major, brand, IF brand = "Opera" /\ agent.opr # 0
                                          THEN agent.opr ELSE agent.major>>
               [] h = "sec-ch-ua-mobile" -> <<agent.mobile>>
               [] h = "sec-ch-ua-platform" -> <<agent.os>>]
       IN  IF agent.major = 0 THEN Empty
           ELSE [h \in DOMAIN hint \cap profile.opts.header_order |-> hint[h]]

-----------------------------------------------------------------------------
(* The pipeline of _prepare_request.  p.err is the exception raised so far;*)
(* what was done before it was raised stays done.  args.own: the headers   *)
(* are the caller's own dictionary; an empty one is replaced by a new one. *)
Start(args) ==
  LET given == IF Has(args.kw, "headers") THEN args.kw.headers ELSE Empty
  IN  [hdr |-> given, shared |-> args.own /\ given # Empty, theirs |-> given,
       kw |-> Without(args.kw, "headers"), data |-> args.data,
       json |-> args.json_data, body |-> None, bytes |-> None, err |-> None]

Raise(p, e) == [p EXCEPT !.err = e]
Fine(p) == p.err = None

SetHeaders(p, d) == [p EXCEPT !.hdr = d, !.theirs = IF p.shared THEN d ELSE @]
PutHeader(p, n, v) == SetHeaders(p, Put(p.hdr, n, v))

CheckOpen(p, closed) == IF closed THEN Raise(p, "CycleTLSError") ELSE p

JsonAlias(p, args) ==
  IF ~Fine(p) \/ args.json = None THEN p
  ELSE IF p.json # None THEN Raise(p, "ValueError")
  ELSE [p EXCEPT !.json = args.json]

ApplyAuth(p, args) ==
  IF ~Fine(p) \/ args.auth = None THEN p
  ELSE PutHeader(p, "Authorization", <<"Basic", args.auth>>)

(* As ApplyToKwargs below, with the profile's options over the caller's.   *)
ApplyToKwargsOverriding(p, profile) ==
  LET merged == IF profile.headers = None THEN p
                ELSE [p EXCEPT !.hdr = Over(@, profile.headers), !.shared = FALSE]
  IN  [merged EXCEPT !.kw = Over(profile.opts, @)]

(* TLSFingerprint.apply_to_kwargs: the profile's headers make a new        *)
(* dictionary; without them the hints go into the caller's.                *)
ApplyToKwargs(p, profile) ==
  LET merged == IF profile.headers = None THEN p
                ELSE [p EXCEPT !.hdr = Over(@, profile.headers), !.shared = FALSE]
      hinted == SetHeaders(merged, Over(merged.hdr, DynamicSecChUa(profile)))
  IN  [hinted EXCEPT !.kw = Over(@, profile.opts)]

ApplyFingerprint(p, args, profiles) ==
  LET f == args.fingerprint
  IN  IF ~Fine(p) \/ f = None THEN p
      ELSE IF f.object # None THEN ApplyToKwargs(p, f.object)
      ELSE IF ~Has(profiles, f.name) THEN Raise(p, "KeyError")
      ELSE ApplyToKwargs(p, profiles[f.name])

(* body and body_bytes, deprecated: taken for data if there is none, else  *)
(* left where they are.                                                    *)
TakeForData(p, option) ==
  IF Fine(p) /\ Has(p.kw, option) /\ p.data = None
  THEN [p EXCEPT !.data = p.kw[option], !.kw = Without(@, option)] ELSE p

DeprecatedBody(p) == TakeForData(TakeForData(p, "body"), "body_bytes")

(* A User-Agent header, in any spelling, becomes the option and leaves the *)
(* dictionary.  Of two spellings it is the first one of the dictionary,    *)
(* whose order is abstracted.                                              *)
ExtractUserAgent(p) ==
  LET spelt == {n \in DOMAIN p.hdr : Lower[n] = "user-agent"}
      first == CHOOSE n \in spelt : TRUE
  IN  IF ~Fine(p) \/ spelt = {} THEN p
      ELSE [SetHeaders(p, Without(p.hdr, first))
              EXCEPT !.kw = Put(@, "user_agent", p.hdr[first])]

JsonType == "application/json"
FormType == "application/x-www-form-urlencoded"

EncodeBody(p) ==
  IF ~Fine(p) THEN p
  ELSE IF p.json # None THEN
    IF p.data # None THEN Raise(p, "ValueError")
    ELSE [PutHeader(p, "Content-Type", JsonType) EXCEPT !.body = <<"json", p.json>>]
  ELSE IF p.data = None THEN p
  ELSE CASE p.data.kind = "dict" ->
              [(IF Has(p.hdr, "Content-Type") THEN p
                ELSE PutHeader(p, "Content-Type", FormType))
                 EXCEPT !.body = Encoded(p.data)]
         [] p.data.kind = "bytes" -> [p EXCEPT !.bytes = Encoded(p.data)]
         [] OTHER -> [p EXCEPT !.body = Encoded(p.data)]

AttachFiles(p, args) ==
  LET fields == IF p.data # None /\ p.data.kind = "dict" THEN p.data ELSE None
  IN  IF ~Fine(p) \/ args.files = None THEN p
      ELSE IF BadFileInfo(args.files) THEN Raise(p, "ValueError")
      ELSE [PutHeader(p, "Content-Type", "multipart/form-data")
              EXCEPT !.bytes = EncodeMultipart(fields, args.files)]

(* A dictionary, a list of dictionaries and Cookies, or a jar: all become  *)
(* a list of cookies.                                                      *)
NormaliseCookies(p) ==
  IF ~Fine(p) \/ ~Has(p.kw, "cookies") THEN p
  ELSE IF p.kw.cookies = None THEN [p EXCEPT !.kw = Without(@, "cookies")]
  ELSE [p EXCEPT !.kw.cookies = @.items]

(* schema._convert_same_site: Go's code of the word, 0 for any other.      *)
ConvertSameSite(same_site) ==
  CASE same_site = "default" -> 1 [] same_site = "lax" -> 2
    [] same_site = "strict" -> 3 [] same_site = "none" -> 4 [] OTHER -> 0

(* schema._cookie_to_dict: an attribute that is not set is left out.       *)
CookieToDict(c) ==
  LET plain == [name |-> c.name, value |-> c.value]
  IN  IF c.same_site = None THEN plain
      ELSE Put(plain, "sameSite", ConvertSameSite(c.same_site))

-----------------------------------------------------------------------------
(* schema.Request: its options and their defaults, and to_dict.            *)
RequestDefaults ==
  [user_agent |-> "default", proxy |-> "", timeout |-> 6000,
   disable_redirect |-> FALSE, enable_connection_reuse |-> TRUE,
   insecure_skip_verify |-> FALSE, tls13_auto_retry |-> TRUE,
   disable_grease |-> FALSE, force_http1 |-> FALSE, force_http3 |-> FALSE]

RequestOptions == DOMAIN RequestDefaults \cup
  {"ja3", "ja4r", "http2_fingerprint", "quic_fingerprint", "server_name", "protocol",
   "local_address", "cookies", "header_order", "order_headers_as_provided",
   "header_values", "body", "body_bytes"}

(* Whole seconds, rounded up; 0 leaves Go its own default. *)
TimeoutSeconds(ms) == IF ms > 0 THEN (ms + 999) \div 1000 ELSE 0

ToDict(p, args) ==
  LET all == Over(p.kw, RequestDefaults)
      opts == IF ~Has(p.kw, "cookies") THEN all
              ELSE Put(all, "cookies", [i \in DOMAIN p.kw.cookies |-> CookieToDict(p.kw.cookies[i])])
      kept(o) == IF Has(p.kw, o) THEN Encoded(p.kw[o]) ELSE None
  IN  [method |-> args.method, url |-> MergeUrlParams(args.url, args.params),
       headers |-> p.hdr,
       body |-> IF p.body # None THEN p.body
                ELSE IF Has(p.kw, "body") THEN kept("body") ELSE << >>,
       bodyBytes |-> IF p.bytes # None THEN p.bytes ELSE kept("body_bytes"),
       opts |-> [Without(Without(opts, "body"), "body_bytes")
                   EXCEPT !.timeout = TimeoutSeconds(@)]]

(* CycleTLS._prepare_request: [err, theirs, payload].                      *)
PrepareRequest(closed, args, profiles) ==
  LET opened == CheckOpen(Start(args), closed)
      named  == ApplyAuth(JsonAlias(opened, args), args)
      styled == DeprecatedBody(ApplyFingerprint(named, args, profiles))
      filled == AttachFiles(EncodeBody(ExtractUserAgent(styled)), args)
      ready  == NormaliseCookies(filled)
      last   == IF Fine(ready) /\ ~(DOMAIN ready.kw \subseteq RequestOptions)
                THEN Raise(ready, "TypeError") ELSE ready
  IN  [err |-> last.err, theirs |-> last.theirs,
       payload |-> IF Fine(last) THEN ToDict(last, args) ELSE None]

-----------------------------------------------------------------------------
(* The verbs of the clients.  Everything a verb does not name arrives      *)
(* through its keyword arguments.                                          *)
Verb(args, m) == [args EXCEPT !.method = m]

(* async_get ... async_delete: the verb of a client made for one call.     *)
Once(args, m) == Verb(args, m)

(* AsyncCycleTLS: request, post, put and patch name auth and json but pass *)
(* on neither; get, options, head and delete name and drop auth only.      *)
Shim(args) == [args EXCEPT !.auth = None, !.json = None]
ShimVerb(args, m) ==
  IF m \in {"post", "put", "patch"} THEN Shim(Verb(args, m))
  ELSE [Verb(args, m) EXCEPT !.auth = None]

(* _build_batch_payload: a request dictionary of a batch.  Its headers are *)
(* copied; only these options are taken from it, all others are left.      *)
BatchDefaults ==
  [ja3 |-> "default", user_agent |-> "default", timeout |-> 30000, proxy |-> "",
   disable_redirect |-> FALSE, insecure_skip_verify |-> FALSE]

BatchPayload(args) ==
  LET fresh == [Start(args) EXCEPT !.shared = FALSE]
      filled == EncodeBody(fresh)
      taken == DOMAIN BatchDefaults \cup (DOMAIN args.kw \cap {"header_values"})
      opts == [o \in taken |-> IF Has(args.kw, o) THEN args.kw[o] ELSE BatchDefaults[o]]
  IN  [err |-> filled.err, theirs |-> filled.theirs,
       payload |-> IF ~Fine(filled) THEN None
                   ELSE [method |-> args.method,
                         url |-> MergeUrlParams(args.url, args.params),
                         headers |-> filled.hdr,
                         body |-> IF filled.body = None THEN << >> ELSE filled.body,
                         bodyBytes |-> filled.bytes, opts |-> opts]]

-----------------------------------------------------------------------------
(* What the Go side puts on the wire: the bytes if there are any, else the *)
(* text.                                                                   *)
WireBody(payload) ==
  IF payload.bodyBytes # None /\ payload.bodyBytes # << >>
  THEN payload.bodyBytes ELSE payload.body
=============================================================================
