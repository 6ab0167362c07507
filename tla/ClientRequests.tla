--------------------------- MODULE ClientRequests ---------------------------
(***************************************************************************)
(* One Session, one CycleTLS client, one AsyncCycleTLS client and clients  *)
(* made for one call, used by a program that reuses one headers dictionary *)
(* for its calls, in a process that also registers, saves and reloads      *)
(* fingerprint profiles.                                                   *)
(* Calls overlap: tasks of an event loop, or threads.  A call reads the    *)
(* session and prepares its payload in one step (Begin) and takes its      *)
(* answer in another (Finish).                                             *)
(***************************************************************************)
EXTENDS RequestPayload, Outcomes, Fingerprints

CONSTANTS Calls,      \* the calls the program makes: [client, verb, mine, args]
          Batches,    \* the lists it gives to batch, each request with what happens to it
          Worlds,     \* for each client, what may happen to its requests on the wire
          MyHeaders,  \* what the program's own dictionary holds at first
          SessionHeaders, SessionAuth, BaseUrl,
          MaxSessionCalls, \* bound: calls of a program that only uses its session
          MaxOps      \* bound: calls and registry operations of any other program

VARIABLES session,    \* headers, cookies, closed of the Session
          mine,       \* the program's dictionary
          calls,      \* the calls in flight, those that left cookies, and the last one
          made,       \* how many calls were made: through the session, other ones
          clock       \* orders the steps of the session's calls

requestVars == <<session, mine, calls, made, clock>>
vars == <<session, mine, calls, made, clock, profiles, exports, defaultFile, saving,
          process, registryOps, persisted>>

-----------------------------------------------------------------------------
(* Session._prepare_url *)
PrepareUrl(url) == IF BaseUrl # None /\ url.host = None
                   THEN [url EXCEPT !.host = BaseUrl] ELSE url

(* sessions._merge_cookie: by name, in the place of the old one.           *)
MergeCookie(merged, c) ==
  LET same == {i \in 1..Len(merged) : merged[i].name = c.name}
  IN  IF same = {} THEN Append(merged, c)
      ELSE [merged EXCEPT ![CHOOSE i \in same : \A j \in same : i <= j] = c]

MergeCookies(jar, given) ==
  LET merged[k \in 0..Len(given)] ==
        IF k = 0 THEN jar ELSE MergeCookie(merged[k - 1], given[k])
  IN  merged[Len(given)]

JarCookies(jar) ==
  LET names == SetToSeq(DOMAIN jar)
  IN  [i \in 1..Len(names) |-> [name |-> names[i], value |-> jar[names[i]].value,
                                same_site |-> jar[names[i]].same_site]]

GivenCookies(kw) == IF Has(kw, "cookies") /\ kw.cookies # None THEN kw.cookies
                    ELSE [raw |-> FALSE, items |-> << >>]

(* A list of plain dictionaries is compared by attribute: an error unless  *)
(* there is nothing to compare with.                                       *)
PlainDictClash(jar, kw) ==
  LET given == GivenCookies(kw)
  IN  given.raw /\ given.items # << >> /\ (jar # Empty \/ Len(given.items) > 1)

(* As SessionArgs below, on the caller's dictionary.                       *)
SessionArgsInPlace(s, args) ==
  LET hdr == CIUpdate(s.headers, IF Has(args.kw, "headers") THEN args.kw.headers ELSE Empty)
  IN  [args EXCEPT !.url = PrepareUrl(@), !.auth = IF @ = None THEN SessionAuth ELSE @,
                   !.kw = Put(Put(@, "cookies", None), "headers", CIDict(hdr))]

(* Session._merge_session_state and what request passes on: a new headers  *)
(* dictionary, the cookies of the jar under those of the call.             *)
SessionArgs(s, args) ==
  LET hdr == CIUpdate(s.headers, IF Has(args.kw, "headers") THEN args.kw.headers ELSE Empty)
      jar == JarCookies(s.cookies)
      merged == MergeCookies(jar, GivenCookies(args.kw).items)
      cookies == IF merged = << >> THEN None ELSE [raw |-> FALSE, items |-> merged]
  IN  [args EXCEPT !.url = PrepareUrl(@), !.own = FALSE,
                   !.auth = IF @ = None THEN SessionAuth ELSE @,
                   !.kw = Put(Put(@, "cookies", cookies), "headers", CIDict(hdr))]

(* As UpdateCookies below, forgetting what earlier answers set.            *)
UpdateCookiesReplacing(s, response) == [s EXCEPT !.cookies = JarSet(Empty, response.cookies)]

(* Session._update_cookies_from_response *)
UpdateCookies(s, response) == [s EXCEPT !.cookies = JarSet(@, response.cookies)]

-----------------------------------------------------------------------------
(* The arguments as the program gives them: its own dictionary for the     *)
(* headers, if the call uses it.                                           *)
Given(c) == IF c.mine THEN [c.args EXCEPT !.kw = Put(@, "headers", mine), !.own = TRUE]
            ELSE c.args

(* The profile the program passes: by name, as an object of its own, as    *)
(* an attribute bound at import, or as a lookup of the registry answers.   *)
Picked(f) ==
  LET objects(S) == {[object |-> p, name |-> None] : p \in S}
  IN  CASE f # None /\ Has(f, "attribute") ->
             objects({exports[n] : n \in DOMAIN exports \cap {f.attribute}})
        [] f # None /\ Has(f, "lookup") ->
             objects(IF f.lookup = "latest" THEN Latest(profiles, f.family, f.platform)
                     ELSE Candidates(profiles, f.family, f.platform))
        [] OTHER -> {f}

(* The arguments that reach _prepare_request.                              *)
Entry(c, args) ==
  CASE c.client = "session" -> SessionArgs(session, args)
    [] c.client = "async" -> ShimVerb(args, c.verb)
    [] OTHER -> Once(args, c.verb)

(* The profile the call names; kept, with the session as it was, for the   *)
(* properties.                                                             *)
ProfileOf(args) ==
  LET f == args.fingerprint
  IN  IF f = None THEN None
      ELSE IF f.object # None THEN f.object
      ELSE IF Has(profiles, f.name) THEN profiles[f.name] ELSE None

NewCall(c, given, prepared) ==
  [client |-> c.client, given |-> given, under |-> session, profile |-> ProfileOf(given),
   payload |-> prepared.payload,
   cookies |-> IF prepared.payload # None /\ Has(prepared.payload.opts, "cookies")
               THEN prepared.payload.opts.cookies ELSE << >>,
   begun |-> clock, ended |-> 0, err |-> prepared.err, response |-> None, world |-> None]

WithinBounds(m, ops) ==
  m.session + m.other + ops <= IF m.other + ops = 0 THEN MaxSessionCalls ELSE MaxOps
Made(client) == IF client = "session" THEN [made EXCEPT !.session = @ + 1]
                ELSE [made EXCEPT !.other = @ + 1]

(* The number of the last call, and the calls that later steps still       *)
(* depend on.                                                              *)
LastCall == made.session + made.other
Recent ==
  [i \in {j \in DOMAIN calls :
            calls[j].err = None /\ (calls[j].client = "session" \/ calls[j].ended = 0)} |-> calls[i]]
Tick(client) == IF client = "session" THEN clock + 1 ELSE clock

Running == process = "running" /\ ~saving

(* request and arequest up to the hand-over to the FFI.                    *)
Begin(c, fingerprint) ==
  LET given == Verb([Given(c) EXCEPT !.fingerprint = fingerprint], c.verb)
      closed == c.client = "session" /\ session.closed
      clash == c.client = "session" /\ PlainDictClash(session.cookies, given.kw)
      entry == Entry(c, given)
      prepared == IF clash THEN [err |-> "AttributeError", theirs |-> mine, payload |-> None]
                  ELSE PrepareRequest(closed, entry, profiles)
  IN  /\ Running /\ WithinBounds(Made(c.client), registryOps)
      /\ calls' = Put(Recent, LastCall + 1, NewCall(c, given, prepared))
      /\ mine' = IF entry.own THEN prepared.theirs ELSE mine
      /\ made' = Made(c.client) /\ clock' = Tick(c.client)
      /\ UNCHANGED <<session, registryVars>>

InFlight(i) == calls[i].err = None /\ calls[i].ended = 0

(* The answer is parsed and, in a session, its cookies are taken over.     *)
Finish(i, w) ==
  LET got == Outcome(w)
  IN  /\ Running /\ InFlight(i) /\ w \in Worlds[calls[i].client]
      /\ calls' = [calls EXCEPT ![i].ended = clock, ![i].world = w,
                                ![i].err = got.err, ![i].response = got.response]
      /\ session' = IF calls[i].client = "session" /\ got.err = None
                    THEN UpdateCookies(session, got.response) ELSE session
      /\ clock' = Tick(calls[i].client)
      /\ UNCHANGED <<mine, made, registryVars>>

(* batch: an answer that is an error is raised and the others are dropped; *)
(* a timeout that is not whole seconds cannot be decoded on the Go side,   *)
(* which then answers with no responses at all.                            *)
Fractional(args) == Has(args.kw, "timeout") /\ args.kw.timeout % 1000 # 0

Batch(b) ==
  LET args == [i \in DOMAIN b |-> b[i].args]
      built == [i \in DOMAIN b |-> BatchPayload(args[i])]
      bad == {i \in DOMAIN b : built[i].err # None}
      got == [i \in DOMAIN b |-> Outcome(b[i].world)]
      raised == {i \in DOMAIN b : got[i].err # None}
      first(S) == CHOOSE i \in S : \A j \in S : i <= j
      lost == \E i \in DOMAIN b : Fractional(args[i])
      err == IF bad # {} THEN built[first(bad)].err
             ELSE IF lost THEN None
             ELSE IF raised # {} THEN got[first(raised)].err ELSE None
  IN  /\ Running /\ WithinBounds(Made("batch"), registryOps)
      /\ calls' = Put(Recent, LastCall + 1,
           [client |-> "batch", given |-> args, payload |-> [i \in DOMAIN b |-> built[i].payload],
            under |-> session, profile |-> None,
            cookies |-> << >>, begun |-> clock, ended |-> clock, err |-> err,
            world |-> [i \in DOMAIN b |-> b[i].world],
            response |-> IF err # None THEN None
                         ELSE IF lost THEN << >> ELSE [i \in DOMAIN b |-> got[i].response]])
      /\ made' = Made("batch")
      /\ UNCHANGED <<session, mine, clock, registryVars>>

SetSessionHeader(n, v) ==
  /\ Running /\ ~session.closed
  /\ ~Has(session.headers, Lower[n])
  /\ session' = [session EXCEPT !.headers = CISet(@, n, v)]
  /\ UNCHANGED <<mine, calls, made, clock, registryVars>>

(* Session.close: the jar and the headers are replaced by empty ones.      *)
Close ==
  /\ Running /\ ~session.closed
  /\ session' = [headers |-> Empty, cookies |-> Empty, closed |-> TRUE]
  /\ UNCHANGED <<mine, calls, made, clock, registryVars>>

(* aclose, which Session inherits: only the flag.                          *)
Aclose ==
  /\ Running /\ ~session.closed
  /\ session' = [session EXCEPT !.closed = TRUE]
  /\ UNCHANGED <<mine, calls, made, clock, registryVars>>

-----------------------------------------------------------------------------
(* What the calls and the answers are.                                     *)

(* A dictionary of headers, with one User-Agent at most.                   *)
IsHeaders(d) ==
  /\ d = [n \in DOMAIN d |-> d[n]] /\ DOMAIN d \subseteq DOMAIN Lower
  /\ \A m, n \in DOMAIN d : Lower[m] = "user-agent" /\ Lower[n] = "user-agent" => m = n

(* The arguments of a call, the fingerprint aside.  One body is given at   *)
(* most: of two, _prepare_request sends the one that is bytes.             *)
IsArgs(a) ==
  /\ a = [method |-> a.method, url |-> a.url, params |-> a.params, data |-> a.data,
          json_data |-> a.json_data, json |-> a.json, files |-> a.files,
          fingerprint |-> a.fingerprint, auth |-> a.auth, kw |-> a.kw, own |-> a.own]
  /\ a.own = FALSE
  /\ a.kw = [o \in DOMAIN a.kw |-> a.kw[o]]
  /\ Has(a.kw, "headers") => IsHeaders(a.kw.headers)
  /\ \A o \in {"body", "body_bytes"} : Has(a.kw, o) => a.data = None
  /\ ~(Has(a.kw, "body") /\ Has(a.kw, "body_bytes"))
  /\ LET given == GivenCookies(a.kw).items
     IN  /\ given \in Seq(ToSet(given))
         /\ \A c \in ToSet(given) : c.same_site \in ToSet(SameSiteWords) \cup {None}

BodiesOf(a) ==
  LET data == {a.data} \cup {a.kw[o] : o \in DOMAIN a.kw \cap {"body", "body_bytes"}}
      asked == {d \in data : d # None}
  IN  {Encoded(d) : d \in asked} \cup {<<"json", a.json>>, <<"json", a.json_data>>}
      \cup (IF a.files = None THEN {} ELSE {EncodeMultipart(d, a.files) : d \in asked \cup {None}})

(* How a call names its profile.                                           *)
IsChoice(f) ==
  \/ f = None \/ DOMAIN f = {"attribute"} \/ DOMAIN f = {"lookup", "family", "platform"}
  \/ DOMAIN f = {"object", "name"} /\ (f.object # None => IsProfile(f.object))

ASSUME CallsAssumption ==
  /\ \A c \in Calls :
       /\ c.client \in {"session", "client", "once", "async"} /\ c.mine \in BOOLEAN
       /\ IsArgs(c.args) /\ None \notin BodiesOf(c.args) /\ IsChoice(c.args.fingerprint)
  /\ \A b \in Batches : b \in Seq(ToSet(b)) /\ \A r \in ToSet(b) : IsArgs(r.args)
  /\ IsHeaders(MyHeaders) /\ DOMAIN SessionHeaders \subseteq DOMAIN Lower

(* The words by which a failure that no proxy answered tells its cause:    *)
(* those of its text and, if the request was not yet answered and Go knows *)
(* none of the words, the kind of network error.  A handshake of a retry   *)
(* or with a proxy has the word, but not the phrase Go knows.              *)
TellsCause(f) ==
  LET has(words) == f.text \cap words # {}
      kind(ops) == f.op \in ops /\ ~f.inBody /\ ~has(DOMAIN GoPhrases)
      timeouts == {"timeout", "syscallTimeout"}
      lookups == {"dns", "other"}
      tls == {"cert", "ssl", "uhandshake"}
      others == {"dns", "timeout", "conn", "refused"} \cup tls
  IN  CASE f.cause = "dns" -> has({"dns"})
        [] f.cause = "timeout" ->
             ~has({"dns"}) /\ (kind(timeouts) \/ (has({"timeout"}) /\ ~kind(lookups)))
        [] f.cause = "tls" ->
             /\ ~has({"dns", "timeout", "conn"})
             /\ \/ has({"verify", "uhandshake"}) /\ ~f.inBody
                \/ has({"cert", "ssl"}) /\ ~kind(lookups \cup timeouts)
        [] f.cause = "handshake" ->
             /\ has({"handshake"}) /\ ~has({"url"} \cup others) /\ ~f.inBody
             /\ f.op \in {"other", None}
        [] f.cause = "network" ->
             /\ ~has({"timeout"})
             /\ \/ has({"conn"}) /\ ~kind(timeouts)
                \/ has({"refused"}) /\ ~has(tls) /\ ~kind(timeouts)
                \/ kind(lookups)
                \/ kind({"addr"}) /\ has({"addr"}) /\ ~has(tls)
                \/ kind({"syscall"}) /\ ~has(tls) /\ ~has({"url"})
        [] f.cause = "url" -> has({"url"}) /\ ~has(others) /\ f.op = None
        [] f.cause = "unknown" -> ~has({"url"}) /\ ~has(others) /\ f.op = None

Causes == {"dns", "timeout", "tls", "handshake", "network", "url", "unknown"}

(* A proxy refuses with any status but 2xx.                                *)
IsWorld(w) ==
  /\ w.failed \in BOOLEAN
  /\ Outcome(w).err = None => Outcome(w).response # None
  /\ IF w.failed
     THEN /\ w.op \in DOMAIN StatusOfOp \cup {None} /\ w.inBody \in BOOLEAN
          /\ w.proxyStatus \in Nat /\ w.cause \in Causes
          /\ \A m \in DOMAIN GoPhrases \cap w.text : GoPhrases[m] \in w.text
          /\ IF w.proxyStatus = 0 THEN TellsCause(w) ELSE w.proxyStatus >= 300
     ELSE /\ w.status \in Nat \ {0} /\ IsFiniteSet(DOMAIN Cookies(w.hops))

AllWorlds == UNION {Worlds[c] : c \in DOMAIN Worlds}

ASSUME WorldsAssumption ==
  /\ \A w \in AllWorlds : IsWorld(w)
  /\ \A b \in Batches : \A r \in ToSet(b) : IsWorld(r.world)

(* The cookies that the answers set and the calls give.                    *)
CookiesSetBy(w) ==
  LET set == Outcome(w).response.cookies
  IN  {[name |-> n, value |-> set[n].value, same_site |-> None] : n \in DOMAIN set}
CookiesGivenBy(c) == ToSet(GivenCookies(c.args.kw).items)
SetCookies == UNION {CookiesSetBy(w) : w \in {v \in AllWorlds : Outcome(v).err = None}}
OwnedCookies == UNION {CookiesGivenBy(c) : c \in Calls}
AllCookies == SetCookies \cup OwnedCookies

(* None is none of the values it is compared with.                         *)
ASSUME NoneAssumption ==
  /\ None \notin DOMAIN Ancestors \cup {"AttributeError", "ValueError", "TypeError", "KeyError"}
  /\ None \notin DOMAIN StatusOfOp \cup {<< >>} /\ None \notin [raw : BOOLEAN, items : Seq(AllCookies)]
  /\ \A b \in Batches : None # [i \in DOMAIN b |-> Outcome(b[i].world).response]

-----------------------------------------------------------------------------
NewSession == [headers |-> Empty, cookies |-> Empty, closed |-> FALSE]

Init ==
  /\ RegistryInit
  /\ session = NewSession
  /\ mine = MyHeaders /\ calls = Empty /\ made = [session |-> 0, other |-> 0] /\ clock = 1

(* The registry changes while the program runs; its clients die with it.   *)
Registry ==
  /\ RegistryNext
  /\ WithinBounds(made, registryOps')
  /\ IF process' = "down"
     THEN /\ session' = NewSession /\ mine' = MyHeaders
          /\ calls' = Empty /\ clock' = 1 /\ UNCHANGED made
     ELSE UNCHANGED requestVars

Next ==
  \/ \E c \in Calls : \E f \in Picked(c.args.fingerprint) : Begin(c, f)
  \/ \E i \in DOMAIN calls, w \in AllWorlds : Finish(i, w)
  \/ \E b \in Batches : Batch(b)
  \/ \E n \in DOMAIN SessionHeaders : SetSessionHeader(n, SessionHeaders[n])
  \/ Close
  \/ Aclose
  \/ Registry

Spec == Init /\ [][Next]_vars

-----------------------------------------------------------------------------
(* Every profile of the registry is one the program or a file brought in,  *)
(* calls are counted by the clock, and a call has an answer or an          *)
(* exception once it has ended.                                            *)
TypeOK ==
  /\ process \in {"down", "running", "broken"} /\ saving \in BOOLEAN
  /\ registryOps \in 0..MaxRegistryOps
  /\ \A n \in DOMAIN profiles : profiles[n].name = n
  /\ session.closed \in BOOLEAN /\ DOMAIN session.headers \subseteq {Lower[n] : n \in DOMAIN Lower}
  /\ DOMAIN mine \subseteq DOMAIN Lower
  /\ DOMAIN calls \subseteq 1..LastCall /\ clock \in Nat \ {0}
  /\ \A i \in DOMAIN calls : calls[i].ended > 0 => (calls[i].err = None) # (calls[i].response = None)

Sent == {i \in DOMAIN calls : calls[i].client # "batch" /\ calls[i].payload # None}
ValuesOf(d, l) == {d[n] : n \in {m \in DOMAIN d : Lower[m] = l}}

(* The layers of a call, the strongest first: its own headers, those of    *)
(* the session, those of the profile.                                      *)
OwnHeaders(c) == IF Has(c.given.kw, "headers") THEN c.given.kw.headers ELSE Empty
SessionLayer(c) == IF c.client = "session" THEN CIDict(c.under.headers) ELSE Empty
ProfileLayer(c) == IF c.profile = None \/ c.profile.headers = None THEN Empty
                   ELSE c.profile.headers
ProfileOption(c, o, otherwise) ==
  IF c.profile # None /\ Has(c.profile.opts, o) THEN c.profile.opts[o] ELSE otherwise

AskedAuth(c) == IF c.client = "session" /\ c.given.auth = None THEN SessionAuth
                ELSE c.given.auth
AskedJson(c) == IF c.given.json_data # None THEN c.given.json_data ELSE c.given.json

(* What the methods of AsyncCycleTLS accept and do not hand on.            *)
NotPassedOn(c) == IF c.client # "async" THEN {}
                  ELSE IF c.given.method \in {"post", "put", "patch"} THEN {"auth", "json"}
                  ELSE {"auth"}
PassedAuth(c) == IF "auth" \in NotPassedOn(c) THEN None ELSE AskedAuth(c)
PassedJson(c) == IF "json" \in NotPassedOn(c) THEN c.given.json_data ELSE AskedJson(c)

AskedAgent(c) ==
  LET own == ValuesOf(OwnHeaders(c), "user-agent")
      below == ValuesOf(SessionLayer(c), "user-agent")
  IN  IF own # {} THEN own ELSE IF below # {} THEN below
      ELSE IF Has(c.given.kw, "user_agent") THEN {c.given.kw.user_agent}
      ELSE {ProfileOption(c, "user_agent", "default")}

(* The body of the call, where json is to be its JSON.                     *)
BodyWith(c, json) ==
  LET g == c.given
      data == IF g.data # None THEN g.data
              ELSE IF Has(g.kw, "body") THEN g.kw.body
              ELSE IF Has(g.kw, "body_bytes") THEN g.kw.body_bytes ELSE None
  IN  IF g.files # None
      THEN EncodeMultipart(IF data # None /\ data.kind = "dict" THEN data ELSE None, g.files)
      ELSE IF json # None THEN <<"json", json>>
      ELSE IF data # None THEN Encoded(data) ELSE << >>

SendsAuth(c, auth) ==
  auth # None => /\ Has(c.payload.headers, "Authorization")
                 /\ c.payload.headers["Authorization"] = <<"Basic", auth>>

(* The headers the library itself sets for a call.                         *)
Imposed(c) == (IF PassedAuth(c) # None THEN {"Authorization"} ELSE {})
              \cup (IF c.given.files # None \/ PassedJson(c) # None
                    THEN {"Content-Type"} ELSE {})

(* What is sent for one call, compared with what it asked for.             *)
AsAsked(c) ==
  LET wire == c.payload
      own == [n \in {m \in DOMAIN OwnHeaders(c) : Lower[m] # "user-agent"} |-> OwnHeaders(c)[n]]
      lower(d) == {Lower[n] : n \in DOMAIN d}
      session_ == SessionLayer(c)
  IN  /\ {wire.opts.user_agent} = AskedAgent(c)
      /\ ValuesOf(wire.headers, "user-agent") = {}
      /\ WireBody(wire) = BodyWith(c, PassedJson(c))
      /\ \A o \in DOMAIN wire.opts \ {"user_agent", "timeout", "cookies"} :
           wire.opts[o] = IF Has(c.given.kw, o) THEN c.given.kw[o]
                          ELSE ProfileOption(c, o, IF Has(RequestDefaults, o)
                                                   THEN RequestDefaults[o] ELSE None)
      /\ \A n \in DOMAIN own \ Imposed(c) :
           \/ Has(wire.headers, n) /\ wire.headers[n] = own[n]
           \/ \E m \in DOMAIN own \ {n} : Lower[m] = Lower[n]
      /\ \A n \in DOMAIN session_ \ Imposed(c) :
           \/ Lower[n] \in lower(own) \cup {"user-agent"}
           \/ Has(wire.headers, n) /\ wire.headers[n] = session_[n]
      /\ \A n \in DOMAIN ProfileLayer(c) \ Imposed(c) :
           /\ Has(wire.headers, n)
           /\ wire.headers[n] # ProfileLayer(c)[n] => Lower[n] \in lower(own) \cup lower(session_)
      /\ SendsAuth(c, PassedAuth(c))

(* What reaches the Go side is what the call asked for: its user agent,    *)
(* from a header in any spelling, the option, the profile or the default,  *)
(* in this order; its body; its options over those of the profile over the *)
(* defaults; each of its headers, those of the session and of the profile, *)
(* the stronger layer winning, except where auth, JSON or files impose one.*)
(* The exception is AsyncCycleTLS, whose methods take auth and, those with *)
(* a body, json, and hand on neither (NotPassedOn): its calls are sent as  *)
(* if these had not been given, without credentials and without the body,  *)
(* although IMPROVEMENTS.md promises "`json=` ... and all convenience      *)
(* methods" and "`auth=(user, pass)` ... across all methods" (65-66), and  *)
(* README.md "the same configuration options as sync requests" (373).      *)
(* (api.py _prepare_request, fingerprints.py apply_to_kwargs, sessions.py  *)
(* _merge_session_state: three merges of dictionaries, none tested with    *)
(* the others.)                                                            *)
SentIsWhatWasAsked == \A i \in Sent : AsAsked(calls[i])

(* A call through a session never changes the dictionary its caller passed *)
(* as headers (sessions.py builds a new one); a call through a plain       *)
(* client may, but only by taking the user agent out of it and by adding   *)
(* the headers the library sets: nothing else in it changes.               *)
CallersDictIsKept ==
  [][mine' # mine /\ process' # "down" =>
       LET c == calls'[LastCall']
       IN  /\ c.client # "session"
           /\ \A n \in DOMAIN mine :
                Lower[n] # "user-agent" /\ n \notin Imposed(c) => Has(mine', n) /\ mine'[n] = mine[n]
           /\ \A n \in DOMAIN mine' \ DOMAIN mine :
                n \in {"Authorization", "Content-Type"} \/ n \in DOMAIN DynamicSecChUa(c.profile)
    ]_vars

(* What Go reads is the cookie that was given, its attribute in Go's code. *)
SameCookie(sent, given) ==
  /\ sent.value = given.value
  /\ IF Has(sent, "sameSite") THEN SameSiteWords[sent.sameSite] = given.same_site
     ELSE given.same_site = None

(* The calls of the session that were answered before a time, and those of *)
(* them whose answer sets a cookie.                                        *)
Answered(t) == {j \in DOMAIN calls : /\ calls[j].client = "session" /\ calls[j].response # None
                                     /\ calls[j].ended < t}
Setters(t, n) == {j \in Answered(t) : Has(calls[j].response.cookies, n)}

(* A session sends the cookies of the answers it has seen: of each name,   *)
(* the value of the answer that came last (not of the call made last) and  *)
(* is in before the call begins, under what the call itself gives, and no  *)
(* name twice.  A cookie the call gives keeps its attribute; of the        *)
(* answers' cookies only name and value are kept, and one that an answer   *)
(* deleted is sent with an empty value.  (sessions.py                      *)
(* _merge_session_state and _update_cookies_from_response, schema.py       *)
(* _cookie_to_dict.)                                                       *)
CookiesFollow ==
  \A i \in {k \in Sent : calls[k].client = "session"} :
    LET c == calls[i]
        given == GivenCookies(c.given.kw).items
        own(n) == {o \in ToSet(given) : o.name = n}
        names == {o.name : o \in ToSet(c.cookies) \cup ToSet(given)}
        last(n) == CHOOSE j \in Setters(c.begun, n) :
                     \A k \in Setters(c.begun, n) : calls[k].ended <= calls[j].ended
    IN  /\ \A j, k \in DOMAIN c.cookies : c.cookies[j].name = c.cookies[k].name => j = k
        /\ \A n \in names \cup UNION {DOMAIN calls[j].response.cookies : j \in Answered(c.begun)} :
             \E k \in DOMAIN c.cookies :
               /\ c.cookies[k].name = n
               /\ IF own(n) # {} THEN \E o \in own(n) : SameCookie(c.cookies[k], o)
                  ELSE /\ Setters(c.begun, n) # {}
                       /\ c.cookies[k].value = calls[last(n)].response.cookies[n].value

(* The exception that stands for a cause, that of a failure, and what one  *)
(* call may return.  A handshake that Go does not know is raised by its    *)
(* kind only.                                                              *)
ExceptionOf == [dns |-> "ConnectionError", timeout |-> "Timeout", tls |-> "TLSError",
                network |-> "ConnectionError", url |-> "InvalidURL", unknown |-> "CycleTLSError"]

ExceptionFor(f) == IF f.cause # "handshake" THEN ExceptionOf[f.cause]
                   ELSE IF f.op = None THEN ExceptionOf["unknown"] ELSE ExceptionOf["network"]

HonestFor(w, err, response) ==
  IF w.failed
  THEN /\ w.proxyStatus = 0 => err = ExceptionFor(w)
       /\ IF err # None THEN "CycleTLSError" \in Ancestors[err]
          ELSE w.proxyStatus \in 300..399 \/ RaiseForStatus(response) # None
  ELSE \/ err = None /\ response.status = w.status
       \/ w.status \in ErrorStatuses /\ "->" \in w.text
       \/ w.status \notin 200..399 /\ "syscall error:" \in w.text

HonestCall(c) ==
  IF c.client # "batch" THEN HonestFor(c.world, c.err, c.response)
  ELSE \/ c.err # None /\ \E k \in DOMAIN c.given :
            \/ c.given[k].data # None /\ c.given[k].json_data # None
            \/ HonestFor(c.world[k], c.err, None)
       \/ \E k \in DOMAIN c.given : Fractional(c.given[k])
       \/ /\ c.err = None /\ DOMAIN c.response = DOMAIN c.given
          /\ \A k \in DOMAIN c.given : HonestFor(c.world[k], None, c.response[k])

(* What the caller gets is what happened.  A failure raises the exception  *)
(* of its cause, although Go only passes on a status and a text and each   *)
(* side classifies it by phrases of its own; all of them are               *)
(* CycleTLSErrors.  The exception is a TLS handshake that fails in one of  *)
(* the retries of dialTLS or with an HTTPS proxy: Go has no status for it, *)
(* and what is raised is a plain CycleTLSError, or a ConnectionError where *)
(* it is a network error, although README.md has "TLSError # TLS handshake *)
(* error" (1687): roundtripper.go (365, 489, 583) and connect.go (422) do  *)
(* not say "uTlsConn.Handshake() error", which errors.go waits for to give *)
(* 495, which schema.py waits for to look for "handshake".  A proxy that   *)
(* refuses with a status of its own comes back as a response, which        *)
(* raise_for_status reports unless it is a redirect.  An answer comes back *)
(* as the response it is, unless its status is one Go uses for errors and  *)
(* its page contains an arrow, or its page quotes the error text.  A batch *)
(* has an answer for each of its requests, unless one of its timeouts is   *)
(* not whole seconds.                                                      *)
(* (errors.go parseError, schema.py _raise_for_error_response.)            *)
OutcomeIsHonest ==
  /\ TypeOK
  /\ \A i \in DOMAIN calls : calls[i].ended > 0 => HonestCall(calls[i])

(* The profiles of the files that the environment names.                   *)
Newer == {p \in (IF ExtraFile = None THEN {} ELSE ToSet(ExtraFile.items))
               \cup (IF TrackmeFile = None THEN {}
                     ELSE {NormalizeTrackme(e) : e \in ToSet(TrackmeFile)}) : p # None}

(* A process that starts finds every profile the last completed save wrote,*)
(* as it was, or newer from the files named by the environment; its import *)
(* fails only if a process died inside a save.  (fingerprints.py           *)
(* save_to_file and the import-time load.)                                 *)
RestartRestores ==
  [][process = "down" /\ process' # "down" =>
       IF process' = "broken" THEN defaultFile.torn
       ELSE \A n \in DOMAIN persisted :
              Has(profiles', n) /\ profiles'[n] \in {persisted[n]} \cup Newer]_vars
=============================================================================
