-------------------------- MODULE MCClientRequests --------------------------
(* Two built-in profiles and one of the program; a call of each kind; an   *)
(* outcome of each kind.                                                   *)
EXTENDS ClientRequests, TLC

MCAgent == [u |-> [major |-> 120, chromiumBuild |-> FALSE, opr |-> 0, firefox |-> 0, mobile |-> FALSE, os |-> "Windows"],
            f |-> [major |-> 0, chromiumBuild |-> FALSE, opr |-> 0, firefox |-> 121, mobile |-> FALSE, os |-> "Linux"]]

MCLower == [n \in {"sec-ch-ua", "sec-ch-ua-mobile", "sec-ch-ua-platform"} |-> n]
           @@ [n \in {"User-Agent", "user-agent"} |-> "user-agent"]
           @@ [n \in {"Content-Type", "content-type"} |-> "content-type"]
           @@ [n \in {"Authorization", "authorization"} |-> "authorization"]
           @@ [n \in {"X-Own", "x-own"} |-> "x-own"]

Name(family, version) == [family |-> family, version |-> version, platform |-> "win"]
Chrome == [name |-> Name("chrome", <<120>>),
           opts |-> [ja3 |-> "ja3c", user_agent |-> "u",
                     header_order |-> {"user-agent", "sec-ch-ua"}],
           headers |-> ("x-own" :> "profile")]
Firefox == [name |-> Name("firefox", <<121>>),
            opts |-> [ja3 |-> "ja3f", user_agent |-> "f", force_http1 |-> TRUE],
            headers |-> None]
Brave == [name |-> Name("brave", <<119, 1>>),
          opts |-> [ja3 |-> "ja3b", user_agent |-> "u", header_order |-> {"sec-ch-ua"}],
          headers |-> None]
NewChrome == [Chrome EXCEPT !.opts.ja3 = "ja3n"]

MCProfiles == {Chrome, Brave}
MCDefaultItems == <<Chrome, None, Firefox>>
MCExtraFile == [torn |-> FALSE, items |-> <<Brave>>]
Capture == [browser |-> "chrome", ua |-> "u", ja3 |-> "ja3t",
            frames |-> << [type |-> "SETTINGS", names |-> {}],
                          [type |-> "HEADERS", names |-> {"user-agent", "sec-ch-ua"}] >>]
MCTrackme == <<None, NewChrome, Capture>>
MCPlugins == {None, Brave}
MCExported == [CHROME_120 |-> Chrome.name, OPERA_106 |-> Name("opera", <<106>>)]

Plain == [method |-> "get", url |-> [host |-> None, query |-> << >>], params |-> << >>,
          data |-> None, json_data |-> None, json |-> None, files |-> None,
          fingerprint |-> None, auth |-> None, kw |-> << >>, own |-> FALSE]
ByName(p) == [object |-> None, name |-> p.name]
ByObject(p) == [object |-> p, name |-> None]
Lookup(how, family, platform) == [lookup |-> how, family |-> family, platform |-> platform]
Form == [kind |-> "dict", val |-> "d"]
MyCookie(raw) == [raw |-> raw, items |-> <<[name |-> "a", value |-> "mine", same_site |-> "strict"]>>]

Call(client, verb, own, args) == [client |-> client, verb |-> verb, mine |-> own, args |-> args]

MCCalls ==
  { Call("session", "get", TRUE, Plain),
    Call("session", "post", FALSE, [Plain EXCEPT !.json = "j", !.kw = [cookies |-> MyCookie(FALSE)]]),
    Call("session", "get", FALSE, [Plain EXCEPT !.kw = [cookies |-> MyCookie(TRUE)]]),
    Call("session", "post", TRUE, [Plain EXCEPT !.fingerprint = ByName(Chrome), !.data = Form,
                                                !.kw = [ja3 |-> "own", user_agent |-> "opt"]]),
    Call("client", "post", TRUE, [Plain EXCEPT !.data = Form, !.auth = "me"]),
    Call("client", "get", TRUE, [Plain EXCEPT !.fingerprint = ByObject(Brave)]),
    Call("client", "get", FALSE, [Plain EXCEPT !.fingerprint = [attribute |-> "CHROME_120"]]),
    Call("client", "get", FALSE, [Plain EXCEPT !.fingerprint = Lookup("latest", None, "win")]),
    Call("client", "get", FALSE, [Plain EXCEPT !.fingerprint = Lookup("random", "chrome", None)]),
    Call("client", "get", TRUE, [Plain EXCEPT !.fingerprint = ByName(Firefox),
                                  !.params = << <<"p", <<"1", None, "2">> >>, <<"q", None>> >>]),
    Call("client", "post", FALSE, [Plain EXCEPT !.data = Form, !.files =
           [f |-> [form |-> "pair", ctype |-> None, guess |-> "text/plain", data |-> "bytes"]]]),
    Call("client", "post", FALSE, [Plain EXCEPT !.kw = [body |-> [kind |-> "str", val |-> "old"]]]),
    Call("client", "put", TRUE, [Plain EXCEPT !.json = "j", !.json_data = "k", !.auth = "me"]),
    Call("client", "put", TRUE, [Plain EXCEPT !.data = Form, !.json_data = "k", !.auth = "me"]),
    Call("client", "get", FALSE, [Plain EXCEPT !.kw = [nonsense |-> "x"]]),
    Call("once", "post", TRUE, [Plain EXCEPT !.json_data = "j"]),
    Call("async", "post", TRUE, [Plain EXCEPT !.json = "j", !.auth = "me",
                                              !.data = [kind |-> "bytes", val |-> "b"]]) }

Answer(status, text, hops) ==
  [failed |-> FALSE, status |-> status, text |-> text, hops |-> hops, proxyStatus |-> 0]
Failure(cause, text, op, proxyStatus, inBody) ==
  [failed |-> TRUE, cause |-> cause, text |-> text, op |-> op, proxyStatus |-> proxyStatus,
   inBody |-> inBody]

Ok(hops) == Answer(200, {}, hops)
Deadline == {"deadline", "timeout"}
Failures ==
  { Failure("dns", {"dns"}, "dns", 0, FALSE), Failure("dns", {"dns"} \cup Deadline, "dns", 0, FALSE),
    Failure("timeout", Deadline, None, 0, FALSE), Failure("timeout", Deadline, None, 0, TRUE),
    Failure("timeout", {"timeout"}, None, 0, FALSE),
    Failure("tls", {"verify", "cert"}, None, 0, FALSE), Failure("tls", {"cert"}, None, 0, FALSE),
    Failure("tls", {"uhandshake", "handshake"}, None, 0, FALSE),
    Failure("handshake", {"handshake"}, None, 0, FALSE),
    Failure("handshake", {"handshake"}, "other", 0, FALSE),
    Failure("network", {"uhandshake", "handshake", "conn"}, None, 0, FALSE),
    Failure("network", {"connrefused", "refused"}, "syscall", 0, FALSE),
    Failure("network", {"refused"}, None, 0, FALSE),
    Failure("network", {"conn"}, "syscall", 0, FALSE), Failure("network", {}, "syscall", 0, FALSE),
    Failure("network", {"addr"}, "addr", 0, FALSE), Failure("network", {}, "other", 0, FALSE),
    Failure("timeout", {}, "timeout", 0, FALSE), Failure("url", {"url"}, None, 0, FALSE),
    Failure("unknown", {}, None, 0, FALSE), Failure("unknown", {}, None, 407, FALSE),
    Failure("unknown", {}, None, 502, FALSE), Failure("unknown", {}, None, 302, FALSE) }
Pages == {Answer(s, t, << << >> >>) : s \in {200, 302, 404, 408, 502},
                                      t \in {{}, {"->"}, {"timeout", "->"}}}
         \cup {Answer(404, {"syscall error:"}, << << >> >>)}

Set(value, sameSite) == [value |-> value, sameSite |-> sameSite]
MCWorlds ==
  [session |-> {Ok(<< [a |-> Set("1", 2)] >>),
                Ok(<< [a |-> Set("2", 0), b |-> Set("x", 4)], [b |-> None] >>)},
   client |-> {Ok(<< << >> >>), Failure("timeout", Deadline, None, 0, FALSE)},
   once |-> {Ok(<< << >> >>)}, async |-> {Ok(<< << >> >>)}]

Req(args, world) == [args |-> args, world |-> world]
MCBatches ==
  {<<Req(Plain, w)>> : w \in Failures \cup Pages}
  \cup { <<Req(Plain, Answer(404, {}, << << >> >>)), Req([Plain EXCEPT !.data = Form], Ok(<< << >> >>))>>,
         <<Req(Plain, Ok(<< << >> >>)), Req(Plain, Failure("unknown", {}, None, 0, FALSE))>>,
         <<Req([Plain EXCEPT !.kw = [timeout |-> 2500]], Ok(<< << >> >>))>>,
         <<Req([Plain EXCEPT !.data = Form, !.json_data = "k"], Ok(<< << >> >>))>> }

MCMyHeaders == ("User-Agent" :> "mine") @@ ("content-type" :> "text/plain") @@ ("X-Own" :> "m")
MCSessionHeaders == "x-own" :> "s"
=============================================================================
