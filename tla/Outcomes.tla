------------------------------ MODULE Outcomes ------------------------------
(***************************************************************************)
(* From what happened to a request, on the Go side, to what the Python     *)
(* caller gets: a Response or an exception.                                *)
(*                                                                         *)
(* The two sides agree on an outcome through a status and a text only.  A  *)
(* text is the set of the marks the code looks for in it, each a list of   *)
(* phrases.  Those of schema.py:                                           *)
(*   "syscall error:" "->" "timeout" "dns" "conn" "handshake" "cert"       *)
(*   "ssl" "refused" "addr" "url"                                          *)
(* where "conn" stands for reset, closed, eof, broken pipe or unreachable, *)
(* "timeout" for the deadline and cancellation phrases, "cert" for         *)
(* "certificate", "x509:" and "tls: failed to verify", and "url" for the   *)
(* phrases of a bad URL.  errors.go looks for narrower ones (GoPhrases).   *)
(*                                                                         *)
(* What happened is a record: failed, and                                  *)
(*  - of an answer: status, text, cookies of each hop (see Cookies);       *)
(*  - of a failure: its text, op (the kind of net.OpError in the url.Error,*)
(*    or None), the status a proxy refused with (0: none), and whether it  *)
(*    happened while the body was read.                                    *)
(***************************************************************************)
EXTENDS Naturals, Sequences, SequencesExt, Structures

(* Rules are tried in order; the first that applies decides.               *)
FirstOf(rules, otherwise) ==
  LET hits == {i \in DOMAIN rules : rules[i][1]}
  IN  IF hits = {} THEN otherwise
      ELSE rules[CHOOSE i \in hits : \A j \in hits : i <= j][2]

-----------------------------------------------------------------------------
(* The phrases of errors.go, and what schema.py finds in a text that has   *)
(* them: a failed verification of a certificate; "uTlsConn.Handshake()     *)
(* error", which only the first handshake of dialTLS says and its retries  *)
(* and the proxies do not; "connection refused"; a deadline.               *)
GoPhrases == [verify |-> "cert", uhandshake |-> "handshake",
              connrefused |-> "refused", deadline |-> "timeout"]

(* errors.go: parseError, and the message createErrorMessage starts with.  *)
StatusOfOp == [syscall |-> 401, syscallTimeout |-> 408, addr |-> 405,
               dns |-> 421, other |-> 421, timeout |-> 408]

ParseError(f) ==
  LET has(m) == m \in f.text
  IN  FirstOf(<< <<has("verify") \/ has("uhandshake"), 495>>,
                 <<has("connrefused"), 502>>,
                 <<has("deadline"), 408>>,
                 <<f.proxyStatus # 0, f.proxyStatus>>,
                 <<f.op # None, IF f.op = None THEN 0 ELSE StatusOfOp[f.op]>> >>, 0)

(* The timeout branches have a message of their own, an unknown error none.*)
ErrorMsg(f) ==
  LET s == ParseError(f)
      early == f.text \cap {"verify", "uhandshake", "connrefused"} # {}
  IN  CASE s = 0 -> {}
        [] "deadline" \in f.text /\ ~early -> {"timeout"}
        [] OTHER -> {"syscall error:"}

(* recordingJar and mergedResponseCookies: the hops of a redirect chain,   *)
(* each a function from cookie names to cookies [value, sameSite], None    *)
(* where it deletes the cookie.  A deletion by the last response is        *)
(* reported, with an empty value; one by an earlier hop only removes what  *)
(* came before it.                                                         *)
Deleted == [value |-> "", sameSite |-> 0]

Cookies(hops) ==
  LET live(d) == [n \in {m \in DOMAIN d : d[m] # None} |-> d[n]]
      record(seen, hop) == live(Over(hop, seen))
      final == hops[Len(hops)]
  IN  Over([n \in DOMAIN final |-> IF final[n] = None THEN Deleted ELSE final[n]],
           FoldLeft(record, Empty, hops))

(* convertCookies: the attribute in words, left out where there is none.   *)
SameSiteWords == <<"default", "lax", "strict", "none">>
ConvertCookie(c) ==
  IF c.sameSite = 0 THEN [value |-> c.value]
  ELSE [value |-> c.value, sameSite |-> SameSiteWords[c.sameSite]]

(* Do, buildResponsePayload and buildErrorPayload: the raw response.       *)
GoResponse(w) ==
  IF ~w.failed THEN LET cookies == Cookies(w.hops)
       IN  [status |-> w.status, text |-> w.text,
            cookies |-> [n \in DOMAIN cookies |-> ConvertCookie(cookies[n])]]
  ELSE IF w.inBody THEN [status |-> 0, text |-> w.text, cookies |-> Empty]
  ELSE [status |-> ParseError(w), text |-> ErrorMsg(w) \cup w.text \cup {"->"},
        cookies |-> Empty]

-----------------------------------------------------------------------------
(* schema._raise_for_error_response: None, or the exception it raises.     *)
ErrorStatuses == {401, 405, 408, 421, 495, 502}

IsErrorResponse(r) ==
  /\ r.status \notin 200..399
  /\ \/ r.status = 0
     \/ "syscall error:" \in r.text
     \/ r.status \in ErrorStatuses /\ "->" \in r.text

(* Its rules, in their order.                                              *)
ErrorRules(r) ==
  LET s == r.status
      has(m) == m \in r.text
  IN  << <<s = 421 \/ has("dns"), "ConnectionError">>,
         <<s = 408 \/ has("timeout"), "Timeout">>,
         <<has("conn"), "ConnectionError">>,
         <<s = 495 /\ (has("cert") \/ has("handshake")), "TLSError">>,
         <<has("cert") \/ has("ssl"), "TLSError">>,
         <<s = 502 \/ has("refused"), "ConnectionError">>,
         <<s = 405 /\ has("addr"), "ConnectionError">>,
         <<has("url"), "InvalidURL">>,
         <<s = 401 /\ has("syscall error:"), "ConnectionError">>,
         <<s = 0, "CycleTLSError">> >>

(* As RaiseForErrorResponse below, with the timeouts before the lookups.   *)
RaiseForErrorTimeoutFirst(r) ==
  LET rules == ErrorRules(r)
  IN  IF IsErrorResponse(r)
      THEN FirstOf([rules EXCEPT ![1] = rules[2], ![2] = rules[1]], None) ELSE None

RaiseForErrorResponse(r) == IF IsErrorResponse(r) THEN FirstOf(ErrorRules(r), None) ELSE None

(* _dict_to_cookie *)
DictToCookie(d) ==
  [value |-> d.value, same_site |-> IF Has(d, "sameSite") THEN d.sameSite ELSE None]

(* _dict_to_response and _parse_response.                                  *)
DictToResponse(r) ==
  LET e == RaiseForErrorResponse(r)
      cookies == [n \in DOMAIN r.cookies |-> DictToCookie(r.cookies[n])]
  IN  [err |-> e, response |-> IF e = None THEN [r EXCEPT !.cookies = cookies] ELSE None]

(* Response.raise_for_status, which the caller may ask for.                *)
RaiseForStatus(r) == IF r.status >= 400 THEN "HTTPError" ELSE None

(* exceptions.py: the classes above each one, itself included.             *)
Ancestors == Put([e \in {"ConnectionError", "Timeout", "TLSError", "InvalidURL", "HTTPError"}
                    |-> {e, "RequestException", "CycleTLSError"}],
                 "CycleTLSError", {"CycleTLSError"})

(* What a caller of the client gets for what happened.                     *)
Outcome(w) == DictToResponse(GoResponse(w))
=============================================================================
