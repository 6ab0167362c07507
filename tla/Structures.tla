----------------------------- MODULE Structures -----------------------------
(***************************************************************************)
(* Dictionaries: a plain one is a function on the keys it holds, the       *)
(* CaseInsensitiveDict and the CookieJar of structures.py are built on it. *)
(***************************************************************************)
CONSTANTS None,    \* Python's None
          Agent,   \* what the user agent strings say of their browser
          Lower    \* the spellings of header names that occur, in lower case

(* The spellings that the library itself writes or looks for.              *)
ASSUME LowerAssumption ==
  /\ Lower = [n \in DOMAIN Lower |-> Lower[n]]
  /\ \A n \in DOMAIN Lower : Lower[n] \in DOMAIN Lower /\ Lower[Lower[n]] = Lower[n]
  /\ {"User-Agent", "Authorization", "Content-Type"} \subseteq DOMAIN Lower
  /\ Lower["User-Agent"] = "user-agent"
  /\ Lower["Authorization"] = "authorization"
  /\ Lower["Content-Type"] = "content-type"
  /\ \A n \in {"sec-ch-ua", "sec-ch-ua-mobile", "sec-ch-ua-platform"} :
       n \in DOMAIN Lower /\ Lower[n] = n

Empty == [k \in {} |-> None]
Has(d, k) == k \in DOMAIN d
Without(d, k) == [x \in DOMAIN d \ {k} |-> d[x]]

(* d[k] = v, and {**e, **d}                                                *)
Put(d, k, v) == [x \in DOMAIN d \cup {k} |-> IF x = k THEN v ELSE d[x]]
Over(d, e) == [x \in DOMAIN d \cup DOMAIN e |-> IF x \in DOMAIN d THEN d[x] ELSE e[x]]

(* CaseInsensitiveDict: lower-cased name -> spelling and value. *)
CISet(d, n, v) == Put(d, Lower[n], [key |-> n, val |-> v])
CIUpdate(d, plain) ==
  LET last(l) == CHOOSE n \in DOMAIN plain : Lower[n] = l
  IN  Over([l \in {Lower[n] : n \in DOMAIN plain} |->
              [key |-> last(l), val |-> plain[last(l)]]], d)
CIDict(d) == [n \in {d[l].key : l \in DOMAIN d} |-> d[Lower[n]].val]

(* CookieJar: cookie name -> the cookie, [value, same_site]. *)
JarSet(jar, cookies) ==
  Over([n \in DOMAIN cookies |-> [value |-> cookies[n].value, same_site |-> None]], jar)
=============================================================================
