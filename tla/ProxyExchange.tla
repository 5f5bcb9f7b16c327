----------------------------- MODULE ProxyExchange -----------------------------
(***************************************************************************)
(* What happens to a browser's requests at the Proxy Listener, while the   *)
(* Gateway Runtime switches the projection it serves: the handler that     *)
(* src/internal/proxy/proxy.go builds for each projection, its cache of    *)
(* leaf certificates (cert_cache.go), and the CORS policy                  *)
(* (src/internal/cors/cors.go).                                            *)
(*                                                                         *)
(* A handler never changes, and a session (an HTTPS connection that the    *)
(* browser opened with CONNECT) keeps the one it was admitted with.  One   *)
(* session at a time is enough, because sessions share nothing but the     *)
(* cache; the cache of a handler that was replaced is used no more.        *)
(* A request and its response are one step: they share no state with       *)
(* anything else.                                                          *)
(***************************************************************************)
EXTENDS TrafficProjection

CONSTANTS
  Origin,        \* the origin of the page that makes the requests
  Requests,      \* requests as CORS sees them
  Replies,       \* upstream responses: a header, and a location that is a URL,
                 \* Relative or None
  Relative,
  Capacity,      \* certificateCacheCapacity
  Targets        \* the URLs that the browser requests

ASSUME CapacityAssumption == Capacity \in Nat \ {0}

\* A response is not the lack of one.  Its location is absent, cannot be read as
\* a URL, or is one.
ASSUME RepliesAssumption ==
  /\ None \notin Replies
  /\ \A r \in Replies :
       r.location \in {None, Relative} \cup [scheme : STRING, hostname : Nat, port : Ports]

VARIABLES
  session,   \* the HTTPS connection, with the handler that admitted it
  cache,     \* the CertStore of the served handler
  exchange   \* the request that was just answered, and its answer

vars == <<trafficVars, session, cache, exchange>>

(***************************************************************************)
(* The certificate cache: a map of hostnames to the elements of a list,    *)
(* whose front is the hostname used last.                                  *)
(***************************************************************************)
EmptyCache == [entries |-> {}, lru |-> <<>>]

Generated(hostname) == [hostname |-> hostname, signer |-> served.identity]

Found(hostname) == CHOOSE i \in 1..Len(cache.lru) : cache.lru[i].hostname = hostname

MoveToFront(s, k) ==
  [i \in 1..Len(s) |-> IF i = 1 THEN s[k] ELSE IF i <= k THEN s[i - 1] ELSE s[i]]

Evict_newest(c) ==
  IF Len(c.lru) <= Capacity THEN c
  ELSE [entries |-> c.entries \ {c.lru[1].hostname}, lru |-> SubSeq(c.lru, 1, Len(c.lru) - 1)]
Evict(c) ==
  IF Len(c.lru) <= Capacity THEN c
  ELSE [entries |-> c.entries \ {c.lru[Len(c.lru)].hostname},
        lru |-> SubSeq(c.lru, 1, Len(c.lru) - 1)]

Fetch(hostname) ==
  IF hostname \in cache.entries
  THEN [cache EXCEPT !.lru = MoveToFront(cache.lru, Found(hostname))]
  ELSE Evict([entries |-> cache.entries \cup {hostname},
              lru |-> <<Generated(hostname)>> \o cache.lru])

(***************************************************************************)
(* CORS.  A header is a function from names to sets of values; {} is a     *)
(* header that is absent.                                                  *)
(***************************************************************************)
Policy == {"Allow-Origin", "Allow-Credentials", "Allow-Methods", "Allow-Headers",
           "Allow-Private-Network", "Expose-Headers", "Max-Age"}
Cookies == {"Set-Cookie"}
HeaderNames == Policy \cup Cookies \cup {"Vary", "Other"}
NoHeader == [n \in HeaderNames |-> {}]

AddVary(header, names) ==
  IF "*" \in header["Vary"] THEN header ELSE [header EXCEPT !["Vary"] = @ \cup names]

IsPreflight(req) == req.method = "OPTIONS" /\ req.origin # None /\ req.requestMethod # None

Preflight(req) ==
  AddVary([NoHeader EXCEPT
             !["Allow-Origin"] = {req.origin},
             !["Allow-Credentials"] = {"true"},
             !["Allow-Methods"] = {req.requestMethod},
             !["Allow-Headers"] = {req.requestHeaders} \ {None},
             !["Allow-Private-Network"] = IF req.privateNetwork THEN {"true"} ELSE {},
             !["Max-Age"] = {"0"}],
          {"Origin", "Request-Method", "Request-Headers", "Request-Private-Network"})

Repair_added(header, req) ==
  IF req.origin = None \/ IsPreflight(req) THEN header
  ELSE AddVary([header EXCEPT !["Allow-Origin"] = @ \cup {req.origin},
                              !["Allow-Credentials"] = {"true"}], {"Origin"})
Repair(header, req) ==
  LET cleared == [n \in HeaderNames |-> IF n \in Policy THEN {} ELSE header[n]]
      allowed == AddVary([cleared EXCEPT !["Allow-Origin"] = {req.origin},
                                         !["Allow-Credentials"] = {"true"}], {"Origin"})
      exposed == {n \in HeaderNames \ (Policy \cup Cookies) : allowed[n] # {}}
  IN  IF req.origin = None \/ IsPreflight(req) THEN header
      ELSE [allowed EXCEPT !["Expose-Headers"] = exposed]

(***************************************************************************)
(* A request and its answer.                                               *)
(***************************************************************************)
\* Route.RewriteResponse
RewriteResponse_anyPort(route, location) ==
  IF location \in {None, Relative} THEN location
  ELSE IF location.scheme = "http" /\ location.hostname = route.hostname
       THEN [scheme |-> "https", hostname |-> route.hostname, port |-> route.httpsPort]
  ELSE location
RewriteResponse(route, location) ==
  IF location \in {None, Relative} THEN location
  ELSE IF /\ location.scheme = "http"
          /\ location.hostname = route.hostname
          /\ location.port = route.httpPort
       THEN [scheme |-> "https", hostname |-> route.hostname, port |-> route.httpsPort]
  ELSE location

\* The handler's hooks in their order: the facade, the preflight, and what
\* comes back from upstream.
Handled(facades, url, req, reply) ==
  LET admitting == Forward(facades, url)
  IN  [url |-> url, req |-> req, reply |-> reply,
       upstream |-> Upstream(facades, url),
       answer |-> Repair(reply.header, req),
       redirect |-> IF admitting = {} THEN reply.location
                    ELSE RewriteResponse(CHOOSE r \in admitting : TRUE, reply.location)]

Local(url, req) ==
  [url |-> url, req |-> req, reply |-> None, upstream |-> None,
   answer |-> Preflight(req), redirect |-> None]

\* An upstream that cannot be reached: the hooks are given no response and make
\* none, and goproxy answers itself.
Failed(facades, url, req) ==
  [url |-> url, req |-> req, reply |-> None, upstream |-> Upstream(facades, url),
   answer |-> NoHeader, redirect |-> None]

Answer(facades, url) ==
  \E req \in Requests :
    \/ IsPreflight(req) /\ exchange' = Local(url, req)
    \/ ~IsPreflight(req) /\ \E reply \in Replies : exchange' = Handled(facades, url, req, reply)
    \/ ~IsPreflight(req) /\ exchange' = Failed(facades, url, req)

(***************************************************************************)
(* The steps.                                                              *)
(***************************************************************************)
NoSession == [phase |-> "none", url |-> None, facades |-> <<>>, identity |-> None, leaf |-> None]

Init == InitTraffic /\ session = NoSession /\ cache = EmptyCache /\ exchange = None

CacheAfterSwitch_kept == cache
\* proxy.New comes with a cache of its own.
CacheAfterSwitch == IF served' # served THEN EmptyCache ELSE cache

Runtime ==
  /\ exchange = None
  /\ TrafficStep
  /\ cache' = CacheAfterSwitch
  /\ UNCHANGED <<session, exchange>>

\* CONNECT without signing material: bytes pass unread.
Tunnel(url) ==
  /\ session = NoSession
  /\ exchange = None
  /\ served.identity = None
  /\ session' = [NoSession EXCEPT !.phase = "tunnel", !.url = url]
  /\ UNCHANGED <<trafficVars, cache, exchange>>

\* CONNECT with signing material, and the handshake.  If it fails, the
\* connection ends and nothing is cached.
Intercept(url) ==
  /\ session = NoSession
  /\ exchange = None
  /\ served.identity # None
  /\ cache' = Fetch(url.hostname)
  /\ session' = [phase |-> "intercepted", url |-> url, facades |-> served.facades,
                 identity |-> served.identity, leaf |-> cache'.lru[1]]
  /\ UNCHANGED <<trafficVars, exchange>>

InterceptedRequest ==
  /\ session.phase = "intercepted"
  /\ exchange = None
  /\ Answer(session.facades, session.url)
  /\ UNCHANGED <<trafficVars, session, cache>>

\* A request for an http URL, each to the handler of the moment.
PlainRequest(url) ==
  /\ session = NoSession
  /\ exchange = None
  /\ Answer(served.facades, url)
  /\ UNCHANGED <<trafficVars, session, cache>>

\* The browser has taken the answer.
Taken ==
  /\ exchange # None
  /\ exchange' = None
  /\ UNCHANGED <<trafficVars, session, cache>>

Disconnect ==
  /\ session # NoSession
  /\ exchange = None
  /\ session' = NoSession
  /\ UNCHANGED <<trafficVars, cache, exchange>>

Next ==
  \/ Runtime
  \/ \E url \in {u \in Targets : u.scheme = "https"} : Tunnel(url) \/ Intercept(url)
  \/ InterceptedRequest
  \/ \E url \in {u \in Targets : u.scheme = "http"} : PlainRequest(url)
  \/ Taken
  \/ Disconnect

Spec == Init /\ [][Next]_vars

(***************************************************************************)
(* Properties.                                                             *)
(***************************************************************************)
Mentions(header, name) == {name, "*"} \cap header["Vary"] # {}

\* What a browser demands before it lets the page send the request.
AllowsRequest(answer, req) ==
  /\ answer["Allow-Origin"] = {req.origin}
  /\ answer["Allow-Credentials"] = {"true"}
  /\ req.requestMethod \in answer["Allow-Methods"]
  /\ req.requestHeaders # None => req.requestHeaders \in answer["Allow-Headers"]
  /\ req.privateNetwork => answer["Allow-Private-Network"] = {"true"}

\* What it demands before it lets the page read the response, and which of its
\* headers the page may then read: all but cookies.
AllowsReading(answer, req) ==
  /\ answer["Allow-Origin"] = {req.origin}
  /\ answer["Allow-Credentials"] = {"true"}
  /\ \A n \in {"Vary", "Other"} : answer[n] # {} => n \in answer["Expose-Headers"]

\* Every page may send what it asks to send and read what upstream answers,
\* whatever policy upstream sent along, and no cache serves what was answered to
\* one origin to another.  Preflights stay local; answers to requests without an
\* origin, and what is no CORS header, pass as they are.  A failure to reach
\* upstream grants nothing (Preflight, Repair and the order of the hooks in New).
AnswersAreReadable ==
  exchange # None =>
    LET req == exchange.req
        answer == exchange.answer
        upstream == exchange.reply
    IN  /\ IsPreflight(req) => /\ AllowsRequest(answer, req)
                               /\ Mentions(answer, "Origin")
                               /\ exchange.upstream = None
        /\ upstream = None /\ ~IsPreflight(req) => \A n \in Policy : answer[n] = {}
        /\ upstream # None =>
             /\ \A n \in Cookies \cup {"Other"} : answer[n] = upstream.header[n]
             /\ IF req.origin = None THEN answer = upstream.header
                ELSE /\ AllowsReading(answer, req)
                     /\ Mentions(answer, "Origin")
                     /\ answer["Max-Age"] = {}

\* A redirect through a facade leads where upstream sent it: following it over
\* the same session reaches the origin that it named, the browser is never sent
\* back to the plain origin that the facade stands for, and no redirect to
\* elsewhere is touched.
RedirectsStayOnFacade ==
  exchange # None /\ exchange.redirect \notin {None, Relative} =>
    LET facades == IF session = NoSession THEN served.facades ELSE session.facades
        named == exchange.reply.location
        faced == exchange.upstream # exchange.url /\ named = exchange.upstream
    IN  /\ named.scheme = "http" => Upstream(facades, exchange.redirect) = named
        /\ IF faced THEN exchange.redirect.scheme = "https" ELSE exchange.redirect = named

\* The list and the map of the cache agree and stay within the capacity, every
\* certificate in it is signed by the UserCA that is served, and a session
\* shows a certificate for its hostname by the UserCA it was admitted with,
\* however often UserCAs were replaced before.
LeafCertificatesMatch ==
  /\ cache.entries = {cache.lru[i].hostname : i \in 1..Len(cache.lru)}
  /\ Len(cache.lru) <= Capacity
  /\ \A i, j \in 1..Len(cache.lru) : i # j => cache.lru[i].hostname # cache.lru[j].hostname
  /\ \A i \in 1..Len(cache.lru) : cache.lru[i].signer = served.identity
  /\ session.phase = "intercepted" =>
       session.leaf = [hostname |-> session.url.hostname, signer |-> session.identity]
=============================================================================
