-------------------------- MODULE TrafficProjection --------------------------
(***************************************************************************)
(* What a Gateway Runtime routes: from the contents of its Upstream Lists  *)
(* and the usable UserCA to the Generated PAC and the HTTPS Facades that   *)
(* are served with it (src/internal/upstreamlist, httpsfacade, pacrouting  *)
(* and the switch in src/internal/gateway/traffic.go).                     *)
(*                                                                         *)
(* A hostname is a number, in the order of the names, and Parent gives the *)
(* hostname without its first label.  A line of a list is what its URL     *)
(* parser finds in it.  RuntimeSignaling has the locks and channels around *)
(* the switch, which is one step here.                                     *)
(*                                                                         *)
(* A definition whose name has a suffix, such as Place_first, is the    *)
(* definition before the underscore with one plausible mistake, kept to    *)
(* show that a property notices the mistake.                               *)
(***************************************************************************)
EXTENDS Naturals, Sequences, SequencesExt

CONSTANTS
  Hostnames,   \* the valid hostnames, as positive numbers in their order
  Parent,      \* the hostname without its first label, or 0
  Sources,     \* how many Upstream Lists there are, in order of precedence
  Files,       \* what a list can contain: sequences of lines, or Undecodable
  Undecodable, \* contents that are not UTF-8
  CAs,         \* identities of usable UserCAs
  None

ASSUME HostnamesAssumption == Hostnames \subseteq Nat \ {0}
ASSUME ParentAssumption == Parent \in [Hostnames -> Hostnames \cup {0}]
ASSUME SourcesAssumption == Sources \in Nat
ASSUME NoneAssumption == None \notin CAs

httpDefaultPort == 80
httpsDefaultPort == 443
Ports == 1..65535
\* A line without a port, and one with a colon and nothing behind it.
Omitted == 0
Empty == 65536

Lines ==
  [scheme : {"none", "http", "https"}, hostname : Nat, port : Ports \cup {Omitted, Empty},
   wildcard : BOOLEAN, path : BOOLEAN]

ASSUME FilesAssumption == Files \subseteq Seq(Lines) \cup {Undecodable}

(***************************************************************************)
(* Upstream Lists: lines, selectors, projections.                          *)
(***************************************************************************)
IsHostSelector(line) ==
  /\ line.scheme = "none"
  /\ line.hostname \in Hostnames
  /\ line.port = Omitted
  /\ ~line.path

HostSelector(line) == [hostname |-> line.hostname, wildcard |-> line.wildcard]

IsOriginSelector(line) ==
  /\ line.scheme \in {"http", "https"}
  /\ line.hostname \in Hostnames
  /\ line.port \in Ports \cup {Omitted}
  /\ ~line.wildcard
  /\ ~line.path

OriginSelector(line) ==
  [scheme |-> line.scheme, hostname |-> line.hostname,
   port |-> CASE line.port # Omitted -> line.port
              [] line.scheme = "http" -> httpDefaultPort
              [] OTHER -> httpsDefaultPort]

Keep(kept, x) == IF x \in ToSet(kept) THEN kept ELSE Append(kept, x)

\* deduplicate: the first occurrence of each.
Deduplicate(s) ==
  LET kept[n \in 0..Len(s)] == IF n = 0 THEN <<>> ELSE Keep(kept[n - 1], s[n])
  IN  kept[Len(s)]

HostSelectors(line) == IF IsHostSelector(line) THEN <<HostSelector(line)>> ELSE <<>>
OriginSelectors(line) == IF IsOriginSelector(line) THEN <<OriginSelector(line)>> ELSE <<>>

\* Text that is neither selector is a warning, and selects nothing.
Decode(file) ==
  [hosts |-> Deduplicate(FlattenSeq([i \in DOMAIN file |-> HostSelectors(file[i])])),
   origins |-> Deduplicate(FlattenSeq([i \in DOMAIN file |-> OriginSelectors(file[i])]))]

Nothing == [hosts |-> <<>>, origins |-> <<>>]
Project(file) == IF file = Undecodable THEN Nothing ELSE Decode(file)

Merge(lists) ==
  [hosts |-> Deduplicate(FlattenSeq([i \in DOMAIN lists |-> lists[i].hosts])),
   origins |-> Deduplicate(FlattenSeq([i \in DOMAIN lists |-> lists[i].origins]))]

HostBefore(a, b) ==
  \/ a.hostname < b.hostname
  \/ a.hostname = b.hostname /\ ~a.wildcard /\ b.wildcard

OriginBefore(a, b) ==
  \/ a.scheme = "http" /\ b.scheme = "https"
  \/ a.scheme = b.scheme /\ a.hostname < b.hostname
  \/ a.scheme = b.scheme /\ a.hostname = b.hostname /\ a.port < b.port

\* sort.Slice: each element of list goes behind as many as come before it.  The
\* order is total, and a merged list holds nothing twice.
Sorted(list, Before(_, _)) ==
  LET Rank(x) == Cardinality({y \in ToSet(list) : Before(y, x)})
  IN  [i \in 1..Len(list) |-> CHOOSE x \in ToSet(list) : Rank(x) = i - 1]

CanonicalUpstreams_asListed(list) == list
CanonicalUpstreams(list) ==
  [hosts |-> Sorted(list.hosts, HostBefore), origins |-> Sorted(list.origins, OriginBefore)]

(***************************************************************************)
(* HTTPS Facades.                                                          *)
(***************************************************************************)
NativeHTTPS(origins) ==
  {<<o.hostname, o.port>> : o \in {x \in ToSet(origins) : x.scheme = "https"}}

Candidate(o) ==
  [hostname |-> o.hostname, httpPort |-> o.port,
   httpsPort |-> IF o.port = httpDefaultPort THEN httpsDefaultPort ELSE o.port]

BrowserOrigin(route) == <<route.hostname, route.httpsPort>>
Unchanged(route) == route.httpPort = route.httpsPort

\* One turn of the loop over HTTP origins.
Place_first(native, routes, route) ==
  IF BrowserOrigin(route) \in native \cup {BrowserOrigin(r) : r \in ToSet(routes)}
  THEN routes ELSE Append(routes, route)
Place(native, routes, route) ==
  IF BrowserOrigin(route) \in native THEN routes
  ELSE IF \A r \in ToSet(routes) : BrowserOrigin(r) # BrowserOrigin(route)
       THEN Append(routes, route)
  ELSE [i \in DOMAIN routes |->
          IF /\ BrowserOrigin(routes[i]) = BrowserOrigin(route)
             /\ Unchanged(route) /\ ~Unchanged(routes[i])
          THEN route ELSE routes[i]]

Facades(origins) ==
  LET routes[n \in 0..Len(origins)] ==
        IF n = 0 THEN <<>>
        ELSE IF origins[n].scheme = "http"
             THEN Place(NativeHTTPS(origins), routes[n - 1], Candidate(origins[n]))
        ELSE routes[n - 1]
  IN  routes[Len(origins)]

(***************************************************************************)
(* The Generated PAC: its routes, and how it decides on a request.         *)
(***************************************************************************)
AnyPort == 0
PACRoute(scheme, hostname, port, wildcard) ==
  [scheme |-> scheme, hostname |-> hostname, port |-> port, wildcard |-> wildcard]

HostRoutes(h, trusted) ==
  <<PACRoute("http", h.hostname, AnyPort, h.wildcard)>>
    \o (IF trusted THEN <<PACRoute("https", h.hostname, AnyPort, h.wildcard)>> ELSE <<>>)

OriginRoutes(o, trusted) ==
  IF o.scheme = "https" /\ ~trusted THEN <<>>
  ELSE <<PACRoute(o.scheme, o.hostname, o.port, FALSE)>>

FacadeRoutes(facades) ==
  [i \in DOMAIN facades |-> PACRoute("https", facades[i].hostname, facades[i].httpsPort, FALSE)]

PACRoutes(list, facades, trusted) ==
  FlattenSeq([i \in DOMAIN list.hosts |-> HostRoutes(list.hosts[i], trusted)])
    \o FlattenSeq([i \in DOMAIN list.origins |-> OriginRoutes(list.origins[i], trusted)])
    \o (IF trusted THEN FacadeRoutes(facades) ELSE <<>>)

MatchesRoute_anyDepth(route, url) ==
  /\ url.scheme = route.scheme
  /\ route.port \in {AnyPort, url.port}
  /\ IF route.wildcard
     THEN route.hostname \in {Parent[url.hostname]} \cup
            {Parent[h] : h \in {Parent[url.hostname]} \ {0}}
     ELSE url.hostname = route.hostname
MatchesRoute(route, url) ==
  /\ url.scheme = route.scheme
  /\ route.port \in {AnyPort, url.port}
  /\ route.hostname = (IF route.wildcard THEN Parent[url.hostname] ELSE url.hostname)

FindProxy(routes, url) == \E r \in ToSet(routes) : MatchesRoute(r, url)

(***************************************************************************)
(* The Traffic Projection, and the switch to it.                           *)
(***************************************************************************)
VARIABLES
  sources,    \* the projection of each Upstream List
  userCA,     \* the identity of the retained usable UserCA, or None
  served      \* the Served Traffic Projection: what the PAC Endpoint serves, and
              \* the identity and facades of the proxy that goes with it

trafficVars == <<sources, userCA, served>>

CurrentUpstreamList == Merge(sources)

\* switchTrafficProjectionLocked up to the comparison.  A usable UserCA always
\* comes with an identity, signing material and no assessment error.
Latest(list, ca) ==
  LET canonical == CanonicalUpstreams(list)
      hasHost == list.hosts # <<>>
      hasHTTPOrigin == \E o \in ToSet(list.origins) : o.scheme = "http"
      hasHTTPSOrigin == NativeHTTPS(list.origins) # {}
      httpsDemand == hasHTTPSOrigin \/ (hasHost /\ ca # None)
      trustedHTTPS == ca # None /\ (httpsDemand \/ hasHTTPOrigin)
      facades == IF trustedHTTPS THEN Facades(canonical.origins) ELSE <<>>
  IN  [pac |-> PACRoutes(canonical, facades, trustedHTTPS),
       httpCORSRoutes |-> hasHost \/ hasHTTPOrigin,
       httpsCORSRoutes |-> trustedHTTPS /\ httpsDemand,
       httpsFacadeRoutes |-> facades # <<>>,
       identity |-> IF trustedHTTPS THEN ca ELSE None,
       facades |-> facades]

\* trafficProjectionSemantics.equivalent, which is not given the facades.
Equivalent(a, b) ==
  /\ a.pac = b.pac
  /\ a.httpCORSRoutes = b.httpCORSRoutes
  /\ a.httpsCORSRoutes = b.httpsCORSRoutes
  /\ a.httpsFacadeRoutes = b.httpsFacadeRoutes
  /\ a.identity = b.identity

Switch ==
  LET latest == Latest(Merge(sources'), userCA')
  IN  served' = IF Equivalent(served, latest) THEN served ELSE latest

\* newRuntimeFromSources: the initial outcomes of all lists are in.
InitTraffic ==
  /\ sources \in [1..Sources -> {Project(f) : f \in Files}]
  /\ userCA \in CAs \cup {None}
  /\ served = Latest(CurrentUpstreamList, userCA)

\* applyUpstreamListSourceOutcomeContext.  An optional list that is missing is
\* an empty file; a read error leaves the projection as it is.
ApplyOutcome(s) ==
  /\ \E f \in Files : sources' = [sources EXCEPT ![s] = Project(f)]
  /\ UNCHANGED userCA
  /\ Switch

AdoptUserCA ==
  /\ userCA' \in CAs \cup {None}
  /\ UNCHANGED sources
  /\ Switch

ExpireUserCA ==
  /\ userCA # None
  /\ userCA' = None
  /\ UNCHANGED sources
  /\ Switch

TrafficStep == (\E s \in 1..Sources : ApplyOutcome(s)) \/ AdoptUserCA \/ ExpireUserCA

(***************************************************************************)
(* Forwarding of a request that the proxy can read.                        *)
(***************************************************************************)
Resolve(facades, url) == {r \in ToSet(facades) : BrowserOrigin(r) = <<url.hostname, url.port>>}

\* Projection.Forward: the facade that admits the request, if any.
Forward(facades, url) == IF url.scheme = "https" THEN Resolve(facades, url) ELSE {}

Upstream(facades, url) ==
  IF Forward(facades, url) = {} THEN url
  ELSE LET r == CHOOSE x \in Forward(facades, url) : TRUE
       IN  [scheme |-> "http", hostname |-> r.hostname, port |-> r.httpPort]

(***************************************************************************)
(* Properties.                                                             *)
(***************************************************************************)
\* What the lists select, whatever their order and however often.
SelectedHosts == UNION {ToSet(sources[s].hosts) : s \in 1..Sources}
SelectedOrigins == UNION {ToSet(sources[s].origins) : s \in 1..Sources}

URLs == [scheme : {"http", "https"}, hostname : Hostnames,
         port : {o.port : o \in SelectedOrigins} \cup {httpDefaultPort, httpsDefaultPort}]

Covers(h, hostname) == h.hostname = (IF h.wildcard THEN Parent[hostname] ELSE hostname)
Selects(scheme, url, port) ==
  [scheme |-> scheme, hostname |-> url.hostname, port |-> port] \in SelectedOrigins

\* The upstream that a browser's HTTPS request is to reach: a native selector
\* wins over a facade, and an unchanged port over the translation of port 80.
DocumentedUpstream(url) ==
  LET http(port) == [scheme |-> "http", hostname |-> url.hostname, port |-> port]
  IN  CASE userCA = None \/ Selects("https", url, url.port) -> url
        [] /\ userCA # None /\ ~Selects("https", url, url.port)
           /\ url.port # httpDefaultPort /\ Selects("http", url, url.port) -> http(url.port)
        [] /\ userCA # None /\ ~Selects("https", url, url.port)
           /\ url.port = httpsDefaultPort /\ ~Selects("http", url, httpsDefaultPort)
           /\ Selects("http", url, httpDefaultPort) -> http(httpDefaultPort)
        [] OTHER -> url

\* The served PAC sends a request to the proxy exactly if a Host Selector covers
\* its hostname, an Origin Selector names its origin, or a facade stands in for
\* the HTTP origin that one names; HTTPS only while a usable UserCA is retained.
RoutedAsDocumented ==
  \A url \in URLs :
    FindProxy(served.pac, url) <=>
      /\ url.scheme = "https" => userCA # None
      /\ \/ \E h \in SelectedHosts : Covers(h, url.hostname)
         \/ Selects(url.scheme, url, url.port)
         \/ url.scheme = "https" /\ DocumentedUpstream(url) # url

\* Whatever is switched to forwards each HTTPS request where the selectors of
\* that moment say, by the documented specificity.
SwitchesToDocumentedUpstreams ==
  [][served' # served =>
       (\A url \in URLs : url.scheme = "https" =>
          Upstream(served.facades, url) = DocumentedUpstream(url))']_trafficVars

\* The same selectors in another order, in another list or in another spelling
\* switch nothing, so that the browser is not sent to fetch the PAC again.
OrderIsIrrelevant ==
  [][SelectedHosts' = SelectedHosts /\ SelectedOrigins' = SelectedOrigins /\ userCA' = userCA
       => UNCHANGED served]_trafficVars

\* What is served forwards each HTTPS request as the current selectors say: the
\* comparison that decides on a switch includes the facade mappings.
ServedMappingsAreCurrent ==
  \A url \in URLs : url.scheme = "https" =>
    Upstream(served.facades, url) = DocumentedUpstream(url)
=============================================================================
