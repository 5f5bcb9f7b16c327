-------------------------- MODULE MCRuntimeSignaling --------------------------
(***************************************************************************)
(* Instances of RuntimeSignaling for TLC.                                  *)
(***************************************************************************)
EXTENDS RuntimeSignalingInvariant, SequencesExt, TLC

\* Selectors: a host, two HTTP origins, and the HTTPS origin that a facade of the
\* first of them would stand in for.
Selectors == {"host3", "http1", "http2", "https1"}
HttpOrigins == {"http1", "http2"}
HttpsOf == [host3 |-> "https3", http1 |-> "https1", http2 |-> "https2", https1 |-> "https1"]

\* An empty list, one with a selector, and two that differ in their facades alone.
EmptyOrOne == {{}, {"http1"}}
EmptyOrFacades == {{}, Selectors \ {"https1"}, Selectors}

\* With a UserCA every HTTP origin has a facade, unless its HTTPS origin is
\* selected; the Generated PAC has the HTTPS route either way.
MCFacades ==
  [x \in (EmptyOrOne \cup EmptyOrFacades) \X BOOLEAN |->
     {u \in x[1] \cap HttpOrigins : x[2] /\ HttpsOf[u] \notin x[1]}]

MCSemantics ==
  [x \in (EmptyOrOne \cup EmptyOrFacades) \X BOOLEAN |->
     [pac |-> (x[1] \ {"https1"}) \cup {HttpsOf[u] : u \in {v \in x[1] : x[2]}},
      httpCORSRoutes |-> x[1] \ {"https1"} # {},
      httpsCORSRoutes |-> x[2] /\ x[1] \ HttpOrigins # {},
      httpsFacadeRoutes |-> MCFacades[x] # {}]]

\* TrafficProjection derives the same from these selectors.
NoLists == INSTANCE TrafficProjection WITH
  Hostnames <- {1, 2, 3}, Parent <- <<0, 0, 0>>, Sources <- 0, Files <- {},
  Undecodable <- None, sources <- <<>>

Origin(scheme, hostname, port) == [scheme |-> scheme, hostname |-> hostname, port |-> port]
Origins == [http1 |-> Origin("http", 1, 80), http2 |-> Origin("http", 2, 80),
            https1 |-> Origin("https", 1, 443)]

Derived(x) ==
  NoLists!Latest(
    [hosts |-> IF "host3" \in x[1] THEN <<[hostname |-> 3, wildcard |-> FALSE]>> ELSE <<>>,
     origins |-> SetToSeq({Origins[u] : u \in x[1] \cap DOMAIN Origins})],
    IF x[2] THEN Watcher ELSE None)

ASSUME DerivedAlike ==
  \A x, y \in DOMAIN MCFacades :
    /\ MCFacades[x] = MCFacades[y] <=> Derived(x).facades = Derived(y).facades
    /\ MCSemantics[x].pac = MCSemantics[y].pac <=> Derived(x).pac = Derived(y).pac
    /\ \A kind \in {"httpCORSRoutes", "httpsCORSRoutes", "httpsFacadeRoutes"} :
         MCSemantics[x][kind] = Derived(x)[kind]

Symmetric == Permutations(Lists) \cup Permutations(CAs)
=============================================================================
