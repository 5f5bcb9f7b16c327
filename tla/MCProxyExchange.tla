---------------------------- MODULE MCProxyExchange ----------------------------
EXTENDS ProxyExchange

\* b < c, the name x.b below b, and y.x.b below that.
b == 1
c == 2
MCHostnames == 1..4
MCParent == <<0, 0, b, 3>>

Line(scheme, hostname, port) ==
  [scheme |-> scheme, hostname |-> hostname, port |-> port, wildcard |-> FALSE, path |-> FALSE]
Host(hostname) == Line("none", hostname, Omitted)
Wild(hostname) == [Host(hostname) EXCEPT !.wildcard = TRUE]

\* Lists that differ in order and spelling, collide as facades, shadow one
\* another, contain warnings, or are not UTF-8.
MCFiles ==
  {Undecodable,
   <<Host(b), Line("http", c, Omitted), Line("http", b, 443)>>,
   <<Line("http", b, 443), Line("http", c, 80), Host(b), Host(b)>>,
   <<Line("https", b, Omitted), Line("https", b, 65536)>>,
   <<Line("http", b, 80), Line("http", b, 443), Wild(b)>>,
   <<Line("none", b, 80), [Host(c) EXCEPT !.path = TRUE], Wild(b)>>}

URL(scheme, hostname, port) == [scheme |-> scheme, hostname |-> hostname, port |-> port]
MCTargets == {URL("https", b, 443), URL("https", c, 443), URL("https", 3, 443), URL("http", b, 80)}

Request(method, origin, requestMethod, more) ==
  [method |-> method, origin |-> origin, requestMethod |-> requestMethod,
   requestHeaders |-> IF more THEN "headers" ELSE None, privateNetwork |-> more]
MCRequests ==
  {Request("GET", None, None, FALSE), Request("GET", Origin, None, FALSE),
   Request("OPTIONS", Origin, None, FALSE),
   Request("OPTIONS", Origin, "method", FALSE), Request("OPTIONS", Origin, "method", TRUE)}

Reply(header, location) == [header |-> header, location |-> location]
Plain == [NoHeader EXCEPT !["Other"] = {"value"}]
Wildcard == [NoHeader EXCEPT !["Allow-Origin"] = {"*"}, !["Max-Age"] = {"600"}, !["Vary"] = {"*"},
                             !["Set-Cookie"] = {"value"}]
Foreign == [NoHeader EXCEPT !["Allow-Origin"] = {"foreign"}, !["Allow-Credentials"] = {"false"},
                            !["Vary"] = {"Accept"}, !["Expose-Headers"] = {"Other"}]
MCReplies ==
  {Reply(Wildcard, None), Reply(Plain, Relative), Reply(Plain, URL("http", b, 80)),
   Reply(Foreign, URL("http", b, 443)), Reply(Plain, URL("https", b, 443)),
   Reply(Plain, URL("http", c, 80))}

Interchangeable == Permutations(CAs)
=============================================================================
