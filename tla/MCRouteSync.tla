---- MODULE MCRouteSync ----
(* Small instances of RouteSync. *)
EXTENDS RouteSync, TLC

Off == [on |-> FALSE, requests |-> 7, window |-> 0]
On(n) == [on |-> TRUE, requests |-> n, window |-> 1]

\* Upstream URLs without a path, and with one that ends in a slash; two
\* services with one upstream.
shop == [id |-> 1, project |-> "shop", scheme |-> "http", base |-> <<>>]
twin == [shop EXCEPT !.id = 3]
blog == [id |-> 2, project |-> "blog", scheme |-> "http", base |-> <<"/", "v", "/">>]

Route(service, name, prefix, strip, timeout, enabled, limit) ==
  [service |-> service, name |-> name, prefix |-> prefix, strip |-> strip, timeout |-> timeout,
   enabled |-> enabled, limit |-> limit]

\* A default timeout, nested prefixes, one prefix twice after normalisation, the
\* root, a disabled route and a policy that is refused.
Mixed ==
  {Route(shop, "a", <<"/", "a">>, TRUE, 0, TRUE, Off),
   Route(shop, "b", <<"/", "a", "/", "b", "/">>, FALSE, 5, TRUE, On(3)),
   Route(blog, "a", <<"/", "a", "/">>, TRUE, 5, TRUE, Off),
   Route(blog, "r", <<"/">>, TRUE, 5, TRUE, Off),
   Route(blog, "d", <<"/", "d">>, TRUE, 5, FALSE, Off),
   Route(blog, "z", <<"/", "z">>, TRUE, 5, TRUE, On(0))}

\* Two services may ask for one prefix, and even for routes that a response
\* does not tell apart, and one service for a prefix twice.
Overlapping ==
  {Route(shop, "a", <<"/", "a">>, TRUE, 0, TRUE, On(3)),
   Route(shop, "b", <<"/", "a", "/">>, TRUE, 5, TRUE, Off),
   Route(twin, "a", <<"/", "a">>, TRUE, 0, TRUE, On(3))}

TwoServices == {shop, blog}
Twins == {shop, twin}

Yaml ==
  {[project |-> "", name |-> "y", prefix |-> <<"/", "y", "/">>, scheme |-> "http",
    base |-> <<"/", "w">>, strip |-> TRUE, timeout |-> 5000, limit |-> NewRateLimitPolicy(Off)]}

\* With and without a trailing or doubled slash, and a name that a prefix begins.
SomePaths ==
  {<<"/">>, <<"/", "a">>, <<"/", "a", "/">>, <<"/", "a", "b">>, <<"/", "a", "/", "b">>,
   <<"/", "a", "/", "/", "c">>, <<"/", "a", "/", "b", "/", "c", "/">>, <<"/", "y">>, <<"/", "y", "/", "c">>}
====
