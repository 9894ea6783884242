----------------------------- MODULE MCProxyCache -----------------------------
(* Small instances of the proxy and its cache: a request as a client sends it,  *)
(* and the same request as it reaches the proxy through another one.           *)
EXTENDS ProxyCache

CONSTANTS s1, s2, a, b

Get(server, proto, via, ip) ==
  [method |-> "GET", server |-> server, host |-> server, proto |-> proto, via |-> via, ip |-> ip]

Plain    == Get(s1, FALSE, <<>>, a)         \* stored where Chained is looked up
Chained  == Get(s1, TRUE, <<a>>, b)         \* the other proxy's address is b
Other    == Get(s2, TRUE, <<a>>, b)
Twin     == Get(s1, TRUE, <<>>, a)          \* stored where Plain is, under another mutex
Looping  == Get(s1, TRUE, <<a, b>>, a)

MCRequest == {Plain, Chained, Other, Twin, Looping}
MCStripe(k) == IF k.proto /\ k.via = <<>> THEN 1 ELSE 0
JustPlain == {Plain}

\* Of three connections the last repeats an earlier request; what a twin may disturb
\* are its own kind, Plain and Chained; and a crash comes early.
Fewer ==
  /\ accepted' = 3 => seen' = seen
  /\ Twin \in seen' => seen' \subseteq {Plain, Chained, Twin}
  /\ {Other, Looping} \cap seen' # {} => accepted' <= 2
  /\ crashes' = 1 => now' <= 1 /\ Twin \notin seen'
==============================================================================
