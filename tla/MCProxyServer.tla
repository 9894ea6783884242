----------------------------- MODULE MCProxyServer ----------------------------
(* Two connections, one of them a tunnel, and a pool of one thread.            *)
EXTENDS ProxyServer

Option(name, v) == [flag |-> name, value |-> v]
CommandLines ==
  {<<>>, <<Option("port", 0)>>, <<Option("max-age", -2)>>, <<Option("proxy-server", 0)>>,
   <<Option("proxy-port", 3), Option("port", 2)>>, <<Option("unknown", 0), Option("port", 2)>>,
   <<Option("clear-cache", 0), Option("proxy-server", 1), Option("max-age", 5), Option("proxy-port", 3)>>}
===============================================================================
