-------------------------------- MODULE Tunnel --------------------------------
(* The tunnel of a CONNECT request: manageClientServerBridge between the       *)
(* streams of a client and an origin server, the watch set it waits with, and  *)
(* the two peers.  A peer's bytes are numbered in the order it sends them.     *)
(* There is one such state for every connection of the proxy.                  *)
EXTENDS Integers, SequencesExt

CONSTANTS
  Conn,       \* the connections that clients make
  IsConnect,  \* those whose request is CONNECT
  Bytes       \* how many bytes of a peer are counted before it starts anew

ASSUME TunnelAssumption == IsConnect \subseteq Conn /\ Bytes \in Nat \ {0}

VARIABLES
  sent,       \* how many bytes each peer has sent
  closed,     \* the peers that have ended their side
  net,        \* what the proxy's sockets have received and the proxy has not read
  bridge,     \* where each tunnel is: "none", "wait", "relay" or "down"
  streams,    \* the sides whose descriptor is still watched
  from,       \* the side that is read
  inbuf,      \* what a stream has read from its socket and not yet given out
  buffer,     \* what was read of "from" and not yet written to the other side
  broken,     \* the streams with an error or an end of file noted
  delivered,  \* what was written to each side's socket
  timedOut    \* the tunnels that ended because nothing came

peerVars == <<sent, closed, net>>
bridgeVars == <<bridge, streams, from, inbuf, buffer, broken, delivered, timedOut>>
tunnelVars == <<peerVars, bridgeVars>>

Side == {"client", "server"}
Other(s) == IF s = "client" THEN "server" ELSE "client"
FirstBytes(n) == [i \in 1 .. n |-> i]
Both(v) == [s \in Side |-> v]

TunnelInit ==
  /\ sent = [c \in Conn |-> Both(0)] /\ closed = [c \in Conn |-> {}]
  /\ net = [c \in Conn |-> Both(<<>>)]
  /\ bridge = [c \in Conn |-> "none"]
  /\ streams = [c \in Conn |-> {}] /\ from = [c \in Conn |-> "client"]
  /\ inbuf = [c \in Conn |-> Both(<<>>)] /\ buffer = [c \in Conn |-> <<>>]
  /\ broken = [c \in Conn |-> {}] /\ delivered = [c \in Conn |-> Both(<<>>)]
  /\ timedOut = {}

(* A client that asked for a tunnel need not wait for the answer; a server is  *)
(* there when the tunnel is and its socket could be connected.                 *)
Present(c, s) ==
  /\ bridge[c] # "down"
  /\ s = "server" => bridge[c] # "none" /\ (s \notin broken[c] \/ sent[c][s] > 0)

PeerSends(c, s) ==
  /\ Present(c, s) /\ s \notin closed[c] /\ sent[c][s] < Bytes
  /\ sent' = [sent EXCEPT ![c][s] = @ + 1]
  /\ net' = [net EXCEPT ![c][s] = Append(@, sent'[c][s])]
  /\ UNCHANGED <<closed, bridgeVars>>

(* A peer may go on for ever: when what it has sent has come through or is     *)
(* lost, the next byte is the first again.                                     *)
OnTheWay(c, s) == (IF from[c] = s THEN buffer[c] ELSE <<>>) \o inbuf[c][s] \o net[c][s]

PeerGoesOn(c, s) ==
  /\ Present(c, s) /\ s \notin closed[c] /\ sent[c][s] = Bytes /\ OnTheWay(c, s) = <<>>
  /\ sent' = [sent EXCEPT ![c][s] = 1]
  /\ net' = [net EXCEPT ![c][s] = <<1>>]
  /\ delivered' = [delivered EXCEPT ![c][Other(s)] = <<>>]
  /\ UNCHANGED <<closed, bridge, streams, from, inbuf, buffer, broken, timedOut>>

PeerCloses(c, s) ==
  /\ Present(c, s) /\ s \notin closed[c]
  /\ closed' = [closed EXCEPT ![c] = @ \cup {s}]
  /\ UNCHANGED <<sent, net, bridgeVars>>

-------------------------------------------------------------------------------
(* handleConnectRequest.  The stream that read the request may have read what  *)
(* the client sent after it as well.  A connection that cannot be made leaves  *)
(* a stream without a socket, which nobody notices: the client is told OK, if  *)
(* it can still be told anything.                                              *)
HandleConnect(c) ==
  /\ bridge[c] = "none"
  /\ \E k \in 0 .. Len(net[c]["client"]), fails \in SUBSET Side :
       /\ "client" \in fails => "client" \in closed[c]
       /\ inbuf' = [inbuf EXCEPT ![c]["client"] = SubSeq(net[c]["client"], 1, k)]
       /\ net' = [net EXCEPT ![c]["client"] = SubSeq(@, k + 1, Len(@))]
       /\ broken' = [broken EXCEPT ![c] = fails]
  /\ bridge' = [bridge EXCEPT ![c] = "wait"]
  /\ streams' = [streams EXCEPT ![c] = Side]
  /\ UNCHANGED <<sent, closed, from, buffer, delivered, timedOut>>

(* watchset.wait: a descriptor with something to read or at its end, as long   *)
(* as it is watched; bytes that a stream has already read do not show.         *)
HasEvent(c, s) == s \in streams[c] /\ (net[c][s] # <<>> \/ s \in closed[c])

(* The read of one byte, for which the stream reads what the socket has if it  *)
(* has none left.                                                              *)
ReadOne(c, s) ==
  /\ bridge[c] = "wait" /\ HasEvent(c, s)
  /\ s \notin broken[c] /\ (inbuf[c][s] # <<>> \/ net[c][s] # <<>>)
  /\ \E n \in 0 .. Len(net[c][s]) :
       /\ n = 0 <=> inbuf[c][s] # <<>>
       /\ LET got == inbuf[c][s] \o SubSeq(net[c][s], 1, n)
          IN  /\ buffer' = [buffer EXCEPT ![c] = <<Head(got)>>]
              /\ inbuf' = [inbuf EXCEPT ![c][s] = Tail(got)]
              /\ net' = [net EXCEPT ![c][s] = SubSeq(@, n + 1, Len(@))]
  /\ from' = [from EXCEPT ![c] = s]
  /\ bridge' = [bridge EXCEPT ![c] = "relay"]
  /\ UNCHANGED <<sent, closed, streams, broken, delivered, timedOut>>

(* At the end of file, or with an error noted before, the descriptor is no     *)
(* longer watched.  The stream is the one for the other direction too, and     *)
(* will not write any more.                                                    *)
RemoveStream(c, s) ==
  /\ bridge[c] = "wait" /\ HasEvent(c, s)
  /\ s \in broken[c] \/ (inbuf[c][s] = <<>> /\ net[c][s] = <<>>)
  /\ streams' = [streams EXCEPT ![c] = @ \ {s}]
  /\ broken' = [broken EXCEPT ![c] = @ \cup {s}]
  /\ UNCHANGED <<peerVars, bridge, from, inbuf, buffer, delivered, timedOut>>

\* Slip: the byte that was read to see whether there is one is not written.
RelayedRest(c) == inbuf[c][from[c]]

(* The byte, the rest of what the stream has, and the flush; a write can fail  *)
(* when the peer is gone, which the stream to it notes.                        *)
Relayed(c) == buffer[c] \o inbuf[c][from[c]]

Relay(c) ==
  /\ bridge[c] = "relay"
  /\ LET to == Other(from[c])
     IN  \/ /\ to \notin broken[c]
            /\ delivered' = [delivered EXCEPT ![c][to] = @ \o Relayed(c)]
            /\ UNCHANGED broken
         \/ /\ to \in broken[c] \cup closed[c]
            /\ broken' = [broken EXCEPT ![c] = @ \cup {to}]
            /\ UNCHANGED delivered
  /\ buffer' = [buffer EXCEPT ![c] = <<>>]
  /\ inbuf' = [inbuf EXCEPT ![c][from[c]] = <<>>]
  /\ bridge' = [bridge EXCEPT ![c] = "wait"]
  /\ UNCHANGED <<peerVars, streams, from, timedOut>>

(* Five seconds without an event; while the peers send, however long ago the   *)
(* server was stopped, the tunnel stays.                                       *)
TimeOut(c) ==
  /\ bridge[c] = "wait" /\ streams[c] # {} /\ ~\E s \in Side : HasEvent(c, s)
  /\ bridge' = [bridge EXCEPT ![c] = "down"]
  /\ timedOut' = timedOut \cup {c}
  /\ UNCHANGED <<peerVars, streams, from, inbuf, buffer, broken, delivered>>

TearDown(c) ==
  /\ bridge[c] = "wait" /\ streams[c] = {}
  /\ bridge' = [bridge EXCEPT ![c] = "down"]
  /\ UNCHANGED <<peerVars, streams, from, inbuf, buffer, broken, delivered, timedOut>>

WatchStep(c) == (\E s \in Side : ReadOne(c, s) \/ RemoveStream(c, s)) \/ TimeOut(c) \/ TearDown(c)
TunnelStep(c) == WatchStep(c) \/ Relay(c)

SomeoneSends(c) == \E s \in Side : PeerSends(c, s) \/ PeerGoesOn(c, s)
PeerStep(c) == SomeoneSends(c) \/ \E s \in Side : PeerCloses(c, s)

-------------------------------------------------------------------------------
(* What a side is given is what the other has sent, in its order, nothing      *)
(* twice and nothing left out, though the bytes pass through a socket, a       *)
(* stream and a buffer and both directions share one loop.  Only the bytes for *)
(* a side that has ended its own sending, or never was connected, are lost.  A *)
(* tunnel that goes down leaves nothing behind but the bytes of a peer that    *)
(* could not be written to, and what the client sent so early that it was read *)
(* with the request, if nothing came after it.                                 *)
TunnelKeepsBytes ==
  \A c \in Conn, s \in Side :
    LET to == Other(s)
    IN  /\ IsPrefix(delivered[c][to], FirstBytes(sent[c][s]))
        /\ to \notin broken[c] => delivered[c][to] \o OnTheWay(c, s) = FirstBytes(sent[c][s])
        /\ to \in broken[c] => to \in closed[c] \/ to = "server"
        /\ bridge[c] = "down" /\ to \notin broken[c] /\ OnTheWay(c, s) # <<>> =>
             \/ s \in broken[c] \cap closed[c]
             \/ /\ s = "client" /\ c \in timedOut
                /\ delivered[c][to] = <<>> /\ net[c][s] = <<>>
===============================================================================
