------------------------------- MODULE Connect -------------------------------
(***************************************************************************)
(* internal/proxy/handler.go, handleConnect: the other thing ServeHTTP can *)
(* do with a request. A CONNECT takes the client's connection over, dials  *)
(* the host and leaves two goroutines behind, one copying each way.        *)
(***************************************************************************)
EXTENDS ProxyRequest

VARIABLES
  conn,   \* the proxy's two connections
  peer,   \* what the other end of each has done
  copy    \* the goroutine that reads from this side and writes to the other

tunnel == <<conn, peer, copy>>

Side == {"client", "dest"}

Other(d) == IF d = "client" THEN "dest" ELSE "client"

ConnectTypeOK ==
  /\ TypeOK
  /\ conn \in [Side -> {"none", "open", "closed"}]
  /\ peer \in [Side -> {"open", "finished", "lost"}]
  /\ copy \in [Side -> {"off", "copying", "closing", "done"}]

ConnectInit ==
  /\ Init
  /\ conn = [d \in Side |-> "none"]
  /\ peer = [d \in Side |-> "open"]
  /\ copy = [d \in Side |-> "off"]

handling == <<request, route, loop, ctxDone, pool>>

\* The server's own buffered connection is hijacked, or cannot be.
Hijack ==
  /\ pc = "start"
  /\ \/ pc' = "dial" /\ conn' = [conn EXCEPT !["client"] = "open"] /\ UNCHANGED answer
     \/ Answers("rejected", FALSE) /\ UNCHANGED conn
  /\ UNCHANGED <<handling, peer, copy>>

\* No connection to the host within 10 seconds.
DialFails ==
  /\ pc = "dial"
  /\ conn' = [conn EXCEPT !["client"] = "closed"]
  /\ Answers("bad_gateway", FALSE)
  /\ UNCHANGED <<handling, peer, copy>>

\* 200 is written, and the handler returns; if it cannot be, both are closed.
Establish ==
  /\ pc = "dial"
  /\ \/ /\ conn' = [d \in Side |-> "open"] /\ copy' = [d \in Side |-> "copying"]
        /\ Answers("tunnelled", FALSE)
     \/ /\ peer["client"] # "open"
        /\ conn' = [d \in Side |-> "closed"] /\ Answers("gone", FALSE)
        /\ UNCHANGED copy
  /\ UNCHANGED <<handling, peer>>

-----------------------------------------------------------------------------
\* io.Copy ends when its source has ended or is closed ...
SourceEnds(d) ==
  /\ copy[d] = "copying" /\ (conn[d] = "closed" \/ peer[d] # "open")
  /\ copy' = [copy EXCEPT ![d] = "closing"]
  /\ UNCHANGED <<vars, conn, peer>>

\* ... or when it has something to write and cannot.
WriteFails(d) ==
  /\ copy[d] = "copying" /\ (conn[Other(d)] = "closed" \/ peer[Other(d)] = "lost")
  /\ copy' = [copy EXCEPT ![d] = "closing"]
  /\ UNCHANGED <<vars, conn, peer>>

\* Mutant of CloseBoth: each goroutine closes what it reads from.
CloseOwn(d) == [conn EXCEPT ![d] = "closed"]

\* The deferred calls: clientConn.Close, then destConn.Close.
CloseBoth(d) == [s \in Side |-> "closed"]

Close(d) ==
  /\ copy[d] = "closing"
  /\ conn' = CloseBoth(d) /\ copy' = [copy EXCEPT ![d] = "done"]
  /\ UNCHANGED <<vars, peer>>

\* A peer finishes its half of the connection, or is gone altogether.
PeerEnds(d) ==
  /\ conn[d] = "open"
  /\ \/ peer[d] = "open" /\ peer' = [peer EXCEPT ![d] = "finished"]
     \/ peer[d] # "lost" /\ peer' = [peer EXCEPT ![d] = "lost"]
  /\ UNCHANGED <<vars, conn, copy>>

Tunnelling == \E d \in Side : SourceEnds(d) \/ WriteFails(d) \/ Close(d) \/ PeerEnds(d)

ConnectNext ==
  \/ Next /\ pc # "dial" /\ UNCHANGED tunnel
  \/ Hijack \/ DialFails \/ Establish \/ Tunnelling

connectVars == <<vars, tunnel>>

ConnectSpec == ConnectInit /\ [][ConnectNext]_connectVars

\* The handler runs as in ProxyRequest, dialling has a timeout, and a peer that is still
\* there takes what is written to it. Nobody need ever send anything.
ConnectFairSpec ==
  /\ ConnectSpec
  /\ WF_connectVars(Prompt /\ UNCHANGED tunnel) /\ WF_connectVars(Aborted /\ UNCHANGED tunnel)
  /\ WF_connectVars(DialFails \/ Establish)
  /\ \A d \in Side : WF_connectVars(SourceEnds(d)) /\ WF_connectVars(Close(d))

-----------------------------------------------------------------------------
\* A tunnel whose one end is finished is taken down altogether, although the other end
\* may stay silent for ever: both connections are closed and both goroutines end.
TunnelEnds ==
  \A d \in Side :
    copy[d] # "off" /\ peer[d] # "open" ~>
      \A s \in Side : conn[s] = "closed" /\ copy[s] = "done"
=============================================================================
