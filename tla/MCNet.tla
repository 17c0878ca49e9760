------------------------------- MODULE MCNet -------------------------------
(***************************************************************************)
(* The network stack's parts for TLC, one of them at a time.               *)
(***************************************************************************)
EXTENDS Tcp, Pktbuf, Sixlowpan, TLC

CONSTANT Components     \* the parts that are checked

VARIABLE component

-----------------------------------------------------------------------------
(* TCP: scripts of calls for both applications, each with its own bounds   *)
(* on faults and on expiring timers.                                       *)

\* 14 and 15 of 16: the numbers of the first connection wrap around;
\* 6 and 7: they cross the boundary of the signed integers
MCIss == { (Client :> <<14, 9>>) @@ (Server :> <<15, 8>>),
           (Client :> <<6, 9>>) @@ (Server :> <<7, 8>>) }

Call(name, len, timeout) == [name |-> name, len |-> len, timeout |-> timeout]
Send(len)    == Call("send", len, FALSE)
SendFor(len) == Call("send", len, TRUE)
Receive(len) == Call("recv", len, TRUE)
TryRecv(len) == Call("recv_now", len, FALSE)
Open  == Call("open", 0, FALSE)
Close == Call("close", 0, FALSE)
Abort == Call("abort", 0, FALSE)

Scenario(client, server, f, e) ==
  [calls |-> (Client :> client) @@ (Server :> server), faults |-> f, expiries |-> e]

MCScenarios == {
  \* one segment: loss, duplication, retransmission, no memory
  Scenario(<<Open, Send(2)>>, <<Open, Receive(2)>>, 1, 1),
  \* teardown from one side or from both at once
  Scenario(<<Open, Close>>, <<Open, Close>>, 0, 1),
  Scenario(<<Open, Close>>, <<Open>>, 1, 1),
  Scenario(<<Open, Send(2), Close>>, <<Open, Receive(2), Close>>, 0, 0),
  \* a send that gives up, and what follows it
  Scenario(<<Open, SendFor(1), Send(1), Close>>, <<Open, Receive(2)>>, 0, 1),
  \* a closed window, probed and reopened
  Scenario(<<Open, Send(2), Send(2)>>, <<Open, TryRecv(1), Receive(1)>>, 0, 1),
  \* aborted, opened again
  Scenario(<<Open, Abort, Open, Send(1)>>, <<Open, Receive(1), Close>>, 0, 0),
  Scenario(<<Open, Abort, Open>>, <<Open, Abort, Open>>, 1, 0),
  \* data in both directions
  Scenario(<<Open, Send(2), Receive(2)>>, <<Open, Receive(2), Send(1)>>, 0, 0) }

-----------------------------------------------------------------------------
(* 6LoWPAN.  First: one node sends two datagrams of one size, split at     *)
(* different places.  Second: three datagrams compete for two entries.     *)
Datagram(s, size, diff) == [src |-> s, size |-> size, diff |-> diff]

MCTraffic ==
    { [dgrams |-> {Datagram("a", 6, -1), Datagram("a", 6, 1)}, mishaps |-> 1],
      [dgrams |-> {Datagram("a", 8, 3), Datagram("a", 6, 1), Datagram("b", 6, 1)},
       mishaps |-> 0] }

MCDatagrams == UNION {c.dgrams : c \in MCTraffic}

-----------------------------------------------------------------------------
MCVars == <<tcpVars, pktbufVars, sixlowpanVars, component>>

MCInit ==
    /\ component \in Components
    /\ TcpInit
    /\ PktbufInit
    /\ SixlowpanInit
    \* with timers, the numbers that tell the two builds apart
    /\ expiries > 0 => wraps = (fresh[Client][1] = 14)
    /\ component # "tcp" =>
        /\ wraps /\ fresh = CHOOSE i \in Iss : i[Client][1] = 14
        /\ LET c == CHOOSE c \in Scenarios : TRUE
           IN  calls = c.calls /\ faults = c.faults /\ expiries = c.expiries
    /\ component # "sixlowpan" =>
        LET c == CHOOSE c \in Traffic : TRUE IN todo = c.dgrams /\ mishaps = c.mishaps

MCNext ==
    /\ \/ component = "tcp" /\ TcpNext /\ UNCHANGED <<pktbufVars, sixlowpanVars>>
       \/ component = "pktbuf" /\ PktbufNext /\ UNCHANGED <<tcpVars, sixlowpanVars>>
       \/ component = "sixlowpan" /\ SixlowpanNext /\ UNCHANGED <<tcpVars, pktbufVars>>
    /\ UNCHANGED component

MCSpec == MCInit /\ [][MCNext]_MCVars
=============================================================================
