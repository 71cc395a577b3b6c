------------------------------ MODULE EchoServer ------------------------------
(***************************************************************************)
(* The echo example on top of the receive buffer: the OnReadData of        *)
(* EchoServer, and of DemoServer, which is the same.  It sends back what   *)
(* is in input.data and leaves input.pos and required_size alone, so       *)
(* nothing it has sent ever leaves the buffer.                             *)
(*                                                                         *)
(* The counts need no bound: the connection is closed once max_header_size *)
(* bytes have come in all.                                                 *)
(***************************************************************************)
EXTENDS ConnectionBuffer

VARIABLES
  received,  \* bytes the client's connection got from recv
  echoed     \* bytes given back to it

echoVars == <<vars, received, echoed>>

EchoInit ==
  /\ Init
  /\ received = 0
  /\ echoed = 0

\* What send makes of n bytes: all of them, or -1 when the client is gone.  (A
\* blocking send that is not interrupted does not stop halfway.)
SendData(n) == {n, -1}

\* OnReadData, called with n bytes in the buffer.
OnReadData(n) ==
  \E sent \in SendData(n) : echoed' = echoed + (IF sent > 0 THEN sent ELSE 0)

\* ConnectionProcessing with this OnReadData: too many bytes left close the
\* connection.
Echo(res) ==
  LET n == size + res
  IN /\ \/ Serve(res, 0, 0)
        \/ n > MaxHeader /\ ServeAndClose(res)
     /\ received' = received + res
     /\ OnReadData(n)

EchoNext ==
  \/ \E res \in 1..Room : Echo(res)
  \/ Left /\ UNCHANGED <<received, echoed>>

EchoSpec == EchoInit /\ [][EchoNext]_echoVars

-----------------------------------------------------------------------------
\* "Accepts connections and sends back everything it has received"
\* (echo_server.cpp:6); OnReadData sends "the data that was just received"
\* (echo_server.cpp:19): a client never gets back more than it has sent.
EchoesWhatItGot == echoed <= received
=============================================================================
