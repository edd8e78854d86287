-------------------------------- MODULE MCLink --------------------------------
(***************************************************************************)
(* A small instance of Link, with the framing of the connection it is      *)
(* bound to.                                                               *)
(***************************************************************************)
EXTENDS Link, Framing

\* What Link takes for granted of a connection, that it is a queue of messages: however
\* the stream cuts two messages sent one after the other, they are received as they
\* were sent, as long as neither is longer than maxMessageLength; a longer one is
\* accepted as well, and what is received instead is cut off at its length modulo
\* 2^16, with the rest taken for the next message.  (Looked at while the link has not
\* been bound: it does not depend on the state.)
FramesSurvive == Bound = 0 => KeepsMessages
===============================================================================
