--------------------------- MODULE MCOneBotServer ---------------------------
(***************************************************************************)
(* OneBotServer for TLC. A configuration picks connection slots by the     *)
(* names the code gives a clientConn; their direction and roles follow     *)
(* from the name, as the handlers and startReverseClients set them.        *)
(***************************************************************************)
EXTENDS OneBotServer

Kinds ==
  [n \in {"forward-universal", "forward-api", "forward-event",
          "reverse-universal", "reverse-api", "reverse-event"} |->
    [reverse |-> n \in {"reverse-universal", "reverse-api", "reverse-event"},
     canSend |-> n \notin {"forward-api", "reverse-api"},
     canReceive |-> n \notin {"forward-event", "reverse-event"}]]

MCReverse == {c \in Conns : Kinds[c].reverse}
MCCanSend == {c \in Conns : Kinds[c].canSend}
MCCanReceive == {c \in Conns : Kinds[c].canReceive}

=============================================================================
