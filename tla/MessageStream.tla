--------------------------- MODULE MessageStream ---------------------------
(***************************************************************************)
(* What a client may expect of everything the proxy writes to it: whole    *)
(* messages, each once, in the order in which their senders had their      *)
(* turn.  Framing implements it.                                           *)
(***************************************************************************)
EXTENDS Naturals, Sequences

CONSTANT Message

VARIABLES
  asked,       \* the messages given to Proxy.send, in the order of their turns
  delivered    \* the messages the client has received

vars == <<asked, delivered>>

Init == asked = <<>> /\ delivered = <<>>

Ask(m) ==
  /\ asked' = Append(asked, m)
  /\ UNCHANGED delivered

Deliver ==
  /\ Len(delivered) < Len(asked)
  /\ delivered' = Append(delivered, asked[Len(delivered) + 1])
  /\ UNCHANGED asked

Next == (\E m \in Message : Ask(m)) \/ Deliver

Spec == Init /\ [][Next]_vars

=============================================================================
