-------------------------- MODULE MCWebSocketLink --------------------------
(* Small instances of WebSocketLink: message 2 is longer than MaxMessage. *)
EXTENDS WebSocketLink

Sizes(n) == n
SomeHeads == {FrameHead("data", FALSE, 1), FrameHead("more", TRUE, 1),
              FrameHead("close", TRUE, 0), FrameHead("other", TRUE, 1)}
AtMost(e) == IF e = Server THEN 2 ELSE 0
=============================================================================
