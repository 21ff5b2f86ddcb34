------------------------------ MODULE WsFrames ------------------------------
(***************************************************************************)
(* How esp_websocket_client cuts a message into frames, and what a reader  *)
(* of one connection makes of the frames it gets.                          *)
(***************************************************************************)
EXTENDS Naturals, Sequences

\* need_write > client->buffer_size, the other way round.
Fits(left, buffer) == left <= buffer

\* The loop of esp_websocket_client_send_with_exact_opcode: the frames for
\* len bytes sent with opcode op, and with FIN if fin.  After the first
\* frame the opcode is 0, which is CONT.
SendLoop(op, fin, len, buffer) ==
  LET Chunk(o, left) ==
        [op |-> o, fin |-> fin /\ Fits(left, buffer),
         len |-> IF left > buffer THEN buffer ELSE left]
      rest[widx \in 0 .. len] ==
        IF widx = len THEN <<>>
        ELSE LET chunk == Chunk("CONT", len - widx)
             IN  <<chunk>> \o rest[widx + chunk.len]
      first == Chunk(op, len)
  IN  IF len = 0 /\ op = "CONT" /\ ~fin THEN <<>>
      ELSE <<first>> \o rest[first.len]

\* A message under way on a connection belongs to the thread that began it.
\* What arriving frame f of thread th does to it, and what it breaks: it may
\* continue no message ("orphan"), or start inside one whose sender is still
\* at it ("interleaved") or has given up ("cut").  CLOSE is a control frame.
OnWire(open, th, f) ==
  CASE f.op = "CLOSE" -> open
    [] OTHER -> IF f.fin THEN "none" ELSE th

Tears(open, th, f, sending) ==
  CASE f.op = "CLOSE" \/ (f.op = "CONT" /\ open = th) -> {}
    [] f.op # "CONT" /\ open = "none" -> {}
    [] f.op = "CONT" /\ open = "none" -> {"orphan"}
    [] OTHER -> IF open \in sending THEN {"interleaved"} ELSE {"cut"}
=============================================================================
