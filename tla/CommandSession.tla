--------------------------- MODULE CommandSession ---------------------------
(***************************************************************************)
(* A command session of engine/session/session.c, as the calls that        *)
(* html-rt/command/command_api.c exports move it: input, start, step and   *)
(* cancel.  A session is a record; a call that reports an error leaves it  *)
(* as it was.                                                              *)
(*                                                                         *)
(* What the guest computes is abstracted to when it stops: it may exit at  *)
(* any step, and one that reads its input exits at the end of it.  The     *)
(* other ways a guest ends by itself (signal, trap, deadline) change the   *)
(* session as an exit does.                                                *)
(***************************************************************************)
EXTENDS Integers, Sequences

CONSTANT MaxInput   \* max_input_bytes

TerminalStates == {"exited", "failed", "cancelled", "limit"}
States == {"none", "configuring", "waiting"} \cup TerminalStates

\* No session: the handle is zero, or was destroyed.
NoSession ==
  [state |-> "none", cancelled |-> FALSE, eof |-> FALSE, input |-> <<>>]

\* waste_session_create.
NewSession == [NoSession EXCEPT !.state = "configuring"]

Terminal(s) == s.state \in TerminalStates

\* waste_session_input: refused after the end of input and past the limit.
AcceptsInput(s, bytes) ==
  /\ s.state # "none" /\ ~Terminal(s)
  /\ ~s.eof
  /\ Len(s.input) + Len(bytes) <= MaxInput

WithInput(s, bytes, eof) ==
  [s EXCEPT !.input = @ \o bytes, !.eof = eof]

\* waste_session_cancel: a flag that the next step acts on.
Cancelled(s) ==
  IF s.state = "none" \/ Terminal(s) THEN s
  ELSE [s EXCEPT !.cancelled = TRUE,
                 !.state = IF @ = "configuring" THEN "cancelled" ELSE @]

\* waste_session_step: a limit that was hit comes first, then the cancel
\* flag, then what the guest did.
StepStates(s, reads) ==
  {"limit"}
    \cup (IF s.cancelled THEN {"cancelled"}
          ELSE {"exited"} \cup (IF reads /\ s.eof THEN {} ELSE {"waiting"}))
=============================================================================
