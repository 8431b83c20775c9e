--------------------------- MODULE MultilineReply ---------------------------
(***************************************************************************)
(* What RETR promises a client: the bytes of one reply, in order and each  *)
(* once, and when the session takes commands again the whole reply was     *)
(* sent.  The connection may break in between.                             *)
(***************************************************************************)
EXTENDS Sequences, SequencesExt

CONSTANT Replies    \* the replies a session may send

VARIABLES
    phase,  \* "idle", "sending" or "closed"
    msg,    \* the reply being sent
    out     \* what was sent of it

vars == <<phase, msg, out>>

Init == phase = "idle" /\ msg \in Replies /\ out = <<>>

Begin ==
    /\ phase = "idle" /\ phase' = "sending"
    /\ msg' \in Replies
    /\ out' = <<>>

\* The bytes that follow those already sent.
Extends == IsPrefix(out, out') /\ IsPrefix(out', msg)

Send == phase = "sending" /\ Extends /\ UNCHANGED <<phase, msg>>

Finish ==
    /\ phase = "sending" /\ phase' = "idle"
    /\ out' = msg
    /\ UNCHANGED msg

\* Not part of the promise: the session goes on with the end of the reply missing.
Cut ==
    /\ phase = "sending" /\ phase' = "idle"
    /\ Extends /\ out' # msg
    /\ UNCHANGED msg

Close == phase # "closed" /\ phase' = "closed" /\ Extends /\ UNCHANGED msg

Next == Begin \/ Send \/ Finish \/ Close

Spec == Init /\ [][Next]_vars
=============================================================================
