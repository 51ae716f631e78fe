------------------------------- MODULE Delivery -------------------------------
(***************************************************************************)
(* What a stream of bytes between two ends of kitty promises: messages are *)
(* delivered one by one, unchanged and in the order they were sent, until  *)
(* the reader panics, or has a message before it whose end it cannot tell. *)
(* From there on it has lost its place and may deliver anything, or fail.  *)
(***************************************************************************)
EXTENDS Naturals, Sequences

CONSTANTS
    Messages,
    Fitting,  \* the messages whose end the reader can tell
    Legible   \* the messages that Decode does not panic on

VARIABLES
    sent,
    out,      \* what was delivered
    state     \* of the reader: "up", "failed" or "panicked"

Init == sent = <<>> /\ out = <<>> /\ state = "up"

\* The message to be delivered next.
turn == Len(out) + 1

InStep == turn <= Len(sent) /\ \A k \in 1..turn : sent[k] \in Fitting

HasLostItsPlace == \E k \in 1..Len(sent) : k <= turn /\ sent[k] \notin Fitting

Send ==
    /\ \E m \in Messages : sent' = Append(sent, m)
    /\ UNCHANGED <<out, state>>

Deliver ==
    /\ state = "up"
    /\ InStep
    /\ sent[turn] \in Legible
    /\ out' = Append(out, sent[turn])
    /\ UNCHANGED <<sent, state>>

Panic ==
    /\ state = "up"
    /\ InStep
    /\ sent[turn] \notin Legible
    /\ state' = "panicked"
    /\ UNCHANGED <<sent, out>>

\* Any message, the proto error or a panic.
Stray ==
    /\ state = "up"
    /\ HasLostItsPlace
    /\ \/ Len(out') = turn /\ out' = Append(out, out'[turn]) /\ UNCHANGED state
       \/ state' \in {"failed", "panicked"} /\ UNCHANGED out
    /\ UNCHANGED sent

Next == Send \/ Deliver \/ Panic \/ Stray

Spec == Init /\ [][Next]_<<sent, out, state>>
=============================================================================
