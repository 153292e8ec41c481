----------------------------- MODULE Transcript -----------------------------
(***************************************************************************)
(* What a session file promises to whoever reads it: a growing set of      *)
(* conversations and one of them as the current one.  A message is added   *)
(* by extending the current conversation, a conversation once recorded     *)
(* stays retrievable, and the current one is always among them - until a   *)
(* write goes so wrong that the file as a whole is lost.                   *)
(***************************************************************************)
EXTENDS Sequences

CONSTANT Messages

VARIABLES
  path,   \* the current conversation, root first
  known,  \* every conversation that can be returned to
  usable  \* FALSE once the file cannot be read any more

vars == <<path, known, usable>>

Init ==
  /\ path = <<>>
  /\ known = {<<>>}
  /\ usable = TRUE

\* A message nobody has seen is recorded after the current conversation.
Stage(m) ==
  /\ usable
  /\ \A p \in known : \A i \in DOMAIN p : p[i] # m
  /\ known' = known \union {Append(path, m)}
  /\ UNCHANGED <<path, usable>>

\* Another recorded conversation becomes the current one: the newly staged
\* one, an earlier one after a rewind, a side branch after a fork.
Move ==
  /\ usable
  /\ path' \in known
  /\ UNCHANGED <<known, usable>>

Lose ==
  /\ usable
  /\ usable' = FALSE
  /\ path' = <<>> /\ known' = {}

Next == (\E m \in Messages : Stage(m)) \/ Move \/ Lose

Spec == Init /\ [][Next]_vars

=============================================================================
