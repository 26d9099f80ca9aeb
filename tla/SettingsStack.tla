---------------------------- MODULE SettingsStack ----------------------------
(***************************************************************************)
(* What serial streams promise to each other and to the users of a port:   *)
(* the settings of the port are a stack.  Whoever opens the port puts its  *)
(* own settings on top, and its close brings back exactly what was in      *)
(* effect when it came, for the stream below it or for the port's users.   *)
(* The promise is void (the stack is abandoned, empty) from the moment     *)
(* somebody breaks the nesting, until the port is unused again.            *)
(***************************************************************************)
EXTENDS Sequences, Naturals

CONSTANT Settings

VARIABLE stack  \* the settings in effect are the last element

Init == stack \in {<<c>> : c \in Settings}

Kept == stack # <<>>

Open(c) ==
  /\ Kept
  /\ stack' = Append(stack, c)

Close ==
  /\ Len(stack) > 1
  /\ stack' = SubSeq(stack, 1, Len(stack) - 1)

\* The settings are changed under whoever came last.
Change(c) ==
  /\ Kept
  /\ stack' = [stack EXCEPT ![Len(stack)] = c]

Abandon == Kept /\ stack' = <<>>

Restart(c) == ~Kept /\ stack' = <<c>>

Next ==
  \/ \E c \in Settings : Open(c) \/ Change(c) \/ Restart(c)
  \/ Close
  \/ Abandon

Spec == Init /\ [][Next]_stack
=============================================================================
