---------------------------- MODULE RemoteObject ----------------------------
(***************************************************************************)
(* What a blocking proxy promises to its caller: calling a member through  *)
(* it is calling the function behind that member, once, and getting its    *)
(* result.  Only calls made after the farewell are never answered.         *)
(* BlockingRpc is shown to implement this specification.                   *)
(***************************************************************************)
EXTENDS Naturals, Sequences

CONSTANTS
  Void,       \* the result of a function that returns nothing
  NoCall,     \* the caller is outside of the proxy
  NoMember,   \* nobody repacked the arguments
  MaxCalls    \* bound: calls made

VARIABLES
  interface,  \* member -> the function behind it, whether the member packs its
              \* arguments itself, whether the function returns a value
  call,       \* NoCall, or the member called and whether its function has run
  executed,   \* the functions that ran, with their arguments
  returned,   \* what the calls returned
  killed      \* the server has been told to end

vars == <<interface, call, executed, returned, killed>>

Init ==
  /\ DOMAIN interface \subseteq Nat
  /\ call = NoCall
  /\ executed = <<>>
  /\ returned = <<>>
  /\ killed = FALSE

Begin(m) ==
  /\ call = NoCall
  /\ Len(returned) < MaxCalls
  /\ call' = [member |-> m, ran |-> FALSE]
  /\ UNCHANGED <<interface, executed, returned, killed>>

\* the arguments of a call are named by its number
Run ==
  /\ call # NoCall
  /\ ~call.ran
  /\ ~killed
  /\ call' = [call EXCEPT !.ran = TRUE]
  /\ LET target == interface[call.member]
     IN executed' = Append(executed,
          [function |-> target.function,
           args     |-> Len(returned) + 1,
           packer   |-> IF target.packs THEN call.member ELSE NoMember])
  /\ UNCHANGED <<interface, returned, killed>>

Return ==
  /\ call # NoCall
  /\ call.ran
  /\ call' = NoCall
  /\ returned' = Append(returned,
       IF interface[call.member].value THEN executed[Len(executed)] ELSE Void)
  /\ UNCHANGED <<interface, executed, killed>>

Kill ==
  /\ call = NoCall
  /\ ~killed
  /\ killed' = TRUE
  /\ UNCHANGED <<interface, call, executed, returned>>

Next ==
  \/ \E m \in DOMAIN interface : Begin(m)
  \/ Run
  \/ Return
  \/ Kill

Spec == Init /\ [][Next]_vars
=============================================================================
