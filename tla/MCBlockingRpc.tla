--------------------------- MODULE MCBlockingRpc ---------------------------
EXTENDS BlockingRpc

Plain == [named |-> TRUE, public |-> TRUE, kind |-> "function",
          expandable |-> FALSE, callback |-> FALSE, handler |-> NoHandler,
          value |-> TRUE]

\* members as in the service classes of the program, and those a policy skips
MCDeclarations == {
  Plain,
  [Plain EXCEPT !.public = FALSE],
  [Plain EXCEPT !.named = FALSE],
  [Plain EXCEPT !.kind = "data"],
  [Plain EXCEPT !.callback = TRUE, !.value = FALSE],
  [Plain EXCEPT !.handler = VoidHandler],
  [Plain EXCEPT !.kind = "template", !.expandable = TRUE],
  [Plain EXCEPT !.kind = "template"],
  [Plain EXCEPT !.kind = "template", !.expandable = TRUE, !.handler = VoidHandler],
  [Plain EXCEPT !.kind = "template", !.expandable = TRUE, !.handler = ValueHandler]
}
=============================================================================
