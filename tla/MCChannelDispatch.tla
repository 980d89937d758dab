-------------------------- MODULE MCChannelDispatch --------------------------
(* ChannelDispatch with a sender that writes in two conversations of one scope *)
(* (two Slack threads without a scope of their own) and a user at the CLI.     *)
EXTENDS ChannelDispatch

CONSTANTS r1, r2, cli, k1, k2, kcli, s1, scli

RouteConv == (r1 :> k1) @@ (r2 :> k2) @@ (cli :> kcli)
RouteScope == (r1 :> s1) @@ (r2 :> s1) @@ (cli :> scli)

Case(debounces, interrupts, n, routes, uses_tools, stop) ==
  [debounce |-> debounces, interrupt |-> interrupts, permits |-> n, route |-> routes,
   tools |-> uses_tools, stops |-> stop]

Mixed ==
  { Case(TRUE, TRUE, 2, <<r1, r1, r1>>, FALSE, 0),
    Case(TRUE, FALSE, 1, <<r1, cli, r2>>, FALSE, 1),
    Case(FALSE, TRUE, 3, <<r1, r2, r1>>, TRUE, 0),
    Case(FALSE, TRUE, 2, <<r1, r1, r1>>, FALSE, 1),
    Case(FALSE, FALSE, 2, <<r1, r1, r2>>, TRUE, 0) }
=============================================================================
