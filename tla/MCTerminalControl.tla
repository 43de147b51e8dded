-------------------------- MODULE MCTerminalControl --------------------------
(* Two browser tabs, each with a connection that it may reopen.             *)
EXTENDS TerminalControlInvariant, TLC

CONSTANTS c1, c2, tab1, tab2

TwoTabs == c1 :> tab1 @@ c2 :> tab2
=============================================================================
