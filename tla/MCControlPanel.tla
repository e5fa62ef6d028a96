---------------------------- MODULE MCControlPanel ----------------------------
(***************************************************************************)
(* Instances of ControlPanel for TLC: a checkout, and a root elsewhere     *)
(* that holds state only, so that the package comes from the checkout.     *)
(***************************************************************************)
EXTENDS ControlPanel

CONSTANTS Checkout, Elsewhere

MCPids == 1 .. 2
MCRoots == {Checkout, Elsewhere}
MCHome == [r \in MCRoots |-> Checkout]

=============================================================================
