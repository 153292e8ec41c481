----------------------------- MODULE MCBrowser -----------------------------
(* Small instances of Browser for TLC. *)
EXTENDS Browser, TLC

CONSTANTS a1, a2, h1, h2, t1, t2

\* Both agents with one harness; two harnesses of one tenant; two tenants.
Shared     == [harness |-> (a1 :> h1 @@ a2 :> h1), tenant |-> (h1 :> t1 @@ h2 :> t1)]
OneTenant  == [harness |-> (a1 :> h1 @@ a2 :> h2), tenant |-> (h1 :> t1 @@ h2 :> t1)]
TwoTenants == [harness |-> (a1 :> h1 @@ a2 :> h2), tenant |-> (h1 :> t1 @@ h2 :> t2)]

AllDeployments   == {Shared, OneTenant, TwoTenants}
SharedDeployment == {Shared}

\* The last element of a document is inside a shadow root.
LastOne == {NumElems}

=============================================================================
