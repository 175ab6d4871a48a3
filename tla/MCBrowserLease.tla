--------------------------- MODULE MCBrowserLease ---------------------------
(* Instances of BrowserLease for TLC: two Runs of one conversation.        *)
EXTENDS BrowserLease, TLC

CONSTANTS r1, r2, s1

MCSessionOf == [r \in Runs |-> s1]

\* Runs of one conversation are interchangeable (safety runs only).
RunSymmetry == Permutations(Runs)
=============================================================================
