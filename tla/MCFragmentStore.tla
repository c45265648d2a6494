---------------------------- MODULE MCFragmentStore ----------------------------
(* Small instances of FragmentStore. *)
EXTENDS FragmentStore, TLC

CONSTANTS big, bigger

Messages == {big, bigger}

\* With an MTU of 5, headers of 1 and 1, and 1 byte of optional headers: bigger
\* is cut into 2 + 3 + 1 bytes, and big into 3 + 2.
Sizes == big :> 5 @@ bigger :> 6
Headers == big :> 0 @@ bigger :> 1

================================================================================
