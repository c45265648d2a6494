----------------------------- MODULE MCConnection ------------------------------
(* Small instances of Connection. *)
EXTENDS Connection, TLC

Url(valid, dns, ping) == [valid |-> valid, dns |-> dns, ping |-> ping]

\* Every way through threadConnect that a valid URL can take.
ValidUrls == {Url(TRUE, dns, ping) : dns, ping \in BOOLEAN}

\* An address with a known protocol, a host name without one, and a bad URL.
MixedUrls == {Url(TRUE, FALSE, FALSE), Url(TRUE, TRUE, TRUE), Url(FALSE, FALSE, FALSE)}

================================================================================
