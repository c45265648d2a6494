------------------------------ MODULE MCDatagram ------------------------------
(* Datagram for TLC: one or two messages of every kind, at the edges of their lengths. *)
EXTENDS Datagram, TLC

Control(type, code, size) == [type |-> type, code |-> code, size |-> size]
Data(comp, rel, frag, boundary, size) ==
    [type |-> "Data", comp |-> comp, rel |-> rel, frag |-> frag, boundary |-> boundary, size |-> size]

MCDown ==
    {Control("KeepaliveResponse", 0, 0), Control("KeepaliveResponse", 0, 2),
     Control("HandshakeFinish", 0, 0), Control("HandshakeFinish", 1, 2),
     Control("HandshakeFailure", 0, 1), Control("ServerClose", 3, 0),
     Control("ConnectionError", 2, 0), Control("ReconnectSuccess", 0, 0),
     Control("ConnectionControl", 1, 9), Control("ConnectionControl", 64, 3), PaddingOf(0), PaddingOf(2),
     Data(0, <<>>, 0, FALSE, 1), Data(0, <<>>, 0, TRUE, 0), Data(5, <<>>, 0, TRUE, 2),
     Data(0, <<1>>, 0, TRUE, 1), Data(0, <<2, 3>>, 0, TRUE, 2), Data(6, <<0, 1, 2>>, 0, TRUE, 1),
     Data(0, <<4, 1>>, 7, TRUE, 3), Data(5, <<4, 1>>, 7, FALSE, 2)}

MCUp ==
    {Control("Keepalive", 0, 0), Control("ClientClose", 0, 0), Control("HandshakeStart", 0, 0),
     Control("ClientReconnect", 0, 0), Data(0, <<>>, 0, FALSE, 2), Data(0, <<3, 1, 2>>, 0, FALSE, 0),
     Data(0, <<3, 1>>, 8, FALSE, 2)}

\* With compression; and a server that says something the client does not know.
MCUpCompressed == {Data(5, <<>>, 0, FALSE, 2)}
MCDownUnknown == {Data(0, <<1>>, 0, TRUE, 1), Control("Unknown", 0, 1), Control("Pong", 1, 0)}

===============================================================================
