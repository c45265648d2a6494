----------------------------- MODULE MCNameLookup -----------------------------
(* NameLookup for TLC: a few URLs and what the name servers publish about them. *)
EXTENDS NameLookup, TLC

Domain(scheme, host, p) ==
    [kind |-> "domain", scheme |-> scheme, host |-> host, port |-> p, path |-> NoName]
Address(scheme, ip, v6, p, glued) ==
    [kind |-> "ip", scheme |-> scheme, ip |-> ip, v6 |-> v6, port |-> p, glued |-> glued, path |-> "/path",
     bracketed |-> FALSE, lastGroup |-> NoPort, upToColon |-> NoName]
InBrackets(scheme, ip, p, group) ==
    [Address(scheme, ip, TRUE, p, 0) EXCEPT !.bracketed = TRUE, !.lastGroup = group, !.upToColon = "[:"]
Srv(target, p, priority, weight) ==
    [type |-> "SRV", target |-> target, port |-> p, priority |-> priority, weight |-> weight]
A(ip) == [type |-> "A", ip |-> ip]
AAAA(ip) == [type |-> "AAAA", ip |-> ip]
Alias == [type |-> "CNAME"]

MCUrls ==
    {Domain("qunet", "play", NoPort), Domain("tcp", "old", 7), Domain("wss", "localhost", NoPort),
     Address("udp", 9, FALSE, NoPort, 0), Address("tcp", 8, TRUE, 4340, 84340),
     InBrackets("udp", 1, 4340, 1), InBrackets("udp", 1, NoPort, 1), InBrackets("tcp", 10, NoPort, NoPort),
     Domain("http", "play", NoPort), Domain(NoName, "play", 65536)}

MCPublished ==
    [k \in {[rtype |-> "SRV", proto |-> "_udp", name |-> "play"], IpKey("A", "play"),
            IpKey("A", "node"), IpKey("AAAA", "node"), IpKey("A", "spare"), IpKey("A", "old")} |->
        CASE k.rtype = "SRV" -> <<Srv("spare", 5, 2, 0), Srv("node", 0, 1, 1)>>
          [] k = IpKey("A", "play") -> <<A(2)>>
          [] k = IpKey("A", "node") -> <<Alias, A(3)>>
          [] k = IpKey("AAAA", "node") -> <<AAAA(6)>>
          [] k = IpKey("A", "spare") -> <<A(4)>>
          [] k = IpKey("A", "old") -> <<A(5)>>]

MCEither == {{"A", "AAAA"}, {"A"}}

\* Servers that announce at least one protocol of the client, or none at all.
MCKnown == {<<>>, <<[type |-> "Tcp", port |-> 11], [type |-> "new", port |-> 12], [type |-> "Udp", port |-> 13]>>}

\* Servers that announce only what the client does not know.
MCUnknown == {<<[type |-> "new", port |-> 12]>>}

===============================================================================
