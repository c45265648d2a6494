------------------------------- MODULE NameLookup -------------------------------
(***************************************************************************)
(* From a URL to a connection: threadConnect reads the URL,                *)
(* threadConnectDomain looks the name up (SRV first, when no port is       *)
(* given), fetchIps asks for both address families at the same time, and   *)
(* PingCandidates does the rest.  A query of the Resolver is answered from *)
(* its cache or by the c-ares thread, which calls back whenever it likes;  *)
(* the worker waits for ten seconds, and the application may disconnect    *)
(* and connect again while answers are still on their way.                 *)
(***************************************************************************)
EXTENDS PingCandidates

CONSTANTS
    Urls,         \* what the application connects to
    Published,    \* what the name servers publish: [keys -> sequences of resource records]
    Families,     \* the sets of address families the application may enable
    MaxConnects   \* bound: calls of connect()

RecordTypes == {"SRV", "A", "AAAA"}
NoName == ""

\* A URL has a scheme or none, names a host or an address (ip, v6), and has a port or none.
\* An IPv6 address without brackets and the port after it may read as one longer address:
\* that is glued, or 0 if they do not.  Of one in brackets, lastGroup is the decimal number that
\* what follows its last colon begins with, or NoPort, and upToColon what precedes that colon.
ASSUME NameLookupAssumption ==
    /\ MaxConnects \in Nat
    /\ \A u \in Urls :
         /\ u.kind \in {"ip", "domain"} /\ u.port \in Nat \cup {NoPort}
         /\ u.kind = "ip" => u.ip \in Nat /\ u.glued \in Nat /\ u.v6 \in BOOLEAN
                           /\ u.bracketed \in BOOLEAN /\ u.lastGroup \in Nat \cup {NoPort}
    /\ \A key \in DOMAIN Published :
         LET s == Published[key]
         IN  /\ DOMAIN s = 1..Len(s) /\ Len(s) \in Nat
             /\ \A i \in DOMAIN s :
                  /\ s[i].type = "SRV" => s[i].priority \in Nat /\ s[i].weight \in Nat
                  /\ s[i].type \in {"A", "AAAA"} => s[i].ip \in Nat
    /\ Families \subseteq SUBSET {"A", "AAAA"}

VARIABLES
    connects,   \* number of the attempt; a query belongs to the channel of one attempt
    url,        \* the URL of the attempt, as UrlParser leaves it; kind "bad" if it cannot
    enabled,    \* m_ipv4Enabled and m_ipv6Enabled: a subset of {"A", "AAAA"}
    port,       \* the port the addresses get
    call,       \* per record type: "off", "waiting", "error" or [ok, value]
    queries,    \* what c-ares has been asked and has not called back for: [n, key]
    cache,      \* m_aCache, m_aaaaCache, m_srvCache: [keys -> values]
    connectHostname,
    connectPath

lookupVars == <<connects, url, enabled, port, call, queries, cache, connectHostname, connectPath>>
vars == <<pingVars, lookupVars>>

--------------------------------------------------------------------------------

Schemes ==
    [udp |-> "Udp", tcp |-> "Tcp", quic |-> "Quic", ws |-> "WebSocket", wss |-> "WebSocketTls",
     qunet |-> "Unknown"]

\* UrlParser::parse: scheme, then path, then port, which must fit into 16 bits, then host.  A colon
\* is taken for that of the port unless the whole is an IPv6 address, which one in brackets is not:
\* without a port, its last group is read as the port, and what is left is a name.
Parse(raw) ==
    LET glued == raw.kind = "ip" /\ ~raw.bracketed /\ raw.glued # 0
        split == raw.kind = "ip" /\ raw.v6 /\ raw.bracketed /\ raw.port = NoPort
        unreadable == \/ raw.scheme \notin DOMAIN Schemes \cup {NoName}
                      \/ ~glued /\ raw.port >= 2^16
                      \/ split /\ raw.lastGroup \notin 0..(2^16 - 1)
        type == IF raw.scheme = NoName THEN "Unknown" ELSE Schemes[raw.scheme]
        Name(host, itsPort) ==
            [kind |-> "domain", type |-> type, path |-> raw.path, port |-> itsPort, host |-> host]
    IN  IF unreadable THEN [kind |-> "bad"]
        ELSE CASE split -> Name(raw.upToColon, raw.lastGroup)
               [] raw.kind = "domain" -> Name(raw.host, raw.port)
               [] OTHER ->
                    [kind |-> "ip", type |-> type, path |-> raw.path, v6 |-> raw.v6,
                     port |-> IF glued THEN NoPort ELSE raw.port,
                     ip |-> IF glued THEN raw.glued ELSE raw.ip]

DefaultPort(type) ==
    CASE type = "WebSocket" -> 80 [] type = "WebSocketTls" -> 443 [] OTHER -> 4340

\* getSrvProto.
SrvProto(type) ==
    CASE type = "Tcp" -> "_tcp" [] type = "Quic" -> "_quic"
      [] type \in {"WebSocket", "WebSocketTls"} -> "_ws" [] OTHER -> "_udp"

SrvKey(u) == [rtype |-> "SRV", proto |-> SrvProto(u.type), name |-> u.host]
IpKey(rtype, name) == [rtype |-> rtype, proto |-> NoName, name |-> name]

\* The order of the endpoints of an SRV record.
SrvLess(e, f) ==
    IF e.priority # f.priority THEN e.priority < f.priority ELSE e.weight < f.weight

\* parseQuery: the records of the type that was asked for, if there are any; of an SRV record
\* only the endpoint that is sorted first is ever used.  std::sort may leave any of the least
\* ones there.
ParseQuery(key) ==
    LET answer == IF key \in DOMAIN Published THEN ToSet(Published[key]) ELSE {}
        records == {r \in answer : r.type = key.rtype}
    IN  IF records = {} THEN {}
        ELSE IF key.rtype # "SRV" THEN {{r.ip : r \in records}}
        ELSE {e \in records : \A f \in records : ~SrvLess(f, e)}

\* getCachedA and its like: what the cache holds, and the name every host has for itself.
Cached(key) ==
    IF key.name = "localhost" /\ key.rtype # "SRV"
    THEN {IF key.rtype = "A" THEN {127} ELSE {1}}
    ELSE IF key \in DOMAIN cache THEN {cache[key]} ELSE {}

Ok(value) == [ok |-> TRUE, value |-> value]
Error == [ok |-> FALSE]
Off == [ok |-> FALSE, off |-> TRUE]
Waiting == [ok |-> FALSE, waiting |-> TRUE]

\* What a call of queryA and its like leaves the caller with: the cached record, an error at
\* once (c-ares refuses, or the build has no SRV queries), or the wait for the callback.
Started(key) ==
    IF Cached(key) # {} THEN {Ok(value) : value \in Cached(key)} ELSE {Error, Waiting}

Asked(keys) == {[n |-> connects', key |-> k] : k \in keys}

\* sortAddresses: the preferred family first, by the bits of the address within a family.
AddressLess(a, b) ==
    IF a.v6 # b.v6 THEN a.v6 = PreferIpv6 ELSE a.ip < b.ip

SortAddresses(set) == InOrder(set, AddressLess)

Done == {"idle", "invalid", "notfound", "connected", "failed"}

Init ==
    /\ PingInit
    /\ connects = 0 /\ url = [kind |-> "bad"] /\ enabled = {} /\ port = NoPort
    /\ call = [t \in RecordTypes |-> Off] /\ queries = {} /\ cache = <<>>
    /\ connectHostname = NoName /\ connectPath = NoName

--------------------------------------------------------------------------------

\* threadConnectWithIps: a known protocol needs no pings.
ThreadConnectWithIps(set) ==
    IF url'.type = "Unknown"
    THEN ThreadPingCandidates(SortAddresses(set))
    ELSE ThreadFinalConnect(SortAddresses(set), url'.type)

\* fetchIps begins: both families, as far as they are enabled, are asked for together.
FetchIps(srv, name, itsPort) ==
    /\ port' = itsPort
    /\ \E a \in IF "A" \in enabled' THEN Started(IpKey("A", name)) ELSE {Off},
          aaaa \in IF "AAAA" \in enabled' THEN Started(IpKey("AAAA", name)) ELSE {Off} :
         /\ call' = [t \in RecordTypes |-> CASE t = "SRV" -> srv [] t = "A" -> a [] t = "AAAA" -> aaaa]
         /\ queries' = queries \cup Asked({IpKey(t, name) : t \in {t \in {"A", "AAAA"} : call'[t] = Waiting}})
    /\ NotYet("ips")

\* threadConnectIp: the address is used as it is, whatever families are enabled.
ThreadConnectIp(u) ==
    /\ connectHostname' = NoName
    /\ connectPath' = NoName
    /\ port' = IF u.port # NoPort THEN u.port ELSE DefaultPort(u.type)
    /\ call' = [t \in RecordTypes |-> Off]
    /\ UNCHANGED queries
    /\ ThreadConnectWithIps({[ip |-> u.ip, v6 |-> u.v6, port |-> port']})

\* threadConnectDomain up to its first wait.
ThreadConnectDomain(u) ==
    /\ connectPath' = u.path
    /\ UNCHANGED connectHostname
    /\ IF u.port # NoPort
       THEN FetchIps(Off, u.host, u.port)
       ELSE /\ \E srv \in Started(SrvKey(u)) :
                 /\ call' = [t \in RecordTypes |-> IF t = "SRV" THEN srv ELSE Off]
                 /\ queries' = queries \cup Asked(IF srv = Waiting THEN {SrvKey(u)} ELSE {})
            /\ NotYet("srv")
            /\ UNCHANGED port

\* threadConnect.  A URL that cannot be parsed changes nothing.
ThreadConnect(raw, families) ==
    /\ phase \in Done /\ connects < MaxConnects
    /\ connects' = connects + 1 /\ url' = Parse(raw) /\ enabled' = families
    /\ CASE url'.kind = "bad" ->
              /\ NotYet("invalid")
              /\ call' = [t \in RecordTypes |-> Off]
              /\ UNCHANGED <<port, queries, connectHostname, connectPath>>
         [] url'.kind = "ip" -> ThreadConnectIp(url')
         [] url'.kind = "domain" -> ThreadConnectDomain(url')
    /\ UNCHANGED cache

\* threadConnectDomain goes on with the SRV record, or without.
SrvDone ==
    /\ phase = "srv" /\ call["SRV"] # Waiting
    /\ UNCHANGED <<connects, url, enabled, cache, connectHostname, connectPath>>
    /\ LET srv == call["SRV"]
       IN  IF srv.ok
           THEN FetchIps(srv, srv.value.target,
                         IF srv.value.port # 0 THEN srv.value.port ELSE DefaultPort(url.type))
           ELSE FetchIps(srv, url.host, DefaultPort(url.type))

Found ==
    UNION {{[ip |-> i, v6 |-> t = "AAAA", port |-> port] : i \in call[t].value} :
              t \in {t \in {"A", "AAAA"} : call[t].ok}}

\* Mutant: an error of either family is an error of the lookup.
IpsDoneStrict ==
    /\ phase = "ips" /\ \A t \in {"A", "AAAA"} : call[t] # Waiting
    /\ UNCHANGED <<connects, url, enabled, port, call, queries, cache, connectPath>>
    /\ IF Found = {} \/ \E t \in {"A", "AAAA"} : call[t] = Error
       THEN NotYet("notfound") /\ UNCHANGED connectHostname
       ELSE /\ connectHostname' = url.host
            /\ ThreadConnectWithIps(Found)

\* fetchIps has both answers; errors are only logged.
IpsDone ==
    /\ phase = "ips" /\ \A t \in {"A", "AAAA"} : call[t] # Waiting
    /\ UNCHANGED <<connects, url, enabled, port, call, queries, cache, connectPath>>
    /\ IF Found = {}
       THEN NotYet("notfound") /\ UNCHANGED connectHostname
       ELSE /\ connectHostname' = url.host
            /\ ThreadConnectWithIps(Found)

\* threadCancelConnection: the application disconnects, the future of threadConnect is dropped
\* with every channel it waits on.
ThreadCancelConnection ==
    /\ phase \notin Done
    /\ NotYet("idle")
    /\ call' = [t \in RecordTypes |-> Off]
    /\ UNCHANGED <<connects, url, enabled, port, queries, cache, connectHostname, connectPath>>

--------------------------------------------------------------------------------

\* wrapSync gives up after ten seconds.  The query stays with c-ares.
Timeout(t) ==
    /\ phase \in {"srv", "ips"} /\ call[t] = Waiting
    /\ call' = [call EXCEPT ![t] = Error]
    /\ UNCHANGED <<pingVars, connects, url, enabled, port, queries, cache, connectHostname,
                   connectPath>>

\* Mutant: one channel for all calls of a kind, so that an old answer reaches a new call.
DeliverToAny(q, result) ==
    IF call[q.key.rtype] = Waiting
    THEN [call EXCEPT ![q.key.rtype] = result] ELSE call

\* The callback owns the sender of its own call's channel: a call that is over does not hear it.
Deliver(q, result) ==
    IF q.n = connects /\ phase \in {"srv", "ips"} /\ call[q.key.rtype] = Waiting
    THEN [call EXCEPT ![q.key.rtype] = result] ELSE call

\* queryCallback, on the c-ares thread: what is published, remembered from now on, or an error.
QueryCallback ==
    \E q \in queries :
        /\ queries' = queries \ {q}
        /\ \/ \E value \in ParseQuery(q.key) :
                /\ cache' = [k \in DOMAIN cache \cup {q.key} |-> IF k = q.key THEN value ELSE cache[k]]
                /\ call' = Deliver(q, Ok(value))
           \/ cache' = cache /\ call' = Deliver(q, Error)
        /\ UNCHANGED <<pingVars, connects, url, enabled, port, connectHostname, connectPath>>

\* A record has been in the cache for five minutes.
CacheExpires ==
    /\ \E key \in DOMAIN cache : cache' = [k \in DOMAIN cache \ {key} |-> cache[k]]
    /\ UNCHANGED <<pingVars, connects, url, enabled, port, call, queries, connectHostname, connectPath>>

Ping == PingNext /\ UNCHANGED lookupVars

Next ==
    \/ \E u \in Urls, f \in Families : ThreadConnect(u, f)
    \/ SrvDone \/ IpsDone \/ ThreadCancelConnection
    \/ \E t \in RecordTypes : Timeout(t)
    \/ QueryCallback \/ CacheExpires
    \/ Ping

Spec == Init /\ [][Next]_vars

(* The worker goes on and its timeouts lapse; no name server and no Pinger need answer.  The *)
(* timer is told apart from the worker because both may be due at once.  FinishPinging is    *)
(* the only step of EndPinging, which tells whether it is enabled without sorting anything.  *)
Worker ==
    \/ SrvDone \/ IpsDone
    \/ (SendPings \/ Try) /\ UNCHANGED lookupVars

Timer ==
    \/ \E t \in RecordTypes : Timeout(t)
    \/ TimePasses /\ UNCHANGED lookupVars

FairSpec == Spec /\ WF_vars(Worker) /\ WF_phase(EndPinging) /\ WF_vars(Timer)

--------------------------------------------------------------------------------

Addressed == phase \in {"pinging", "collecting", "connecting", "connected", "failed"}

\* What the documentation of Connection::connect says a name stands for: the host itself, or
\* the most important endpoint of its SRV record when no port is given.
Meant(u) ==
    LET Endpoints == IF SrvKey(u) \in DOMAIN Published
                     THEN {r \in ToSet(Published[SrvKey(u)]) : r.type = "SRV"} ELSE {}
        Best == {e \in Endpoints : \A f \in Endpoints : e.priority <= f.priority}
    IN  IF u.port # NoPort THEN {[name |-> u.host, port |-> u.port]}
        ELSE {[name |-> u.host, port |-> DefaultPort(u.type)]}
               \cup {[name |-> e.target,
                      port |-> IF e.port # 0 THEN e.port ELSE DefaultPort(u.type)] : e \in Best}

AddressesOf(family, where) ==
    {[ip |-> i, v6 |-> family = "AAAA", port |-> where.port] :
        i \in IF where.name = "localhost"
              THEN IF family = "A" THEN {127} ELSE {1}
              ELSE UNION ParseQuery(IpKey(family, where.name))}

\* What is pinged or tried is what the URL of this attempt names: all the addresses, of one or
\* both of the enabled families, of one and the same host, with its port, whatever answers to
\* this or earlier attempts come late; and TLS is told the name of this attempt, not an older one.
AddressesRight ==
    Addressed =>
        /\ \A c \in ToSet(final) : \E a \in ToSet(addrs) : SameHost(c.addr, a)
        /\ url.kind = "ip" => connectHostname = NoName /\ Len(addrs) = 1 /\ addrs[1].ip = url.ip
        /\ url.kind = "domain" =>
               /\ connectHostname = url.host
               /\ \E where \in Meant(url), got \in SUBSET enabled :
                    ToSet(addrs) = UNION {AddressesOf(family, where) : family \in got}

\* threadConnectDomain gives up for want of an address, with DomainNotFound, only when the lookups
\* of all enabled families have failed, for whatever reason: one that fails, because the host has
\* no such address or because no answer came in time, does not spoil the other, and one that was
\* answered is not given up because of what an earlier attempt asked.
OneFamilySuffices ==
    phase = "notfound" => \A family \in enabled : call[family] = Error

\* Every attempt comes to an end, although neither name servers nor pinged servers need answer.
ConnectEnds == phase \notin Done ~> phase \in Done

\* The documentation of DomainNotFound: the resolution succeeded, and there was no such domain.  So
\* the name servers publish no address, of an enabled family, of a host that the URL stands for.
NotFoundMeansNone ==
    phase = "notfound" =>
        \E where \in Meant(url) : \A family \in enabled : AddressesOf(family, where) = {}

\* The documentation of setIpv4Enabled and setIpv6Enabled: only the other family is attempted.
OnlyEnabledFamilies ==
    Addressed => \A a \in ToSet(addrs) : (IF a.v6 THEN "AAAA" ELSE "A") \in enabled

\* The path of a ws URL reaches the transport.
PathKept == Addressed => connectPath = url.path

================================================================================
