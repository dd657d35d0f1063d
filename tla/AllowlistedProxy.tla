-------------------------- MODULE AllowlistedProxy --------------------------
(* ConnectProxy with the targets that HostMatch accepts under a list of     *)
(* patterns, and what a reader of the list takes it to say.                 *)
EXTENDS ConnectProxy, HostMatch

ASSUME AllowedIsAccepted == Allowed = {t \in Targets : Accepts(t)}

\* What the code may count on. What ip_address or, failing that, inet_aton reads
\* the resolver dials, an IPv4-mapped address as the IPv4 one; str spells an
\* address so that ip_address reads it. The resolver may read more.
Recognised == DOMAIN Parses \cup DOMAIN Aton
Unmapped(a) == IF a \in DOMAIN Mapped THEN Mapped[a] ELSE a
ASSUME AddressesAssumption ==
    /\ Recognised \subseteq DOMAIN Dials
    /\ \A t \in DOMAIN Parses : Dials[t] = Unmapped(Parses[t])
    /\ \A t \in DOMAIN Aton \ DOMAIN Parses : Dials[t] = Aton[t]
    /\ \A t \in Recognised :
         /\ Dials[t] # NoAddress /\ Dials[t] \notin DOMAIN Mapped
         /\ Str[Dials[t]].text \in DOMAIN Parses /\ Parses[Str[Dials[t]].text] = Dials[t]
ASSUME HostsAssumption ==
    /\ AnyPort # NoPort
    /\ \A t \in Targets : t.host \in [text : {t.host.text}, caps : BOOLEAN, dot : BOOLEAN]
    /\ \A g \in DOMAIN Globs : \A h \in Globs[g] :
         h \in [text : {h.text}, caps : {FALSE}, dot : BOOLEAN]

\* The port of a target under a pattern; an address, by what is dialled for it;
\* a name, by its text (only one with a final dot, if the pattern has it).
NamesPort(p, t) ==
    \/ p.port = AnyPort
    \/ p.port = NoPort /\ t.port \in {NoPort} \cup DefaultPorts
    \/ p.port \notin {AnyPort, NoPort} /\ (t.port = p.port \/ (t.port = NoPort /\ p.port = 443))
NamesAddress(p, t) == p.text \in DOMAIN Networks /\ Dials[t.host.text] \in Networks[p.text]
NamesText(p, t) ==
    p.text \in DOMAIN Globs /\ \E h \in Globs[p.text] : h.text = t.host.text /\ (h.dot => t.host.dot)

\* What the list says of a target: "a bare IP matches only an IP or CIDR entry"
\* (proxy.py:3), any other host the globs.
Listed(t) ==
    \E p \in Patterns :
      NamesPort(p, t) /\ IF t.host.text \in DOMAIN Dials THEN NamesAddress(p, t) ELSE NamesText(p, t)

\* An address that only the resolver takes for one: to the proxy it is a name.
Disguised(t) == t.host.text \in DOMAIN Dials \ Recognised
ListedAsName(t) == \E p \in Patterns : NamesPort(p, t) /\ NamesText(p, t)

\* The proxy dials only targets the list names, whichever of the spellings that
\* ip_address and inet_aton read (decimal, octal, short, IPv4-mapped, with a
\* final dot) an address comes in, and refuses none of them, but for a name that
\* ends in a dot. A disguised address is the exception: it is decided exactly
\* like a name, so that a glob may let it through to an address that no network
\* of the list holds, against proxy.py:3.
DecidedAsListed ==
    \A c \in Conns : req[c] \in Targets =>
      LET listed == IF Disguised(req[c]) THEN ListedAsName(req[c]) ELSE Listed(req[c])
      IN  /\ pc[c] = "dial" \/ verdict[c] \in {"ALLOW", "FAIL"} => listed
          /\ verdict[c] = "BLOCK" => ~listed \/ req[c].host.dot
=============================================================================
