------------------------------ MODULE HostMatch ------------------------------
(***************************************************************************)
(* Which targets allowed_hosts accepts: _split_pattern to _domain_matches  *)
(* of src/hozo/proxy.py, and the part of _handle_connect before them.      *)
(*                                                                         *)
(* A host is a text with or without capitals and with or without a dot at  *)
(* its end; a pattern is a host (a name with wildcards, or a network) and  *)
(* a port. What ipaddress, inet_aton and fnmatch make of a text are        *)
(* constants, as is what the resolver would dial for it (Dials).           *)
(***************************************************************************)
EXTENDS Naturals

CONSTANTS
    Patterns,   \* allowed_hosts
    NoPort,     \* the port of a pattern or a target without one
    AnyPort,    \* the port "*"
    NoAddress,  \* None
    Parses,     \* the addresses ip_address reads, per text
    Aton,       \* the addresses inet_aton reads, per text
    Mapped,     \* ipv4_mapped, for the IPv6 addresses that have it
    Str,        \* how str spells an address
    Networks,   \* the addresses of what ip_network reads, per text
    Globs,      \* the hosts fnmatch accepts, per pattern text
    Dials       \* the address getaddrinfo gives for a host that is one, per text:
                \* it reads more than Parses and Aton (proxy.py:165 takes any UTF-8,
                \* and IDNA turns wide digits and other full stops into plain ones)

DefaultPorts == {80, 443}
Lower(host) == [host EXCEPT !.caps = FALSE]

\* No port means 80 and 443; the empty set stands for every port.
PortsOf(pattern) ==
    IF pattern.port = NoPort THEN DefaultPorts
    ELSE IF pattern.port = AnyPort THEN {} ELSE {pattern.port}

\* Mutant: an IPv4 address is recognised in its usual form only.
IpAddressStrict(host) ==
    IF host.text \in DOMAIN Parses
      THEN IF Parses[host.text] \in DOMAIN Mapped THEN Mapped[Parses[host.text]] ELSE Parses[host.text]
      ELSE NoAddress

\* A final dot is ignored; an IPv4-mapped address is the IPv4 address it dials.
IpAddress(host) ==
    IF host.text \in DOMAIN Parses
      THEN IF Parses[host.text] \in DOMAIN Mapped THEN Mapped[Parses[host.text]] ELSE Parses[host.text]
      ELSE IF host.text \in DOMAIN Aton THEN Aton[host.text] ELSE NoAddress

InNetwork(ip, pattern) == pattern.text \in DOMAIN Networks /\ ip \in Networks[pattern.text]
FnMatch(domain, pattern) == pattern.text \in DOMAIN Globs /\ domain \in Globs[pattern.text]

DomainMatches(domain, port) ==
    LET ip == IpAddress(domain)
    IN  \E p \in Patterns :
          /\ PortsOf(p) = {} \/ port \in PortsOf(p)
          /\ IF ip # NoAddress THEN InNetwork(ip, p) ELSE FnMatch(Lower(domain), p)

Port(target) == IF target.port = NoPort THEN 443 ELSE target.port

\* _handle_connect judges an address as str spells it.
Accepts(target) ==
    LET ip == IpAddress(target.host)
    IN  DomainMatches(IF ip = NoAddress THEN target.host ELSE Str[ip], Port(target))
=============================================================================
