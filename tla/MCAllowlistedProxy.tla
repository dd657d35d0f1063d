---- MODULE MCAllowlistedProxy ----
(* Two names and three addresses, of which one is written in five ways and  *)
(* one also in wide digits, which only the resolver reads, and patterns for *)
(* a name, any name, a network and one port of an address.                  *)
EXTENDS AllowlistedProxy

Private == "10.0.0.1"
Public == "8.8.8.8"
Local6 == "::1"
Wide == "wide 8.8.8.8"
MCParses == [t \in {Private, Public, Local6, "::ffff:10.0.0.1"} |-> t]
MCAton == [t \in {Private, Public, "167772161", "012.0.0.1", "10.1"} |-> IF t = Public THEN Public ELSE Private]
MCMapped == [t \in {"::ffff:10.0.0.1"} |-> Private]
Host(t, c, d) == [text |-> t, caps |-> c, dot |-> d]
MCStr == [a \in {Private, Public, Local6} |-> Host(a, FALSE, FALSE)]
MCNetworks == [n \in {"10.0.0.0/8", Local6} |-> IF n = Local6 THEN {Local6} ELSE {Private}]
Plain(texts) == {Host(t, FALSE, FALSE) : t \in texts}
MCGlobs == [g \in {"*.a.com", "b.com", "b.com.", "*"} |->
    CASE g = "*.a.com" -> Plain({"www.a.com"})
      [] g = "b.com" -> Plain({"b.com"})
      [] g = "b.com." -> {Host("b.com", FALSE, TRUE)}
      [] OTHER -> {Host(t, FALSE, d) : t \in {"www.a.com", "b.com", Wide} \cup DOMAIN MCAton, d \in BOOLEAN}]
MCDials == [t \in {Wide} \cup DOMAIN MCParses \cup DOMAIN MCAton |-> CASE t = Local6 -> Local6 [] t \in {Public, Wide} -> Public [] OTHER -> Private]

Pattern(t, p) == [text |-> t, port |-> p]
MCPatterns == {Pattern("*.a.com", NoPort), Pattern("b.com", 8080), Pattern("b.com.", 80),
               Pattern("10.0.0.0/8", AnyPort),
               Pattern(Local6, 443), Pattern("*", 8443)}
MCTargets ==
    {[host |-> Host(t, c, d), port |-> p] :
       t \in {"www.a.com", "b.com"}, c \in BOOLEAN, d \in BOOLEAN, p \in {NoPort, 80, 8080}}
      \cup {[host |-> Host(t, FALSE, d), port |-> p] : t \in DOMAIN MCDials, d \in BOOLEAN, p \in {NoPort, 8443}}
MCAllowed == {t \in MCTargets : Accepts(t)}
====
