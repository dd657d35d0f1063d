------------------------------ MODULE MCSession ------------------------------
(* Two concurrent sessions of Session, of every kind that differs.           *)
EXTENDS Session

Kind(backend, audit, proxied, filtered) ==
    [backend |-> backend, audit |-> audit, proxied |-> proxied, filtered |-> filtered]

MCKinds ==
    {Kind("bwrap", "no", TRUE, TRUE), Kind("bwrap", "no", FALSE, TRUE),
     Kind("bwrap", "traced", FALSE, TRUE), Kind("bwrap", "network", TRUE, FALSE),
     Kind("seatbelt", "no", TRUE, FALSE), Kind("seatbelt", "network", FALSE, FALSE)}
=============================================================================
