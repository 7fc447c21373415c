------------------------------ MODULE MCDevice ------------------------------
(* DeviceTransport with a peer of unknown behaviour on small instances. *)
EXTENDS DeviceTransport

CONSTANT k1

Char == [kind |-> "char"]
Cr == [kind |-> "cr"]
Eol(m) == [kind |-> "eol", msg |-> m]
Hello(n) == Eol([type |-> "HELLO", nonce |-> n])
Auth(sn) == Eol([type |-> "AUTH", proof |-> Proof(k1, "CLIENT", 1, sn)])

\* Every kind of handshake line, complete and in pieces, and '\r'.
MCHandshakeUnits == {Char, Cr, Hello(0), Hello(1), Auth(1), Eol([type |-> "JUNK"])}
=============================================================================
