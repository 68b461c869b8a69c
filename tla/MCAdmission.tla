------------------------------ MODULE MCAdmission ------------------------------
(***************************************************************************)
(* Model values for Admission: three requests from one address, of which one *)
(* has a token that names no jti and one a token that is not valid.          *)
(***************************************************************************)
EXTENDS Admission

CONSTANTS h1, h2, h3, ip, good, plain, bad

OneAddress == [h \in Handlers |-> ip]
Presented == [h \in Handlers |-> CASE h = h2 -> plain [] h = h3 -> bad [] OTHER -> good]
=============================================================================
