--------------------------- MODULE MCTransaction ---------------------------
(* Transaction for TLC: three units of work, each started in one of two    *)
(* requests, outside of any, or by another work.                           *)
EXTENDS Transaction

CONSTANTS c1, c2

MCContext == {c1, c2}
MCOrigin == MCContext \cup {None}

\* A consumer of events or a scheduled job: no request, no context.
MCOriginAlone == {None}
=============================================================================
