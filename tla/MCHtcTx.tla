------------------------------ MODULE MCHtcTx ------------------------------
(***************************************************************************)
(* Instances of HtcTx for TLC: the control endpoint and two of the four    *)
(* data endpoints, packets that cost one or two credits.                   *)
(***************************************************************************)
EXTENDS HtcTx, TLC

CONSTANTS t1, t2, t3, c1, c2, v1, b1, b2, b3

MCSenders == {t1, t2}
MCData == <<"VO", "BE">>
MCThreshNum == [e \in {"VO", "BE"} |-> IF e = "VO" THEN 0 ELSE 3]

\* One control packet, one voice packet and two best-effort packets, the
\* second of which costs two credits.
MCPktEp == [p \in Packets |-> IF p \in {c1, c2} THEN "WMI"
                              ELSE IF p = v1 THEN "VO" ELSE "BE"]
MCPktLen == [p \in Packets |-> IF p = b2 THEN 3 ELSE 2]

Symm == Permutations(Senders)
=============================================================================
