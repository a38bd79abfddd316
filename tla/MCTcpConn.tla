------------------------------ MODULE MCTcpConn ------------------------------
(* An instance of TcpConn for TLC. *)
EXTENDS TcpConn, TLC

P(op, size) == [op |-> op, size |-> size]

\* Bodies of one to three bytes fit; one of none; and three that do not: their lengths
\* come out as -8, 0 and 4.
Small   == {P("build", 1), P("roomSend", 3), P("unknown", 1), P("blank", 1), P("malformed", 1),
            P("malformed", 0)}
Large   == {P("roomSend", 4), P("roomSend", 12), P("roomSend", 16)}
Bodies == UNION {[1 .. n -> Small] : n \in 1 .. 2}
             \cup {<<P("build", 1), p, q>> : p, q \in Small \ {P("blank", 1), P("unknown", 1)}}
             \cup {<<p, q>> : p \in {P("build", 1), P("roomSend", 3)}, q \in Large}
             \cup {<<q, P("build", 1)>> : q \in Large}
             \cup {<<P("malformed", 1), P("malformed", 0), P("malformed", 1), P("malformed", 1)>>}

\* The bodies one after the other.
Laid(q) == LET stop[i \in 0 .. Len(q)] == IF i = 0 THEN 0 ELSE stop[i - 1] + HeaderLength + q[i].size
           IN  [i \in DOMAIN q |-> [op |-> q[i].op, size |-> q[i].size, stop |-> stop[i]]]
MCStreams == {Laid(q) : q \in Bodies}
===============================================================================
