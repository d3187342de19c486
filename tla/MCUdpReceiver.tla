--------------------------- MODULE MCUdpReceiver ---------------------------
(* Instances of UdpReceiver for TLC.                                       *)
EXTENDS UdpReceiver

(* Two handshakes of one peer, one of another, and data under two ids.     *)
MCFrom == [m \in Messages |-> IF m \in {"h1", "h2"} THEN "p" ELSE "q"]

MCId == [m \in Messages |->
            IF m \in {"h1", "h2", "k"} THEN 255 ELSE IF m = "e" THEN 2 ELSE 1]

(* Peers are named by their users, with their fingerprint or otherwise.    *)
MCNickname == [p \in Peers |-> IF p = "p" THEN "p" ELSE "vienna"]

MCLength == [m \in Messages |-> IF m = "odd" THEN 5 ELSE 6]
=============================================================================
