------------------------------- MODULE Radio -------------------------------
(***************************************************************************)
(* What the emulator promises its two clients, without locks, calls or     *)
(* time: each device has at most one packet on the air and one unread      *)
(* packet in its box.  A packet reaches the peer's box at most once, never *)
(* on top of an unread packet, and nothing is in a box that was not sent.  *)
(***************************************************************************)
EXTENDS Integers

CONSTANTS
  Payload, Garbled,  \* what the clients send, and what noise makes of it
  Nothing,           \* marks an empty air or box
  Loses, Breaks      \* what the air may do to a packet

ID == {0, 1}
Peer(i) == 1 - i

VARIABLES air, box

Init == air = [i \in ID |-> Nothing] /\ box = [i \in ID |-> Nothing]

\* A new packet replaces one that is still on the air.
Transmit(i, p) == air' = [air EXCEPT ![i] = p] /\ UNCHANGED box

Read(i) == /\ box[i] # Nothing
           /\ box' = [box EXCEPT ![i] = Nothing]
           /\ UNCHANGED air

\* What may stand in box i once the peer's packet has left the air: it is
\* gone when the box was full, and only a lossy air leaves a free box free.
Outcome(i) ==
  IF box[i] # Nothing THEN {box[i]}
  ELSE {air[Peer(i)]} \cup (IF Breaks THEN {Garbled} ELSE {})
                      \cup (IF Loses THEN {Nothing} ELSE {})

\* The packets of the devices in S leave the air at the same time.
Settle(S) ==
  /\ \A i \in S : air[i] # Nothing
  /\ air' = [i \in ID |-> IF i \in S THEN Nothing ELSE air[i]]
  /\ box' \in [ID -> Payload \cup {Garbled, Nothing}]
  /\ \A i \in ID : IF Peer(i) \in S THEN box'[i] \in Outcome(i) ELSE box'[i] = box[i]

Reset == air' = [i \in ID |-> Nothing] /\ box' = [i \in ID |-> Nothing]

Next ==
  \/ \E i \in ID, p \in Payload : Transmit(i, p)
  \/ \E i \in ID : Read(i)
  \/ \E S \in SUBSET ID : Settle(S)
  \/ Reset

Spec == Init /\ [][Next]_<<air, box>>
=============================================================================
