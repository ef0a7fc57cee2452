--------------------------- MODULE MCPacketStream ---------------------------
(***************************************************************************)
(* Event lengths for model checking PacketStream.                          *)
(***************************************************************************)
EXTENDS PacketStream

\* With a payload of two bytes: two packets, one packet, an event too big for
\* a buffer of four bytes and an empty event.
MixedEvents ==
    [e \in Sources \X Ticks |->
        CASE e = <<"a", 1>> -> 4
          [] e = <<"a", 2>> -> 2
          [] e = <<"b", 1>> -> 5
          [] OTHER          -> 0]

\* Five bytes: three packets of two bytes or five of one.
LongEvents == [e \in Sources \X Ticks |-> 5]
=============================================================================
