------------------------- MODULE MCPacketInterface -------------------------
(* PacketInterface on small instances. *)
EXTENDS PacketInterface

(* One ordinary command, or one command with a sequence flag as well. *)
MCPlain    == {"APP"}
MCSequence == {"APP", "DIR_LIST"}
MCNone     == {}
MCList     == {"DIR_LIST"}
============================================================================
