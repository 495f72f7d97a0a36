------------------------- MODULE CodecNegotiationMC -------------------------
(* CodecNegotiation with peers that decode everything and differ in what they *)
(* prefer, and one that decodes H265 only.                                    *)
EXTENDS CodecNegotiation

Everything == {"H264", "H265", "AV1", "ScreenContent"}
Peer(able, prefer) == [able |-> able, prefer |-> prefer]

Hardwares ==
  {Peer(Everything, "Auto"), Peer(Everything, "H265"), Peer({"H265"}, "Auto")}
=============================================================================
