-------------------------- MODULE CodecNegotiation --------------------------
(***************************************************************************)
(* Which codec the host encodes with: Encoder::update and set_fallback of   *)
(* src/libs/scrap/src/common/codec.rs, and the part of run in               *)
(* src/src/server/video_service.rs that chooses an encoder and starts over  *)
(* ("SWITCH") when the negotiated codec is not the one it runs.  The codec   *)
(* is one global, ENCODE_CODEC_FORMAT, written by every connection that     *)
(* reports what its peer decodes and by the thread of every display; each   *)
(* action is one acquisition of its lock.                                   *)
(*                                                                         *)
(* Modelled is a build with the vram feature (that build calls update in    *)
(* the thread) on a host whose encoders take pixels (HwRamEncoder).          *)
(***************************************************************************)
EXTENDS Connections, Naturals, FiniteSets

CONSTANTS Display,     \* displays, each with a service
          Hosted,      \* the formats HwRamEncoder::try_get has an encoder for
          Decoding,    \* what peers report: [able, prefer]
          MaxChanges   \* bound on what connections do and on restarts

Hardware == {"H264", "H265", "AV1"}
CodecFormat == Hardware \cup {"ScreenContent", "Unknown"}
PreferCodec == Hardware \cup {"ScreenContent", "Auto"}

ASSUME HostedHardware == Hosted \subseteq Hardware
ASSUME DecodingType ==
  \A d \in Decoding : d.able \subseteq Hardware \cup {"ScreenContent"} /\ d.prefer \in PreferCodec
ASSUME ChangesNat == MaxChanges \in Nat

VARIABLES
  peers,        \* keys of PEER_DECODINGS
  decodings,    \* its values
  most,         \* the most frequent preference; ties go by the map's own order
  format,       \* ENCODE_CODEC_FORMAT
  office,       \* displays whose performance-mode is "office"
  stage,        \* where the thread of each display is
  want_scc,     \* the mode it was started in
  encoder,      \* the encoder it runs
  codec_format, \* the format it takes its encoder for
  changes       \* of what is not the threads'

sharedVars == <<peers, decodings, most>>
codecVars == <<sharedVars, format, office, stage, want_scc, encoder, codec_format, changes>>

Stages == {"out", "config", "choose", "fallback", "label", "run", "drop"}

CodecTypeOK ==
  /\ peers \in SUBSET Conn
  /\ decodings \in [Conn -> Decoding]
  /\ most \in PreferCodec
  /\ format \in CodecFormat
  /\ office \in SUBSET Display
  /\ stage \in [Display -> Stages]
  /\ want_scc \in SUBSET Display
  /\ encoder \in [Display -> CodecFormat \ {"Unknown"}]
  /\ codec_format \in [Display -> CodecFormat]
  /\ changes \in 0..MaxChanges

CodecInit ==
  /\ peers = {}
  /\ decodings \in {[c \in Conn |-> d] : d \in Decoding}
  /\ most = "Auto"
  /\ format = "H264"
  /\ office = {}
  /\ stage = [d \in Display |-> "out"]
  /\ want_scc = {}
  /\ encoder = [d \in Display |-> "H264"]
  /\ codec_format = [d \in Display |-> "H264"]
  /\ changes = 0

-----------------------------------------------------------------------------
(* Encoder::update.                                                          *)

\* useable: every peer decodes it and, for a hardware format, the host encodes it.
Useable(P, D) ==
  IF P = {} THEN {}
  ELSE {f \in Hosted \cup {"ScreenContent"} : \A c \in P : f \in D[c].able}

\* Only preferences that can be served count; the most frequent ones.
MostFrequent(P, D) ==
  LET Voters(f) == {c \in P : D[c].prefer = f}
      Wanted == {f \in Useable(P, D) : Voters(f) # {}}
  IN IF Wanted = {} THEN {"Auto"}
     ELSE {f \in Wanted : \A g \in Wanted : Cardinality(Voters(g)) <= Cardinality(Voters(f))}

AutoCodec(P, D, previous) ==
  IF "H264" \in Useable(P, D) THEN "H264"
  ELSE IF "H265" \in Useable(P, D) THEN "H265"
  ELSE IF P = {} THEN previous ELSE "Unknown"

Negotiated(P, D, preference, previous) ==
  IF preference = "Auto" THEN AutoCodec(P, D, previous) ELSE preference

\* EncodingUpdate::Update and Remove.
Update(P, D) ==
  /\ peers' = P
  /\ decodings' = D
  /\ \E p \in MostFrequent(P, D) :
       /\ most' = p
       /\ format' = Negotiated(P, D, p, format)

\* EncodingUpdate::Check.
CheckEncoding ==
  /\ format' = Negotiated(peers, decodings, most, format)
  /\ UNCHANGED sharedVars

\* set_fallback: a name without "h264" is taken for H265.
SetFallback(e) ==
  format' = IF e \in {"H264", "ScreenContent"} THEN e ELSE "H265"

-----------------------------------------------------------------------------
(* Connections.                                                              *)

Counted ==
  /\ changes < MaxChanges
  /\ changes' = changes + 1

\* update_codec_on_login, and update_options of a running connection.
ReportDecoding(c) ==
  /\ Counted
  /\ \E d \in Decoding : Update(peers \cup {c}, [decodings EXCEPT ![c] = d])
  /\ UNCHANGED <<office, stage, want_scc, encoder, codec_format>>

\* Drop for AuthedConnID.
Close(c) ==
  /\ c \in peers
  /\ Counted
  /\ Update(peers \ {c}, decodings)
  /\ UNCHANGED <<office, stage, want_scc, encoder, codec_format>>

\* update_options: the performance mode of the display the peer looks at.
SetPerformanceMode(d) ==
  /\ Counted
  /\ office' = IF d \in office THEN office \ {d} ELSE office \cup {d}
  /\ UNCHANGED <<sharedVars, format, stage, want_scc, encoder, codec_format>>

-----------------------------------------------------------------------------
(* The thread of a display.                                                  *)

Goto(d, next) == stage' = [stage EXCEPT ![d] = next]

Run(d) ==
  /\ stage[d] = "out"
  /\ peers # {}
  /\ want_scc' = IF d \in office THEN want_scc \cup {d} ELSE want_scc \ {d}
  /\ Goto(d, "config")
  /\ UNCHANGED <<sharedVars, format, office, encoder, codec_format, changes>>

\* get_encoder_config asks for a negotiation first.
GetEncoderConfig(d) ==
  /\ stage[d] = "config"
  /\ CheckEncoding
  /\ Goto(d, "choose")
  /\ UNCHANGED <<office, want_scc, encoder, codec_format, changes>>

\* Mutant: outside office mode what is negotiated is taken as it is.
WantedAsNegotiated(d) == IF d \in want_scc THEN "ScreenContent" ELSE format

\* Outside office mode the screen-content codec is H264, negotiated or not.
Wanted(d) ==
  IF d \in want_scc THEN "ScreenContent"
  ELSE IF format = "ScreenContent" THEN "H264" ELSE format

Choose(d) ==
  /\ stage[d] = "choose"
  /\ IF Wanted(d) \in Hosted \cup {"ScreenContent"}
     THEN encoder' = [encoder EXCEPT ![d] = Wanted(d)] /\ Goto(d, "fallback")
     ELSE UNCHANGED encoder /\ Goto(d, "drop")
  /\ UNCHANGED <<sharedVars, format, office, want_scc, codec_format, changes>>

Fallback(d) ==
  /\ stage[d] = "fallback"
  /\ SetFallback(encoder[d])
  /\ Goto(d, "label")
  /\ UNCHANGED <<sharedVars, office, want_scc, encoder, codec_format, changes>>

\* setup_encoder reads the negotiated codec again.
Label(d) ==
  /\ stage[d] = "label"
  /\ codec_format' = [codec_format EXCEPT ![d] = Wanted(d)]
  /\ Goto(d, "run")
  /\ UNCHANGED <<sharedVars, format, office, want_scc, encoder, changes>>

Scc(d) == codec_format[d] = "ScreenContent"

\* Mutant: a display in office mode follows the other displays' fallbacks.
SwitchCodecAlways(d) ==
  /\ stage[d] = "run"
  /\ codec_format[d] # format
  /\ Goto(d, "drop")
  /\ UNCHANGED <<sharedVars, format, office, want_scc, encoder, codec_format, changes>>

\* The main loop: the codec has changed ...
SwitchCodec(d) ==
  /\ stage[d] = "run"
  /\ codec_format[d] # format
  /\ ~Scc(d)
  /\ Goto(d, "drop")
  /\ UNCHANGED <<sharedVars, format, office, want_scc, encoder, codec_format, changes>>

\* ... or office mode was turned on ...
HotSwap(d) ==
  /\ stage[d] = "run"
  /\ codec_format[d] = format
  /\ d \in office /\ ~Scc(d)
  /\ SetFallback("ScreenContent")
  /\ Goto(d, "drop")
  /\ UNCHANGED <<sharedVars, office, want_scc, encoder, codec_format, changes>>

\* Mutant: the mode the service was started in is looked at.
SwitchBackByStart(d) ==
  /\ stage[d] = "run"
  /\ d \notin want_scc /\ Scc(d)
  /\ CheckEncoding
  /\ Goto(d, "drop")
  /\ UNCHANGED <<office, want_scc, encoder, codec_format, changes>>

\* ... or off.
SwitchBack(d) ==
  /\ stage[d] = "run"
  /\ d \notin office /\ Scc(d)
  /\ CheckEncoding
  /\ Goto(d, "drop")
  /\ UNCHANGED <<office, want_scc, encoder, codec_format, changes>>

\* A new subscriber, a refresh: the thread starts over for its own reasons.
Restart(d) ==
  /\ stage[d] = "run"
  /\ Counted
  /\ Goto(d, "drop")
  /\ UNCHANGED <<sharedVars, format, office, want_scc, encoder, codec_format>>

\* Drop for Raii, however run ends.
DropRaii(d) ==
  /\ stage[d] = "drop"
  /\ CheckEncoding
  /\ Goto(d, "out")
  /\ UNCHANGED <<office, want_scc, encoder, codec_format, changes>>

-----------------------------------------------------------------------------

CodecThread(d) ==
  \/ Run(d) \/ GetEncoderConfig(d) \/ Choose(d) \/ Fallback(d) \/ Label(d)
  \/ SwitchCodec(d) \/ HotSwap(d) \/ SwitchBack(d) \/ DropRaii(d)

CodecNext ==
  \/ \E c \in Conn : ReportDecoding(c) \/ Close(c)
  \/ \E d \in Display : SetPerformanceMode(d) \/ Restart(d)
  \/ \E d \in Display : CodecThread(d)

CodecSpec == CodecInit /\ [][CodecNext]_codecVars
CodecFairSpec == CodecSpec /\ \A d \in Display : WF_codecVars(CodecThread(d))

-----------------------------------------------------------------------------

\* A running service is never wrong about whether it sends screen content, the
\* mode it was started in, though it reads the negotiated codec twice and the other
\* displays set it to theirs in between: its main loop tells by this label whether
\* to leave office mode and which changes of the codec to ignore.  (About hardware
\* formats it may be wrong, see LabelIsEncoder.)
LabelKeepsMode ==
  \A d \in Display :
    stage[d] = "run" =>
      /\ codec_format[d] = "ScreenContent" <=> encoder[d] = "ScreenContent"
      /\ codec_format[d] = "ScreenContent" <=> d \in want_scc

\* The inductive invariant behind it: from the choice of the encoder on the mode
\* the service was started in decides.
CodecIInv ==
  /\ CodecTypeOK
  /\ LabelKeepsMode
  /\ \A d \in Display :
       stage[d] \in {"fallback", "label"} => (encoder[d] = "ScreenContent" <=> d \in want_scc)

\* What a display is sent in is right for its mode, for good, once the mode
\* stays: both ways, whatever the displays and the negotiation do meanwhile.
ModeFollowed ==
  \A d \in Display :
    /\ (d \in office) ~> (d \notin office \/ encoder[d] = "ScreenContent" \/ peers = {})
    /\ (d \notin office)
         ~> (d \in office \/ stage[d] # "run" \/ encoder[d] # "ScreenContent" \/ peers = {})

\* The peers have something in common that the host encodes.
Served == peers # {} /\ Negotiated(peers, decodings, most, format) # "Unknown"

\* update: "to avoid unnecessary SWITCH".  When peers and modes stay as they
\* are, every display ends up with an encoder it keeps.  (With peers that prefer
\* hardware formats; with two displays outside office mode and a peer that
\* prefers ScreenContent each restart brings about one of the other display.)
SwitchStops ==
  (<>[]Served) => \A d \in Display : <>[](stage[d] = "run")

-----------------------------------------------------------------------------
(* What a comment says and the code does not do.                            *)

\* setup_encoder: "Force correct codec_format regardless of negotiation timing".
\* A running service takes its encoder for what it is; otherwise the comparison
\* of its main loop keeps an encoder that was negotiated away.  It does not hold:
\* an update may come between set_fallback and the second reading.
LabelIsEncoder ==
  \A d \in Display : stage[d] = "run" => codec_format[d] = encoder[d]
=============================================================================
