---------------------------- MODULE FasmAssembler -----------------------------
(***************************************************************************)
(* prjxray/fasm_assembler.py: the frames of a FASM file.  Each enabled     *)
(* feature of the file sets and clears bits; two features that need a bit  *)
(* differently end the run, a feature that the database does not have is   *)
(* kept in a list that ends it after the last line.                        *)
(*                                                                         *)
(* The lines come in any order and any number of times, after they were    *)
(* flattened to single bits (fasm.canonical_features): a tile, a feature   *)
(* and an address, 0 if the line has none.                                 *)
(***************************************************************************)
EXTENDS TileSegbits

CONSTANTS
  Lines,         \* the lines that a file may have: [tile, feature, address]
  AllowMissing   \* XRAY_ALLOW_MISSING_FEATURES is 1

ASSUME FasmAssemblerAssumption == AllowMissing \in BOOLEAN

VARIABLES
  frames,          \* self.frames: the bits that a line has set or cleared
  frames_in_use,
  missing,         \* missing_features
  enabled,         \* the lines that enable_feature has finished
  image,           \* what get_frames returns: addresses of frames, bits set
  state            \* "read", "done" or the exception that ended the run

asmVars == <<frames, frames_in_use, missing, enabled, image, state>>

InFrame(keys) == {k \in keys : k[2] < FrameWords}

\* The bits that a line sets and those that it clears; a bit beyond the last
\* word of a frame is passed over with a message.
LineFound(line) ==
  IF line.feature \in Ppips[line.tile] THEN {}
  ELSE Found(line.tile, line.feature, line.address)
SetBits(line) == InFrame(UNION {Ones(e[1], e[2]) : e \in LineFound(line)})
ClearBits(line) == InFrame(UNION {Zeros(e[1], e[2]) : e \in LineFound(line)})

\* feature_to_bits raises KeyError: the database has no such feature, or the
\* tile no segment of its block type.
IsMissing(line) ==
  /\ line.feature \notin Ppips[line.tile]
  /\ \A e \in LineFound(line) : e[1] \notin Segments

\* Faulty form of Consistent: a bit must not be there yet.
ConsistentFresh(line) == (SetBits(line) \cup ClearBits(line)) \cap DOMAIN frames = {}

\* Faulty form of Consistent: a bit that is to be cleared is not looked up.
ConsistentSet(line) == \A k \in SetBits(line) \cap DOMAIN frames : frames[k] = 1

\* No bit of the line raises FasmInconsistentBits in frame_set or frame_clear.
Consistent(line) ==
  /\ \A k \in SetBits(line) \cap DOMAIN frames : frames[k] = 1
  /\ \A k \in ClearBits(line) \cap DOMAIN frames : frames[k] = 0
  /\ SetBits(line) \cap ClearBits(line) = {}
-----------------------------------------------------------------------------
AsmInit ==
  /\ frames = [k \in {} |-> 0] /\ frames_in_use = {} /\ missing = {} /\ enabled = {}
  /\ image = [addresses |-> {}, ones |-> {}] /\ state = "read"

\* mark_roi_frames for one tile; it runs before the file is read.
MarkRoiTile(t) ==
  /\ state = "read" /\ enabled = {} /\ missing = {}
  /\ frames_in_use' = frames_in_use \cup UNION {FramesOf(s) : s \in {x \in Segments : x[1] = t}}
  /\ UNCHANGED <<frames, missing, enabled, image, state>>

\* gridinfo_at_tilename raises KeyError, which nothing catches.
UnknownTile(line) ==
  /\ state = "read" /\ line.tile \notin Tiles
  /\ state' = "key_error"
  /\ UNCHANGED <<frames, frames_in_use, missing, enabled, image>>

\* Faulty form of EnableFeature: only the frames of the line's bits are marked.
EnableFeatureBits(line) ==
  /\ state = "read" /\ line.tile \in Tiles
  /\ ~ IsMissing(line) /\ Consistent(line)
  /\ frames' = [k \in DOMAIN frames \cup SetBits(line) \cup ClearBits(line) |->
                  IF k \in DOMAIN frames THEN frames[k]
                  ELSE IF k \in SetBits(line) THEN 1 ELSE 0]
  /\ frames_in_use' = frames_in_use \cup {k[1] : k \in SetBits(line) \cup ClearBits(line)}
  /\ enabled' = enabled \cup {line}
  /\ UNCHANGED <<missing, image, state>>

\* enable_feature for a feature of the database.
EnableFeature(line) ==
  /\ state = "read" /\ line.tile \in Tiles
  /\ ~ IsMissing(line) /\ Consistent(line)
  /\ frames' = [k \in DOMAIN frames \cup SetBits(line) \cup ClearBits(line) |->
                  IF k \in DOMAIN frames THEN frames[k]
                  ELSE IF k \in SetBits(line) THEN 1 ELSE 0]
  /\ frames_in_use' = frames_in_use \cup UNION {FramesOf(e[1]) : e \in LineFound(line)}
  /\ enabled' = enabled \cup {line}
  /\ UNCHANGED <<missing, image, state>>

\* FasmInconsistentBits goes through add_fasm_line and ends the run; the bits
\* before the one that raised it stay in self.frames, which is not used again.
\* The line is kept with the others to say what the conflict is about.
InconsistentBits(line) ==
  /\ state = "read" /\ line.tile \in Tiles
  /\ ~ IsMissing(line) /\ ~ Consistent(line)
  /\ state' = "inconsistent"
  /\ enabled' = enabled \cup {line}
  /\ UNCHANGED <<frames, frames_in_use, missing, image>>

MissingFeature(line) ==
  /\ state = "read" /\ line.tile \in Tiles
  /\ IsMissing(line)
  /\ missing' = missing \cup {line}
  /\ UNCHANGED <<frames, frames_in_use, enabled, image, state>>

\* parse_fasm_filename ends with the list of missing features.
LookupError ==
  /\ state = "read" /\ missing # {} /\ ~ AllowMissing
  /\ state' = "lookup_error"
  /\ UNCHANGED <<frames, frames_in_use, missing, enabled, image>>

\* parse_fasm_filename returns and the tool calls get_frames.
GetFrames(sparse) ==
  /\ state = "read" /\ (missing = {} \/ AllowMissing)
  /\ image' = [addresses |-> {k[1] : k \in DOMAIN frames} \cup
                             (IF sparse THEN frames_in_use
                              ELSE UNION {FramesOf(s) : s \in Segments}),
               ones |-> {k \in DOMAIN frames : frames[k] = 1}]
  /\ state' = "done"
  /\ UNCHANGED <<frames, frames_in_use, missing, enabled>>

AsmEnded == state # "read" /\ UNCHANGED asmVars

AsmNext ==
  \/ \E t \in Tiles : MarkRoiTile(t)
  \/ \E line \in Lines : \/ UnknownTile(line) \/ EnableFeature(line)
                         \/ InconsistentBits(line) \/ MissingFeature(line)
  \/ LookupError
  \/ \E sparse \in BOOLEAN : GetFrames(sparse)
  \/ AsmEnded

AsmSpec == AsmInit /\ [][AsmNext]_asmVars
-----------------------------------------------------------------------------
\* Type invariant.
AsmTypeOK ==
  /\ frames \in [DOMAIN frames -> {0, 1}]
  /\ \A k \in DOMAIN frames : k[2] < FrameWords
  /\ frames_in_use \subseteq UNION {FramesOf(s) : s \in Segments}
  /\ missing \subseteq Lines /\ enabled \subseteq Lines
  /\ \A line \in missing \cup enabled : line.tile \in Tiles
  /\ image.ones \subseteq DOMAIN frames
  /\ state \in {"read", "done", "key_error", "inconsistent", "lookup_error"}

\* The image has exactly what the lines of the file say, in whatever order and
\* however often they come: the bits set are those that some line sets, and no
\* line has a bit to be clear that another has set (fasm_assembler.py:89, :111).
ImageIsUnion ==
  state = "done" =>
    /\ image.ones = UNION {SetBits(line) : line \in enabled}
    /\ \A line \in enabled : image.ones \cap ClearBits(line) = {}

\* A run ends with FasmInconsistentBits only if two of its lines, or one, need
\* a bit both set and clear: repeated lines and lines that share bits are fine.
ConflictIsReal ==
  state = "inconsistent" =>
    \E a, b \in enabled : SetBits(a) \cap ClearBits(b) # {}

\* "Even in sparse mode, zero all frames for any tile that is setting a bit"
\* (fasm_assembler.py:51): a frame of a tile that the file configures is in the
\* image, or what was in it before would stay in the device.
TilesAreWhole ==
  state = "done" =>
    \A line \in enabled : \A e \in LineFound(line) : FramesOf(e[1]) \subseteq image.addresses
=============================================================================
